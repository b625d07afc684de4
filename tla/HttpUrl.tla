------------------------------- MODULE HttpUrl -------------------------------
(* The URL parser of http_parser.c: the byte-for-byte automaton that         *)
(* http_parser_execute shares, the host automaton, and                       *)
(* http_parser_parse_url, which turns their transitions into fields.  A      *)
(* field is its offset and length in the buffer, kept in uint16_t: arithmetic *)
(* is modulo U16.                                                            *)
EXTENDS Text, Integers

CONSTANT U16 \* number of values of uint16_t
ASSUME U16Assumption == U16 \in Nat \ {0}

Fields == {"SCHEMA", "HOST", "PORT", "PATH", "QUERY", "FRAGMENT", "USERINFO"}
Refused == [set |-> {}, data |-> [f \in Fields |-> [off |-> 0, len |-> 0]], port |-> 0, ok |-> FALSE]

parse_url_char(s, ch) ==
  CASE s = "s_req_spaces_before_url" /\ ch \in {"/", "*"} -> "s_req_path"
    [] s \in {"s_req_spaces_before_url", "s_req_schema"} /\ ch \in ALPHA -> "s_req_schema"
    [] s = "s_req_schema" /\ ch = ":" -> "s_req_schema_slash"
    [] s = "s_req_schema_slash" /\ ch = "/" -> "s_req_schema_slash_slash"
    [] s = "s_req_schema_slash_slash" /\ ch = "/" -> "s_req_server_start"
    [] s \in {"s_req_server_with_at", "s_req_server_start", "s_req_server"} ->
         CASE ch = "/" -> "s_req_path"
           [] ch = "?" -> "s_req_query_string_start"
           [] ch = "@" -> IF s = "s_req_server_with_at" THEN "s_dead" ELSE "s_req_server_with_at"
           [] IS_USERINFO_CHAR(ch) \/ ch \in {"[", "]"} -> "s_req_server"
           [] OTHER -> "s_dead"
    [] s = "s_req_path" /\ IS_URL_CHAR(ch) -> "s_req_path"
    [] s = "s_req_path" /\ ch = "?" -> "s_req_query_string_start"
    [] s \in {"s_req_query_string_start", "s_req_query_string"} /\ (IS_URL_CHAR(ch) \/ ch = "?") -> "s_req_query_string"
    [] s \in {"s_req_path", "s_req_query_string_start", "s_req_query_string"} /\ ch = "#" -> "s_req_fragment_start"
    [] s = "s_req_fragment_start" /\ ch = "#" -> "s_req_fragment_start"
    [] s \in {"s_req_fragment_start", "s_req_fragment"} /\ (IS_URL_CHAR(ch) \/ ch = "?") -> "s_req_fragment"
    [] s = "s_req_fragment" /\ ch = "#" -> "s_req_fragment"
    [] OTHER -> "s_dead" \* a space, a control character, or no transition

http_parse_host_char(s, ch) ==
  CASE s \in {"userinfo", "userinfo_start"} /\ ch = "@" -> "host_start"
    [] s \in {"userinfo", "userinfo_start"} /\ IS_USERINFO_CHAR(ch) -> "userinfo"
    [] s = "host_start" /\ ch = "[" -> "host_v6_start"
    [] s \in {"host_start", "host"} /\ IS_HOST_CHAR(ch) -> "host"
    [] s \in {"host", "host_v6_end"} /\ ch = ":" -> "host_port_start"
    [] s \in {"host_v6", "host_v6_zone"} /\ ch = "]" -> "host_v6_end"
    [] s \in {"host_v6", "host_v6_start"} /\ (ch \in HEX \cup {":", "."}) -> "host_v6"
    [] s = "host_v6" /\ ch = "%" -> "host_v6_zone_start"
    [] s \in {"host_v6_zone", "host_v6_zone_start"} /\ ch \in ALPHA \cup NUM \cup CharsOf("%.-_~") -> "host_v6_zone"
    [] s \in {"host_port", "host_port_start"} /\ ch \in NUM -> "host_port"
    [] OTHER -> "dead"

(* Field f gains the byte at offset p: a new field starts there, a current one grows. *)
Grow(u, f, p, fresh) ==
  [u EXCEPT !.set = IF fresh THEN @ \cup {f} ELSE @,
            !.data[f] = [off |-> IF fresh THEN p % U16 ELSE @.off,
                         len |-> IF fresh THEN 1 ELSE (@.len + 1) % U16]]

(* One byte of the host at offset p.  The length of the host itself was set  *)
(* to zero before the loop, and a zone only ever extends it.                 *)
(* Mutant: the '@' that ends the user information is counted into it. *)
HostByte_AtCounted(u, old, new, p) ==
  CASE new \in {"host", "host_v6"} ->
         [u EXCEPT !.data["HOST"] = [off |-> IF old # new THEN p % U16 ELSE @.off, len |-> (@.len + 1) % U16]]
    [] new \in {"host_v6_zone_start", "host_v6_zone"} -> [u EXCEPT !.data["HOST"].len = (@ + 1) % U16]
    [] new = "host_port" -> Grow(u, "PORT", p, old # new)
    [] new = "userinfo" \/ old = "userinfo" -> Grow(u, "USERINFO", p, old # "userinfo")
    [] OTHER -> u
HostByte(u, old, new, p) ==
  CASE new \in {"host", "host_v6"} ->
         [u EXCEPT !.data["HOST"] = [off |-> IF old # new THEN p % U16 ELSE @.off, len |-> (@.len + 1) % U16]]
    [] new \in {"host_v6_zone_start", "host_v6_zone"} -> [u EXCEPT !.data["HOST"].len = (@ + 1) % U16]
    [] new = "host_port" -> Grow(u, "PORT", p, old # new)
    [] new = "userinfo" -> Grow(u, "USERINFO", p, old # new)
    [] OTHER -> u

HostUnfinished == {"host_start", "host_v6_start", "host_v6", "host_v6_zone_start", "host_v6_zone",
                   "host_port_start", "userinfo", "userinfo_start"}

HostStep(prev, ch, p) ==
  LET new == http_parse_host_char(prev.s, ch) IN [s |-> new, u |-> HostByte(prev.u, prev.s, new, p)]
HostEnd(last) == [last.u EXCEPT !.ok = last.s \notin HostUnfinished \cup {"dead"}]

http_parse_host(buf, u, found_at) ==
  LET end == u.data["HOST"].off + u.data["HOST"].len
      Scan[p \in 0..end] == \* automaton and fields once the bytes before offset p are read
        IF p = u.data["HOST"].off
        THEN [s |-> IF found_at THEN "userinfo_start" ELSE "host_start", u |-> [u EXCEPT !.data["HOST"].len = 0]]
        ELSE HostStep(Scan[p - 1], At(buf, p), p - 1)
  IN HostEnd(Scan[end])

UrlField(s) ==
  CASE s = "s_req_schema" -> "SCHEMA"
    [] s \in {"s_req_server", "s_req_server_with_at"} -> "HOST"
    [] s = "s_req_path" -> "PATH"
    [] s = "s_req_query_string" -> "QUERY"
    [] s = "s_req_fragment" -> "FRAGMENT"
    [] OTHER -> "" \* a delimiter

(* The main loop: automaton, current field, whether an '@' was seen, fields. *)
UrlStep(prev, s, uf, p) ==
  IF uf = "" THEN [prev EXCEPT !.s = s]
  ELSE [s |-> s, uf |-> uf, at |-> prev.at \/ s = "s_req_server_with_at", u |-> Grow(prev.u, uf, p, uf # prev.uf)]
UrlNext(prev, ch, p) == LET s == parse_url_char(prev.s, ch) IN UrlStep(prev, s, UrlField(s), p)
UrlLoop(buf, is_connect) ==
  LET Scan[p \in 0..Len(buf)] ==
        IF p = 0
        THEN [s |-> IF is_connect THEN "s_req_server_start" ELSE "s_req_spaces_before_url",
              uf |-> "", at |-> FALSE, u |-> [Refused EXCEPT !.ok = TRUE]]
        ELSE UrlNext(Scan[p - 1], At(buf, p), p - 1)
  IN Scan[Len(buf)]

(* Mutant: the accumulator has the width of the port. *)
PortValue_Narrow(buf, d) ==
  LET V[i \in 0..d.len] == IF i = 0 THEN 0 ELSE (10 * V[i - 1] + DigitVal(At(buf, d.off + i))) % U16 IN V[d.len]
PortValue(buf, d) ==
  LET V[i \in 0..d.len] == IF i = 0 THEN 0
                           ELSE IF V[i - 1] >= U16 THEN V[i - 1] \* the loop has returned
                           ELSE 10 * V[i - 1] + DigitVal(At(buf, d.off + i))
  IN V[d.len]

WithPort(u, port) ==
  IF "PORT" \notin u.set THEN [u EXCEPT !.port = 0]
  ELSE IF port >= U16 THEN Refused ELSE [u EXCEPT !.port = port]
Checked(buf, is_connect, u) ==
  IF \/ "SCHEMA" \in u.set /\ "HOST" \notin u.set
     \/ ~u.ok
     \/ is_connect /\ u.set # {"HOST", "PORT"}
  THEN Refused
  ELSE WithPort(u, PortValue(buf, u.data["PORT"]))
AfterLoop(buf, is_connect, main) ==
  IF main.s = "s_dead" THEN Refused
  ELSE Checked(buf, is_connect, IF "HOST" \in main.u.set THEN http_parse_host(buf, main.u, main.at) ELSE main.u)
http_parser_parse_url(buf, is_connect) ==
  IF buf = "" THEN Refused ELSE AfterLoop(buf, is_connect, UrlLoop(buf, is_connect))
=============================================================================
