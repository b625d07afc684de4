----------------------------- MODULE HeaderList -----------------------------
(* What HttpResponseHeaders promises its users (http_response_headers.hh): an  *)
(* ordered list of header lines, names compared without regard to case, under  *)
(* a status that operations on headers leave alone.                            *)
EXTENDS Sequences, FiniteSets, Integers

CONSTANTS Fold(_),   \* a name in lower case
          Trim(_),   \* a value without the white space around it
          Kept(_),   \* headers a 304 or 206 response does not replace
          Names, Values, Statuses, Responses, Ranges  \* arguments

VARIABLES status,  \* <<version, code>>
          lines    \* sequence of <<name, value>>
vars == <<status, lines>>

Without(ls, names) == SelectSeq(ls, LAMBDA l : Fold(l[1]) \notin {Fold(n) : n \in names})

(* HTTP/0.9 has no headers: with some it is taken for HTTP/1.0. *)
Upgraded(st, ls) == IF st[1] = <<0, 9>> /\ ls # <<>> THEN <<<<1, 0>>, st[2]>> ELSE st
Become(st, ls) == lines' = ls /\ status' = Upgraded(st, ls)

Add(n, v) == Become(status, Append(lines, <<n, Trim(v)>>))
Remove(names) == Become(status, Without(lines, names))
RemoveLine(n, v) == Become(status, SelectSeq(lines, LAMBDA l : ~(Fold(l[1]) = Fold(n) /\ l[2] = v)))
Replace(n, v) == Become(status, Append(Without(lines, {n}), <<n, Trim(v)>>))
SetStatus(st) == Become(st, lines)
MergeFrom(new) ==
  LET taken == SelectSeq(new, LAMBDA l : ~Kept(l[1]))
  IN Become(status, taken \o Without(lines, {taken[i][1] : i \in DOMAIN taken}))
SetRange(st, range, length) ==
  Become(st, Without(lines, {"Content-Length", "Content-Range"}) \o <<<<"Content-Range", range>>, <<"Content-Length", length>>>>)
Next ==
  \/ \E n \in Names, v \in Values : Add(n, v) \/ RemoveLine(n, v) \/ Replace(n, v)
  \/ \E n \in Names : Remove({n})
  \/ Remove(Names)
  \/ \E st \in Statuses : SetStatus(st)
  \/ \E new \in Responses : MergeFrom(new)
  \/ \E r \in Ranges, st \in {status, <<<<1, 1>>, 206>>} : SetRange(st, r[1], r[2])
Spec == [][Next]_vars
=============================================================================
