------------------------------ MODULE MCServer ------------------------------
(* An instance of Server for TLC. *)
EXTENDS Server

CONSTANTS c1, c2, s1, s2, e1, w1, w2

MCCids == {c1, c2}
MCStreamIds == {s1, s2}
MCPeers == {c1, c2, e1}
MCErrorCodes == {e1}
MCWorkers == {w1, w2}

Chars(name) == [i \in 1..Len(name) |-> SubSeq(name, i, i)]
AllChars(names) == {Chars(n) : n \in names}

MCNames == AllChars({"a.x", "b.x", "*.x", "*"})
MCHosts == AllChars({"a.x", "b.x", "c.a.x", "x", "y"})
MCSans == {AllChars(s) : s \in {{"a.x"}, {"*.x"}, {"a.x", "b.x"}, {"x", "*.a.x"}}}
MCFiles == {[sans |-> s, state |-> "good"] : s \in MCSans}
             \cup {[sans |-> AllChars({"b.x"}), state |-> t] : t \in {"unreadable", "invalid", "mismatch", "no key"}}
MCHostNames == {<<"edge", "1">>, <<"edge", "2">>, <<"core", "1">>, <<"alone">>}
=============================================================================
