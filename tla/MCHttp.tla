------------------------------- MODULE MCHttp -------------------------------
(* An instance of Http for TLC.  Byte ranges take every value of a 4-bit        *)
(* int64_t; for the others, which hold numbers as texts, it has 8 bits.         *)
EXTENDS Http

MCTextKinds == {"url", "lines", "pairs", "params", "types", "encodings", "languages", "numbers", "bytes"}

MCReceived ==
  {"HTTP/1.1 200 OK\nFoo: x, y\nSet-Cookie: x, y\nnocolon\nfoo:\"p, q\",\n\n", "HTTP/0.9 200",
   "HTTP/2.0  404  Not Found \nEtag: x\n Content-Range: z\nCONTENT-LENGTH: 9\n\n", "http/0.9 304\nnocolon\n\n"}
MCNames == {"foo", "Etag", "set-cookie"}
MCValues == {"x", " y , ", "\"p,q\"", ""}
MCStatusLines == {"HTTP/0.9 299", "HTTP/3.1 9999"}
MCNewHeaders == {"HTTP/1.1 304\nFOO: z,\nFoo: x\nEtag: new\nX-Content-Foo: 1\n\n", "HTTP/1.1 304\nSet-Cookie: n\n\n"}
MCNewRanges == {<<Bounded(2, 4), 10>>}

(* With 2 microseconds to a second, a max-age of -65 wraps to 126 microseconds, *)
(* and so does the sum of a max-age and 63 seconds of staleness.                *)
CacheLines == <<"Cache-Control: max-age=2", "cache-control: private, max-age=1", "Cache-Control: must-revalidate",
                "Cache-Control: stale-while-revalidate=2", "Pragma: no-cache", "Age: 1", "Cache-Control: max-age=-65",
                "Cache-Control: stale-while-revalidate=63", "Cache-Control: no-cache=\"age\", max-age=x",
                "Age: 12", "Cache-Control: max-age=999">>
Response(status, lines) ==
  LET L[k \in 0..Len(lines)] == IF k = 0 THEN "HTTP/1.1 " \o status ELSE L[k - 1] \o "\n" \o lines[k]
  IN L[Len(lines)] \o "\n\n"
MCResponses ==
  {Response("200", <<CacheLines[p[1]], CacheLines[p[2]]>>) : p \in {q \in (1..8) \X (1..8) : q[1] < q[2]}}
    \cup {Response("200", <<CacheLines[i]>>) : i \in 9..11} \cup {Response("301", <<>>), Response("301", <<"Age: 1">>)}
MCNotModified ==
  {Response("304", ls) : ls \in {<<"Cache-Control: max-age=1">>, <<"CACHE-CONTROL: no-store">>, <<"Age: 0">>}}

MCKeys == {"Host", "host", "Range", "X"}
MCKeyValues == {"", " a:b\t"}
MCBlocks == {"host:  c \r\nRANGE:\r\n : x\r\nb c: d\r\n", "x: a:b"}
MCOthers == {<<<<"HOST", "c">>, <<"Y", "a">>>>}
=============================================================================
