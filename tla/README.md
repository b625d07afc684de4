# A TLA+ verification of the nginx QUIC stack

The repository wraps the QUIC library *quiche* for an embedding server (nginx):
the server feeds it packets and time through a C API, and the stack calls the
server back for each HTTP request. Beside it lie the HTTP classes taken from
Chromium and the HTTP/1 parser `http_parser.c`. This directory models the code
written in the repository; quiche, BoringSSL, abseil, googleurl and the server
are modelled only by what the code sees of them (marked external in
`PROJECT.json`). Line numbers refer to files under `src/src/`.

## The system's parts

| Part | State | What makes it hard | What must hold |
|---|---|---|---|
| Alarm queue, `tQuicAlarmFactory` | `alarm_map_`, `all_alarms_`; per alarm `registered_`, `token_`, deadline | delegates use alarms while the map is walked; iterators kept in alarms | tokens and the iterator stay valid; each deadline fires once, not early; a round misses nothing |
| Alarm interface, `tQuicStack` | none | microseconds against milliseconds | no oversleeping, every alarm fires |
| Body buffer, `QueuedWriteIOBuffer` | deque of strings, pointer, size | reads across and within strings, the limit | a bounded FIFO of bytes, truthful answers |
| Request stream, `tQuicServerStream` | headers, body, flags, response, callbacks | the application runs inside callbacks; errors do not stop the stream; gQUIC delivers headers and body separately | callback order, wholeness, an answer for everybody |
| Stack and session | sessions by connection id, streams by id | request ids outlive what they name; `CloseStream` closes only half | no call reaches the wrong stream; every request ends |
| Dispatcher | write-blocked list, buffered hellos, reset counters | a refused write waits for a callback the server must ask for | no lost wake-up, no forgotten hello |
| Identities and proof source | identities by host pattern, certificates by name | overlapping patterns, files that fail to load, order of additions | the newest certificate that covers a host; identities stay |
| Server config | seed, keys and SCID of a worker | workers of a cluster, restarts | a recognized SCID means the keys are there |
| HTTP/1 parser, `http_parser.c` | parser record, marks, counters | bytes arrive in any pieces, callbacks pause | the same callbacks however the bytes are cut |
| Response and request headers, cache freshness | one text with iterators into it; an ordered list | case, repeated names, quoted commas, updates by 304 | agreement with a list of lines; nothing used past its promise |
| HTTP utilities, numbers, byte ranges, escaping | none (ranges: bounds computed once) | boundaries, overflow, quoting | what is written is read back; agreement with references |

They interact through a few narrow calls. The dispatcher creates sessions,
sessions create streams, the C API finds a stream by its request id; a stream
owns a body buffer; every quiche object takes its alarms from the queue, which
the server drives by the alarm interface. The identities are asked once per
handshake. The HTTP classes are leaves.

## Modules

**`AlarmQueue`** models every operation of `tQuicAlarmFactory.cc`. The multimap
is a set of nodes with an order; a node stands for an address and may be reused
after it is erased, so that a stale token would denote nothing or somebody
else's entry. `CallTimeoutAlarms` is split where application code runs: `Visit`
is one turn up to the delegate, `CallbackReturns` the rest of the turn,
`RoundEnds` the exit. In between any alarm may be created, destroyed, set,
cancelled or updated. `owed` is a history variable: the alarms due at the start
of a round that nobody touched since. **`AlarmService`** is what an alarm's user
relies on (a deadline per alarm, delegates that run once per deadline and not
early); `AlarmQueue` implements it. **`AlarmLoop`** composes the queue with a
clock and a server that sleeps until `quic_stack_next_alarm_time` and then calls
`quic_stack_on_alarm_timeout`.

**`BodyBuffer`** models `QueuedWriteIOBuffer` and `ReadRequestBody`. A byte is
its position in the body; each turn of the copy loop is a step. **`BodyQueue`**
is the abstract bounded queue.

**`ServerStream`** models one request stream. Header contents are reduced to
what decides control: valid or not, which host, which content-length; the body
to its length. Callbacks are states (`headerCb`, `bodyCb`, `canWriteCb`) in
which the application may read, write or add a callback. The stream layer of
quiche is external: readable bytes, FIN, the two sides and their closing, and
`OnClose` when both are closed. `FreshPointer` is what the constructor finds in
`qsi_`, which it does not initialize: null or not, in every run.

**`Stack`** models request ids: sessions by connection id, streams by stream id,
`GetSession` and `GetStream`, and each call of the C API that looks a stream up.
A stream in it is the number of the request it serves; `Reached` is what a call
meant for one request finds. A stream that closes leaves the map, unless data it
sent is still to be acknowledged. `CloseStream` takes a stream off the map without
closing it (`dropped`): `is_new_ok_` stays set, and if the stream or its
connection closes before it is deleted, `OnRequestClose` is called for a request
the application has closed. A rejected request may be reported too, when its
stream closes with the error response (`CallbackRejects`), and with `StrayCloses`
one that was never announced, through an unset `qsi_`. **`RequestTable`** is what
is left of the promise: a request is announced once, stays with the application
until it gives it up or is told of its end, and is over once, with at most one
`OnRequestClose` and no announcement after it.

**`Dispatcher`** models `tQuicDispatcher.cc` over quiche's list of blocked
writers and buffered hellos, with a socket that refuses packets.

**`Identity`** models `tQuicServerIdentifyManager`, the loading of certificate
and key files as far as it decides what is stored, `AddCertificate`, and the
choice made in `GetCertificate`. **`ServerConfig`** models how a worker derives
its config: digests and keys are terms, equal if their inputs are.

**`HttpParser`** models `http_parser_execute` with every state, flag, error and
callback, pausing, failing, upgrades and the end of the connection; a call is
one action, its bytes a loop over a record of the parser's fields and the
function's locals; every `assert` in the function and its macros is checked and
noted in `failed`. The loops go round in blocks of 16 and 64 turns, which is only
to keep TLC's recursion shallow: a finished loop takes no more turns. **`HttpUrl`** is the URL automaton the parser shares and
`http_parser_parse_url`; **`Text`** the character classes and `LOWER`, which sets
bit 5. The control of the parser is in its byte-by-byte transitions, so these
modules keep texts as texts.

**`HttpUtil`** and **`HttpFields`** are the functions of `http_util.cc` and
`parse_number.cc`; **`Escape`** those of `escape.cc`, on bytes. **`HttpTexts`**
grows texts of several kinds word by word, so that each text of up to a bounded
number of words is a state. **`ResponseHeaders`** models the text
`raw_headers_` and the vector `parsed_`; **`HeaderEdits`** any sequence of the
operations that change them, and **`HeaderList`** the abstract list of lines
they implement. **`CacheEntry`** drives the freshness functions as a cache does:
time passes, and 304 responses update the entry. Headers hold seconds, the code
microseconds in an `int64_t` whose arithmetic is not checked (`QuicTime::Delta`,
external): `Wrap` is where a value that does not fit ends up. **`RequestHeaders`** is the
ordered list of `http_request_headers.cc`; **`RangeSpec`** and **`ByteRange`**
are `http_byte_range.cc`; **`Widths`** holds the largest `int64_t`.

**`Server`** and **`Http`** compose what shares no state: `Stack`, `Dispatcher`,
`Identity` and `ServerConfig` in the one, the classes and functions on headers
and texts in the other. The properties of the runs `server` and `http` are
stated there. `*Proofs` hold the proofs, `MC*` the instances for TLC.

## Runs

| Run | Module | Shows |
|---|---|---|
| `alarm_queue` | `MCAlarmQueue` | consistency of map, tokens and registration; valid iterator; complete rounds; clean shutdown; refinement of `AlarmService` |
| `alarm_loop` | `MCAlarmLoop` | the truncated wake-up time is never too late, and every alarm left alone fires |
| `body_buffer` | `MCBodyBuffer` | the buffer is a bounded queue with truthful answers; refinement of `BodyQueue` |
| `stream` | `MCServerStream` | over HTTP/3 and gQUIC: order of callbacks (of a request that was not announced only a stray body and end, through an unset `qsi_`), whole announcements, kept wake-ups, final rejections; over HTTP/3 parsed requests and one response (`Http3Sound`); a complete request that names a host is answered |
| `server` | `MCServer` | request ids reach their stream or none (`RightStream`) and the stack implements `RequestTable`, whose requests all end (`ImplementsTable`, `Ends`); refused writes are listed, watched for and sent; hellos get their session; the newest certificate that covers a host is used and identities stay; workers understand each other's configs |
| `parser` | `MCHttpParser` | cutting and pausing change nothing; the C assertions hold; callbacks form messages with the method and body that were written; feeding ends |
| `http` | `MCHttp` | byte ranges stay in the resource; header edits implement `HeaderList`; a cached response is used within its promise (but for a `max-age` that wraps around) and only gets older; texts are read back as written (request header values and numbers but for spaces around or behind them), a second pass changes nothing, lists mean their parts |
| `alarm_refire` | `MCAlarmQueue` | *violated*: an alarm set by a delegate to a time that has passed fires in the same round, against the comment at `tQuicAlarmFactory.cc:69` |
| `stream_no_host` | `MCServerStream` | *violated*: a request without `:authority` is neither announced nor answered |
| `stream_twice` | `MCServerStream` | *violated* (gQUIC): two responses to one request |
| `stream_fresh` | `MCServerStream` | *violated*: `OnRequestClose` without `OnRequestHeader` (`AnnouncedFirst`) when `qsi_` is not null by chance |
| `range_header` | `HttpTexts` | *violated*: `ParseRangeHeader` does not read what `GetHeaderValue` writes |

A violated property states a comment of the code or of the API header; the
findings in `PROJECT.json` quote it. Each property of a passing run has a mutant
there: a definition changed as a plausible bug would change it, under which TLC
finds the property violated.

**One part at a time.** `Server` and `Http` hold several components that
share no state, and a behaviour exercises one of them, chosen at its start, while
the others rest in an initial state. Interleaving them would multiply the states
and show nothing new: each component already lets its neighbours do whatever they
can do to it (a connection may close at any moment in `Stack`, packets and the
socket come at any moment in `Dispatcher`). Where components do act on each
other they are one module: delegates and the queue, the application and the
stream, the server and the alarms. A resting part has no action that fairness
asks for: no session is open and no writer is installed. `Server` exercises
`Stack` twice: with connection ids that come back and an application that drops
an id when told of its end (`part = "requests"`), and with one that uses ids
late and connection ids that are not reused (`"late"`). Both together are left
out: a late id would then name another client's request, and nothing in the stack
can tell.

**Bounds.**

* Alarms: three alarms (one firing, one before and one behind it), four nodes
  (one more than alarms, because the firing entry stays in the map while its
  alarm is set again), three times, granularity 1; symmetry over alarms and
  nodes, without liveness. `AlarmLoop`: two alarms, two microseconds to the
  millisecond, so that deadlines fall on and between milliseconds; a clock of six
  microseconds, which gets a millisecond past every deadline.
* Buffer: limit 4, bodies up to 6 bytes, reads up to 3: reads end within, at and
  behind a string, and appends are refused.
* Stream: buffer limit 3, bodies up to 4, content-length missing, 0 or 2, writes
  and limits up to 2, two callbacks, so that a body falls short of, meets and
  exceeds what was announced and the buffer overflows.
* Server: two connections of two streams and two requests, the second of which
  may get the ids of the first; three connections at the socket; three additions
  of certificates out of four good files and four that fail each in its way; two
  workers and four starts on four host names, two of one cluster.
* Parser: pipelined messages of every framing (length, chunks with extensions and
  trailers, until the end, none), upgrades, folded headers and one input per
  error. `ULLONG_MAX` is 255, and the header limit is 28 bytes in one instance,
  so that both overflow. Calls of 1, 2, 7 or all remaining bytes mix freely;
  the first callback of a call may pause or fail. Methods: any two method names crossed
  over at any of the first five places. The model was compared with the compiled
  `http_parser.c` on 400 inputs: callbacks, errors and positions were the same,
  except where the scaled `ULLONG_MAX` decides.
* Texts: up to three or four words behind beginnings that lead into the
  interesting states; the words are the delimiters of the grammar, letters and
  digits. Edits: two operations on four responses. Request headers: values empty
  or with a colon inside and white space around. Cache: pairs of eight header
  lines and five responses more, two microseconds to the second, a clock of six
  microseconds, delays up to one; with an 8-bit `int64_t` a `max-age` of 999 or
  -65 wraps, and so does the sum of a `max-age` and 63 seconds of staleness. Byte
  ranges: all values of a 4-bit `int64_t`; elsewhere 8 bits, since numbers there
  are texts.
* A text holds printable 7-bit characters; the byte 0 stands as `\f`. `Escape`
  works on bytes. Values in header edits have balanced quotes.

**Fairness.** `LoopSpec`: time passes, the server calls when its timer is due,
delegates return and the loop of `CallTimeoutAlarms` goes on; no fairness on
uses of alarms. Delegates there set times to come, as `alarm_refire` shows what
happens otherwise. `FairSpec` of the stream: the stream's own code runs on,
callbacks return, and an application told of a request completes its response;
nothing is assumed of the client. `ServerSpec`: a connection closes some time,
by quiche's idle timeout at the latest; the event loop turns, so that hellos are
let in and a watched socket is served (strong fairness, as both calls wait for
other handlers to return), and a socket that is offered a packet again and again
takes it some time. The parser: its caller feeds and resumes. Deadlock is
checked for the alarms and the buffer; the other systems really may stop (a
closed stream, a text at its bound).

## Proofs

All theorems hold for every value of the constants. An invariant `IInv` is
proved inductive action by action, then the properties follow from it.

*Alarm queue* (`AlarmQueueProofs`). `IInv` adds to the checked properties that
the map is ordered by key (`MapOrdered`), the shape of a round (`RoundShape`:
nothing is ever skipped, no iterator between rounds) and that owed alarms lie at
the iterator or behind it (`OwedAhead`). The last is what makes `RoundComplete`
inductive: the loop leaves at an entry with a later key, and by the order nothing
owed lies behind it. Also `QueueImplementsService`, step by step.

*Body buffer* (`BodyBufferProofs`). `IInv` adds that no string reaches beyond the
bytes accepted (`PendingAccepted`), which bounds a read without induction over
the deque. Also `BufferImplementsQueue`.

*The server's loop* (`AlarmQueueProofs`, last part): `LoopDrivesQueue`, each step
of `AlarmLoop` is a step of the queue, and `WakesUpInTime`. The invariant adds
that no key lies in the first millisecond: a deadline there would be answered
with 0, which means that no alarm is set. The first entry of the map exists
because the entries are finite (`AlarmLoopAssumption`).

*Request stream* (`ServerStreamProofs`), for any limits and application, over
both transports, whatever a fresh `qsi_` holds: callbacks in order, announcements
whole, HTTP/3 sound, wake-ups kept, rejections final, types kept. `OrderInv`, `WholeInv` and `Http3Inv` tie the
position in the code to what was announced, what the buffer accounts for and
which side is closed; each is stronger than its property because the callbacks
are states in between. `OrderInv` says that `qsi_` is set exactly when the request
was announced, and that anything called without that was called through garbage.

*Request ids* (`StackProofs`): `CallsReachTheirStream`, `EndToldOnce` and
`StackImplementsTable` (initial states and steps, that is, `Spec` implements the
table's `Spec`). `IInv` says that live streams belong to live sessions and have
one id (`StreamsLive`), that the application's requests are announced streams
under their own ids (`AppFollows`), that an id the application still holds after
its end names that request or nothing (`LateFindsItself`), and that a stream that
has reported its end has cleared `is_new_ok_` (`ToldOnce`). Hypothesis
`LateIdsAreUsedUp`: not both late calls and connection ids that come back.

*Around the requests* (`ServerProofs`), for any connections, names, files, workers
and restarts:

* `NoWakeUpIsLost` and `ServerStaysTyped`. The invariant of the dispatcher adds
  that the callback is set before anything is written (`CallbackFirst`), that a
  connection being served is not listed at the same time (`ServedOnce`), and that
  while one is listed the writer refuses everybody (`ListedMeansFull`), so that
  none sends behind the back of the list.
* `CertificatesStay`. The invariant `MapFollows` says that `certificate_map_` has,
  for each name in a certificate of `certificates_`, the foremost such certificate
  and no other names. A wildcard that covers a host is the one name that
  `GetCertificate` looks up, because both cut the host at its first dot. An
  addition never moves a host from one identity to another: the first matching
  position stays the first.
* `ConfigsAreUnderstood`, from the invariant `FromStart`: every config, kept by a
  client or running, was made by some start.
* `ServerIsSafe`: the composed specification has all these properties at once.
  Every step of `Server` is a step or a stutter of each part; the requests are
  those of `Stack` or of `Late`, its instance with late calls, and the invariant
  keeps which of the two (`RequestsInv`).

Assumptions (`ServerAssumption`): finitely many connections; names are sequences
of characters; `~P256` (an option the stack never sets; its key would be random
and not named by the SCID); no prefix of a host name is the text of a config.
The requests need `LateIdsAreUsedUp` again.

*Stored responses* (`HttpProofs`): `TimeNeverRefreshes` and
`FreshWhileUsed`, for any responses, 304 updates and delays. Hypothesis
`TimesFit`: the largest `Age` and the time that passes add up to less than 2^63
microseconds; lifetimes may wrap. No header is read as
a date, so the lifetimes depend on the headers only and the age is the value of
`Age` and the time since the request; the invariant `EntryInv` orders the times
of request, response and present and ties the verdict to them. Second hypothesis
`[]TypeOK`: what is read from `max-age`, `stale-while-revalidate` and `Age` is a
number of its type. That is a fact about reading digits out of any text, so it
is only model-checked (in `CacheHonest`).

*Request headers* (`RequestProofs`): `NamesStayDistinct`. The invariant
`HeadersInv` says that the vector is one of pairs with distinct names; `MergeFrom`
and `AddHeadersFromString` are recursive functions, whose existence and values
come from the lemmas `RecursionWorks` and `StepsStayIn`, themselves from the
well-foundedness of the naturals. Hypothesis `Readable`: texts have a
number of lines.

*Byte ranges* (`HttpProofs`): bounds stay within the resource, for any word
width.

*HTTP/1 parser* (`ParserProofs`): `AssertionsNeverFail`, `ParserSafe` and
`NothingTakenBack`, for any texts, calls of any sizes, any limit on the header
bytes, any width of `content_length` from 16 up, and callbacks that pause, fail
or ask for an upgrade at any point. The asserts rely on what earlier bytes, often
of an earlier call, have set: that `F_CHUNKED` is set in the states of a chunk,
that a body is entered with a length that is neither 0 nor `ULLONG_MAX` (the
overflow test at each digit keeps the reserved value out), that a name or value is
matched in a `header_state` the switch has a case for, that `nread` is 1 at a
chunk size, and that at most one mark is set. `Known` says this of the parser's
fields for each state, `Marked` of the marks; `In` and `Out` hold before and
after a byte. There is a lemma per case of the switch, `StepFine` puts them
together, `LoopFine` shows that the loop over the bytes keeps them and ends the
call within its bytes. The invariant `ParserInv` adds what is left between calls
(`Ready`), which must also hold of a paused parser, since it goes on, but not of
one that failed. Assumptions: `ULLONG_MAX` is at least 16; limits and sizes of
calls are numbers (`CallersAssumption`); decimal and hexadecimal digits have
their values (`DigitAssumption`); a text has a length and its parts the length
they were cut to (`InputAssumption`). TLC evaluates them on the instance; that
strings are sequences of characters is not known to the prover.

*Only model-checked.* Liveness, which is out of the prover's reach:
`SetAlarmFires`, `NamedRequestAnswered`, `Ends`, `NobodyWaits`, `Terminates`. What
recursive definitions compute for every input, which needs induction over texts:
the parser's `SplitInvariance`, `PauseTransparency` and `ReportedAsWritten`,
`TextsReadBack` (but for the distinct names), `ReadAsWritten`, `SecondTimeSame`,
`ListsMeanTheirParts`, the header list refinement `ImplementsList`, and of
`CacheHonest` the types and the max-age as it is written.

## Disagreements seen that have no run

Found while translating; the models follow the code.

* `http_parser.c:2504` says a CONNECT target can only contain `hostname:port`; the
  test below looks at the fields found, and an empty query (`a:1?`) is none.
* `http_parser.c:143` bounds the size of the headers, but a call that ends in a
  paused callback (`:93`, `:120`) returns without storing `nread`, so the bytes of
  that call are not counted. `PauseTransparency` leaves the count out.
* `http_parser.h:316` says that `upgrade` means the parser has exited; it is set
  before `on_headers_complete` (`http_parser.c:1826`) and stays set while a body
  is read.
* `http_parser.c:1589`, `:1624` "Skip lws": the character was lower-cased before,
  which turns a tab into `)`, so only spaces are skipped.
* `tQuicProofSource.hh:67` promises a default certificate; it is `front()` of a
  list that may be empty (`tQuicProofSource.cc:169`), because a failure to add is
  ignored (`tQuicStack.cc:67`). A key that could not be loaded is dereferenced
  (`tQuicProofSource.cc:61`).
* `tQuicServerStream.cc:374`, `:482`: trailers an application passes are not sent.
* `quic_stack_api.h:65`: over gQUIC, rejected headers with FIN are announced
  although not parsed (`tQuicServerStream.cc:223`); the cause of `stream_twice`.
* `http_byte_range.h:50` says a failure has no side effect; `has_computed_bounds_`
  is set before the range is looked at (`http_byte_range.cc:72`), so a later call
  with a size that fits fails too.
* `parse_number.h:33` says only digits are accepted; white space behind them is
  too (`absl::SimpleAtoi`, `parse_number.cc:27`), and a number out of range with
  white space behind it is a parse error, not an overflow. `NumbersExact` states
  this.
* `http_request_headers.cc:151` trims a value that is read from text; `SetHeader`
  does not, so white space around a value is lost on the way through `ToString`.
* `http_response_headers.cc:578` multiplies the seconds of a directive without a
  test. A `max-age` of more than 2^63 microseconds (some 292 000 years) wraps,
  one as far below zero to a long lifetime; `WithinMaxAge` excepts it.
* `http_util.hh:56`: Content-Range values are refused for the same reason as in
  `range_header` (`http_util.cc:293`).
* `http_response_headers.cc:769` computes a lifetime from `Expires`;
  `GetTimeValuedHeader` always fails (`:988`), so no date has any effect.
* `escape.h:38` lists `!` among the escaped characters; the map leaves it
  (`escape.cc:121`).
* URL fields are `uint16_t`: offsets wrap for URLs of 2^16 bytes and more. The
  model computes modulo `U16`; the runs use texts shorter than it.

## Not modelled

* `http_response_headers.cc`: `GetStatusText`, `IsRedirect`, `IsKeepAlive`,
  `IsChunkEncoded`, `GetContentLength`, `GetContentRangeFor206`,
  `GetMimeTypeAndCharset`: readers of one header, no state. The sets of headers
  that a cache leaves out (`AddNonCacheableHeaders` and the like): private, and
  never called since `Persist` is commented out.
* `http_util.cc`: `ParseRetryAfterHeader` (dates), `IsMethodSafe` and
  `IsSafeHeader` (lists of constants), histograms, `AdvanceTo`.
* `escape.cc`: `EscapeNSURLPrecursor`, `EscapeNonASCII` (further instances of
  `Escape`), the `Unescape*` wrappers of googleurl.
* `net/cert/*` and `tQuicPacketWriter.cc`: not in the build. `tQuicClock.cc`, the
  crypto stream and the connection helper: accessors without state.
  `quic_stack_supported_versions` and the C functions that only forward.
* The tables of names of `http_parser.c`. The parser is in the build
  (`CMakeLists.txt:39`) but the stack does not call it: it is modelled on its own.
* Signing and key generation (BoringSSL), flow control and loss recovery
  (quiche), and a call of `quic_stack_on_alarm_timeout` from within a delegate.
