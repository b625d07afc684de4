-------------------------------- MODULE Http --------------------------------
(* The classes and functions of http_parser/ and net/base: byte ranges,        *)
(* response headers under edits, a cached response, request headers, and texts *)
(* of several kinds.  They share no state, so a behaviour exercises one of     *)
(* them, named by kind, and leaves the others as they are.                     *)
EXTENDS ByteRange, Sequences

CONSTANTS
  LONG_MAX, INT_MAX, UINT32_MAX,     \* widths; LONG_MAX is INT64_MAX for all but byte ranges
  TextKinds,                         \* of HttpTexts
  Received, Names, Values, StatusLines, NewHeaders, NewRanges, MaxOps,  \* of HeaderEdits
  Responses, NotModified, Second, MaxTime, MaxDelay,                    \* of CacheEntry
  Keys, KeyValues, Blocks, Others, MaxHeaders                           \* of RequestHeaders

VARIABLES kind,
          text, words,                                       \* of HttpTexts
          headers, ops,                                      \* of HeaderEdits
          entry, request_time, response_time, now, verdict,  \* of CacheEntry, whose headers are entry
          headers_                                           \* of RequestHeaders

T == INSTANCE HttpTexts WITH INT64_MAX <- LONG_MAX, Chosen <- TextKinds
H == INSTANCE HeaderEdits WITH INT64_MAX <- LONG_MAX, Inputs <- Received, Ranges <- NewRanges
C == INSTANCE CacheEntry WITH INT64_MAX <- LONG_MAX, headers <- entry
R == INSTANCE RequestHeaders WITH INT64_MAX <- LONG_MAX, Values <- KeyValues

ASSUME HttpAssumption == R!Readable /\ C!TimesFit

textVars == <<text, words>>
editVars == <<headers, ops>>
cacheVars == <<entry, request_time, response_time, now, verdict>>
allVars == <<kind, vars, textVars, editVars, cacheVars, headers_>>

HttpInit ==
  /\ kind \in TextKinds \cup {"range", "edits", "cache", "request"}
  /\ IF kind \in TextKinds THEN T!Init ELSE text = "" /\ words = 0
  /\ IF kind = "edits" THEN H!Init ELSE headers = H!Parse("HTTP/1.1 200\n\n") /\ ops = 0
  /\ IF kind = "cache" THEN C!CacheInit
     ELSE entry = headers /\ request_time = 0 /\ response_time = 0 /\ now = 0 /\ verdict = "SYNCHRONOUS"
  /\ R!Init /\ Init
  /\ kind # "range" => range = HttpByteRange

HttpNext ==
  \/ kind \in TextKinds /\ T!AppendWord /\ UNCHANGED <<vars, editVars, cacheVars, headers_>>
  \/ kind = "range" /\ Next /\ UNCHANGED <<kind, textVars, editVars, cacheVars, headers_>>
  \/ kind = "edits" /\ H!Next /\ UNCHANGED <<kind, vars, textVars, cacheVars, headers_>>
  \/ kind = "cache" /\ C!CacheNext /\ UNCHANGED <<kind, vars, textVars, editVars, headers_>>
  \/ kind = "request" /\ R!Next /\ UNCHANGED <<kind, vars, textVars, editVars, cacheVars>>

HttpSpec == HttpInit /\ [][HttpNext]_allVars

---------------------------------------------------------------------------
(* HttpResponseHeaders: an edit acts on the list of header lines as HeaderList *)
(* says, and keeps every other line, its spelling, its place and the status.   *)
ImplementsList == H!ImplementsList

(* RequiresValidation: a cached response is used without asking the server     *)
(* only within what its headers promise, also after 304 responses, unless its  *)
(* max-age is so large, or so far below zero, that it wraps in FromSeconds.    *)
CacheHonest == kind = "cache" => C!TypeOK /\ C!UsedWhileFresh /\ C!WithinMaxAge

(* RequiresValidation: time alone never makes a cached response fresher.       *)
NeverFresher == C!NeverFresher

(* What one function writes, the function that reads it reads back: quoted     *)
(* pairs, percent escapes and HTML whatever characters the values hold, and    *)
(* without the spaces around them quoted parameters and the values of request  *)
(* headers, which have one value to a name.                                    *)
TextsReadBack ==
  /\ T!QuotedPairsSurvive /\ T!QuotedParamsSurvive
  /\ R!OneValuePerName /\ R!TextReadsBack
  /\ T!EscapesUndone /\ T!HtmlUndone

(* A text is read as its delimiters and digits say, or refused: the fields and *)
(* the port of a URL (of fewer than 2^16 bytes), the end of a header block, a  *)
(* number (whose value ParseIntHelper takes without the spaces behind it).     *)
ReadAsWritten == T!FieldsAsDelimited /\ T!PortAsWritten /\ T!EndOfHeaders /\ T!NumbersExact

(* Doing it again changes nothing: parsing the text of response headers after  *)
(* any edits, assembling header lines that were assembled, escaping a value    *)
(* for an external handler.                                                    *)
SecondTimeSame == (kind = "edits" => H!Settled) /\ T!LinesSettle /\ T!HandlerStable

(* A list means what its parts mean, one by one: the values of a header that   *)
(* EnumerateHeader visits, Content-Type headers, accepted encodings, languages. *)
ListsMeanTheirParts ==
  /\ kind = "edits" => H!EnumerationAgrees
  /\ T!CharsetOfType /\ T!EncodingsUnion /\ T!LanguagesExpanded
=============================================================================
