----------------------------- MODULE ServerConfig -----------------------------
(***************************************************************************)
(* The server config a stack signs at its start (InitializeConfigOptions   *)
(* and GenerateConfigProtobuf of src/tQuicStack.cc).                       *)
(*                                                                         *)
(* A client keeps the config of a server, and names it by its SCID in the  *)
(* 0-RTT hello of its next connection, which may reach another worker or a *)
(* restarted one.  The config is therefore derived from the part of the    *)
(* host name the machines of a cluster share.  A digest is a term: equal   *)
(* for equal inputs and for no others.                                     *)
(***************************************************************************)
EXTENDS Naturals, Sequences

CONSTANTS
  Workers,
  HostNames,   \* sequences of labels: those but the last are the prefix
  NoName,      \* gethostname fails
  P256,        \* options.p256
  MaxStarts    \* bound on the starts of workers

VARIABLES
  running,     \* [Workers -> the config of the stack, or Off]
  host,        \* [Workers -> the host name]
  starts,      \* the number of starts: the seed of what is random
  cached       \* configs that clients keep

vars == <<running, host, starts, cached>>

Off == <<>>
SHA256(x) == <<"sha256", x>>
Serialized(msg) == <<"SCFG", msg.PUBS, msg.EXPY, msg.ORBT>>
Truncated(n, digest) == <<n, digest>>
Random(what, seed) == <<what, seed>>
scfgExpiryTime == <<"scfgExpiryTime">>

\* substr up to the last dash: empty when there is none.
Prefix(name) == SubSeq(name, 1, Len(name) - 1)

\* Mutant: the whole host name counts.
InitializeConfigOptions_Whole(name) ==
  IF name = NoName \/ Prefix(name) = <<>>
  THEN [id |-> <<>>, orbit |-> <<>>, expiry_time |-> <<>>]
  ELSE [id |-> Truncated(16, SHA256(name)), orbit |-> Truncated(8, SHA256(name)),
        expiry_time |-> scfgExpiryTime]

\* Without a host name or a prefix the options keep their defaults.
InitializeConfigOptions(name) ==
  IF name = NoName \/ Prefix(name) = <<>>
  THEN [id |-> <<>>, orbit |-> <<>>, expiry_time |-> <<>>]
  ELSE [id |-> Truncated(16, SHA256(Prefix(name))),
        orbit |-> Truncated(8, SHA256(Prefix(name))),
        expiry_time |-> scfgExpiryTime]

\* Mutant: the private key is always a new one.
PrivateKey_Random(options, seed) == Random("C255", seed)

PrivateKey(options, seed) ==
  IF options.id = <<>> THEN Random("C255", seed) ELSE SHA256(options.id)

\* "We need to ensure that the SCID changes whenever the server config does
\* thus we make it a hash of the rest of the server config."
Scid(options, msg) ==
  IF options.id = <<>> THEN Truncated(16, SHA256(Serialized(msg))) ELSE options.id

\* A public value is a function of its private key.
GenerateConfigProtobuf(options, seed) ==
  LET keys == <<PrivateKey(options, seed)>> \o IF P256 THEN <<Random("P256", seed)>> ELSE <<>>
      msg == [PUBS |-> keys,
              EXPY |-> IF options.expiry_time = <<>> THEN Random("now + 180 days", seed)
                       ELSE options.expiry_time,
              ORBT |-> IF options.orbit = <<>> THEN Random("ORBT", seed) ELSE options.orbit]
  IN  [scid |-> Scid(options, msg), msg |-> msg, key |-> keys]

\* Initialize: every stack of a worker process makes its config anew.
Start(w) ==
  /\ running[w] = Off /\ starts < MaxStarts
  /\ starts' = starts + 1
  /\ running' = [running EXCEPT
                   ![w] = GenerateConfigProtobuf(InitializeConfigOptions(host[w]), starts + 1)]
  /\ UNCHANGED <<host, cached>>

Crash(w) ==
  /\ running[w] # Off
  /\ running' = [running EXCEPT ![w] = Off]
  /\ UNCHANGED <<host, starts, cached>>

\* A full handshake hands the client the config.
Handshake(w) ==
  /\ running[w] # Off
  /\ cached' = cached \cup {[scid |-> running[w].scid, msg |-> running[w].msg]}
  /\ UNCHANGED <<running, host, starts>>

Init ==
  /\ running = [w \in Workers |-> Off]
  /\ host \in [Workers -> HostNames \cup {NoName}]
  /\ starts = 0
  /\ cached = {}

Next == \E w \in Workers : Start(w) \/ Crash(w) \/ Handshake(w)

Spec == Init /\ [][Next]_vars

\* A worker that recognizes the SCID of a client's config has the private keys
\* to the public values in it: it was that config or one like it, whichever
\* worker made it and however often workers were restarted since.
ScidMeansConfig ==
  \A w \in Workers, c \in cached :
    running[w] # Off /\ running[w].scid = c.scid =>
      running[w].key = c.msg.PUBS /\ running[w].msg = c.msg

\* The workers of a cluster, before and after a restart, have one config.
ClusterShares ==
  \A v, w \in Workers :
    /\ running[v] # Off /\ running[w] # Off
    /\ host[v] # NoName /\ host[w] # NoName
    /\ Prefix(host[v]) = Prefix(host[w]) /\ Prefix(host[v]) # <<>>
    => running[v] = running[w]

===============================================================================
