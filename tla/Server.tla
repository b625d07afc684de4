-------------------------------- MODULE Server --------------------------------
(***************************************************************************)
(* The parts of a server around its requests: the ids of requests (Stack), *)
(* the connections and their writing (Dispatcher), the certificates        *)
(* (Identity) and the config of a worker (ServerConfig).  Each of these    *)
(* modules already lets its neighbours do whatever they can do to it, so a *)
(* behaviour exercises one of them and leaves the others in their initial  *)
(* state; interleaving them would multiply the states and add nothing to   *)
(* what each can see.                                                      *)
(***************************************************************************)
EXTENDS Stack, Sequences, FiniteSets

CONSTANTS
  Peers, ErrorCodes, MaxRst,                       \* of Dispatcher, whose Cids are Peers
  Names, Hosts, Files, MaxAdds,                    \* of Identity
  Workers, HostNames, NoName, P256, MaxStarts      \* of ServerConfig

VARIABLES
  part,                                                                   \* what this behaviour exercises
  writer, callback, conn, allowed, unsent, blocked, serving, full, armed, rst,  \* of Dispatcher, whose session is conn
  servers, certificates, certificate_map, adds, crashed,                  \* of Identity
  running, host, starts, cached                                           \* of ServerConfig

\* Stack as the constants of this module say is an application that drops an id
\* when told of its end, on connections whose ids come back.  Late is one that
\* uses ids after their end; connection ids are then used once.
Late == INSTANCE Stack WITH CidsComeBack <- FALSE, LateCalls <- TRUE
D == INSTANCE Dispatcher WITH Cids <- Peers, session <- conn
I == INSTANCE Identity
W == INSTANCE ServerConfig

\* Connections are finite in number, and names are texts.  The stack leaves the
\* option p256 off.  No prefix of a host name reads like a serialized config, so
\* that digests of the one and of the other differ.
ASSUME ServerAssumption ==
  /\ IsFiniteSet(Peers) /\ MaxRst \in Nat
  /\ Hosts \subseteq Seq(STRING) /\ \A f \in Files : f.sans \subseteq Seq(STRING)
  /\ ~P256
  /\ \A n \in HostNames : W!Prefix(n) = <<>> \/ W!Prefix(n)[1] # "SCFG"

connVars == <<writer, callback, conn, allowed, unsent, blocked, serving, full, armed, rst>>
certVars == <<servers, certificates, certificate_map, adds, crashed>>
configVars == <<running, host, starts, cached>>
allVars == <<vars, part, connVars, certVars, configVars>>

ServerInit ==
  /\ part \in {"requests", "late", "connections", "certificates", "config"}
  /\ Init /\ D!Init /\ I!Init /\ W!Init
  /\ part # "config" => host = [w \in Workers |-> NoName]

ServerNext ==
  /\ UNCHANGED part
  /\ \/ part = "requests" /\ Next /\ UNCHANGED <<connVars, certVars, configVars>>
     \/ part = "late" /\ Late!Next /\ UNCHANGED <<connVars, certVars, configVars>>
     \/ part = "connections" /\ D!Next /\ UNCHANGED <<vars, certVars, configVars>>
     \/ part = "certificates" /\ I!Next /\ UNCHANGED <<vars, connVars, configVars>>
     \/ part = "config" /\ W!Next /\ UNCHANGED <<vars, connVars, certVars>>

ServerSpec ==
  /\ ServerInit /\ [][ServerNext]_allVars
  /\ \A c \in Cids : WF_vars(ConnectionCloses(c))
  /\ D!Fairness

\* What a refused write leaves behind (OnWriteBlocked and OnCanWrite): the
\* connection is listed, or about to be served, and the application watches the
\* socket for every listed connection.
NoLostWakeUp == D!NoLostWakeUp

\* The sessions allowed in a turn of the event loop are never overdrawn, and the
\* variables of the stack and the dispatcher have their types.
ServerTyped == TypeOK /\ D!TypeOK

\* Nobody waits for ever: packets the socket refused get sent, or their
\* connection ends (OnCanWrite), and a client hello that is kept back gets its
\* session (ProcessBufferedChlos).
NobodyWaits == D!RefusedIsSent /\ D!HelloServed

\* GetCertificate: a client gets the newest certificate that names its host, and
\* else the newest with a wildcard for it; and AddServerIdentify never hands a
\* host from one identity to another.
CertificatesKept == []I!NewestThatCovers /\ I!IdentityStable

\* GenerateConfigProtobuf and InitializeConfigOptions: the workers of a cluster
\* have one config, and a worker that recognizes the SCID of a client's config
\* has the private keys to it, across workers and restarts.
ConfigsUnderstood == W!ScidMeansConfig /\ W!ClusterShares
===============================================================================
