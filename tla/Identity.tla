------------------------------- MODULE Identity -------------------------------
(***************************************************************************)
(* The hosts a server answers for (tQuicServerIdentifyManager of           *)
(* src/tQuicServerStream.cc) and their certificates                        *)
(* (src/tQuicProofSource.cc), filled by quic_stack_add_certificate.        *)
(*                                                                         *)
(* Names and patterns are sequences of characters.  A pair of files is     *)
(* what comes of reading them: the names in the leaf certificate and how   *)
(* the private key turned out.                                             *)
(***************************************************************************)
EXTENDS Naturals, Sequences

CONSTANTS
  Names,     \* hostnames and patterns the application configures
  Hosts,     \* hostnames that clients ask for
  Files,     \* [sans: sets of names, state: see FileStates]
  MaxAdds    \* bound on the calls of quic_stack_add_certificate

FileStates == {"good", "unreadable", "invalid", "mismatch", "no key"}

VARIABLES
  servers,          \* servers_: a sequence of [name, ctx]
  certificates,     \* certificates_, the newest first: [sans, ctx]
  certificate_map,  \* certificate_map_: name -> certificate
  adds,             \* the number of calls
  crashed           \* a null pointer was dereferenced

vars == <<servers, certificates, certificate_map, adds, crashed>>

None == [name |-> <<>>, ctx |-> 0]

StarAt(p) == {i \in 1..Len(p) : p[i] = "*"}

\* gurl_base::MatchPattern for a pattern with at most one star.
MatchPattern(name, pattern) ==
  IF StarAt(pattern) = {} THEN name = pattern
  ELSE LET i == CHOOSE j \in StarAt(pattern) : TRUE
           rest == Len(pattern) - i
       IN  /\ Len(name) >= i - 1 + rest
           /\ SubSeq(name, 1, i - 1) = SubSeq(pattern, 1, i - 1)
           /\ SubSeq(name, Len(name) - rest + 1, Len(name)) = SubSeq(pattern, i + 1, Len(pattern))

GetServerIdentifyByName(name) ==
  LET matching == {i \in DOMAIN servers : MatchPattern(name, servers[i].name)}
  IN  IF matching = {} THEN None
      ELSE servers[CHOOSE i \in matching : \A j \in matching : i <= j]

\* Mutant: the newest identity is found first.
AddServerIdentify_Front(qsi) ==
  servers' = IF GetServerIdentifyByName(qsi.name) # None THEN servers ELSE <<qsi>> \o servers

\* Refused, with a warning nobody reads, when the name is answered for already.
AddServerIdentify(qsi) ==
  servers' = IF GetServerIdentifyByName(qsi.name) # None THEN servers ELSE Append(servers, qsi)

\* Mutant: insert does not replace.
AddCertificateChain_Insert(file, ctx) ==
  LET certificate == [sans |-> file.sans, ctx |-> ctx]
  IN  IF file.state # "good" THEN UNCHANGED <<certificates, certificate_map>>
      ELSE /\ certificates' = <<certificate>> \o certificates
           /\ certificate_map' = [n \in DOMAIN certificate_map \cup file.sans |->
                IF n \in DOMAIN certificate_map THEN certificate_map[n] ELSE certificate]

\* A chain that is empty or does not parse, or a key that does not match, is
\* refused; a good one overrides what had its names.
AddCertificateChain(file, ctx) ==
  LET certificate == [sans |-> file.sans, ctx |-> ctx]
  IN  IF file.state # "good" THEN UNCHANGED <<certificates, certificate_map>>
      ELSE /\ certificates' = <<certificate>> \o certificates
           /\ certificate_map' = [n \in DOMAIN certificate_map \cup file.sans |->
                IF n \in file.sans THEN certificate ELSE certificate_map[n]]

\* A key file without a private key: the null pointer is dereferenced.
AddCertificateChainFromPath(file, ctx) ==
  /\ crashed' = (file.state = "no key")
  /\ AddCertificateChain(file, ctx)

\* quic_stack_add_certificate, AddCertificate: the identity is added whatever
\* became of the certificate.
AddCertificate(name, file) ==
  /\ ~crashed /\ adds < MaxAdds
  /\ adds' = adds + 1
  /\ AddCertificateChainFromPath(file, adds + 1)
  /\ IF file.state = "no key" THEN UNCHANGED servers
     ELSE AddServerIdentify([name |-> name, ctx |-> adds + 1])

DotAt(host) == {i \in 1..Len(host) : host[i] = "."}

\* "*" and what follows the first label.
Wildcard(host) ==
  <<"*">> \o SubSeq(host, CHOOSE i \in DotAt(host) : \A j \in DotAt(host) : i <= j, Len(host))

\* certificates_.front() of an empty list is no certificate at all.
Undefined == [sans |-> {}, ctx |-> 0]

GetCertificate(host) ==
  CASE host \in DOMAIN certificate_map -> certificate_map[host]
    [] /\ host \notin DOMAIN certificate_map
       /\ DotAt(host) # {} /\ Wildcard(host) \in DOMAIN certificate_map ->
         certificate_map[Wildcard(host)]
    [] OTHER -> IF certificates = <<>> THEN Undefined ELSE certificates[1]

Init ==
  /\ servers = <<>> /\ certificates = <<>>
  /\ certificate_map = [n \in {} |-> Undefined]
  /\ adds = 0 /\ crashed = FALSE

Next == \E name \in Names, file \in Files : AddCertificate(name, file)

Spec == Init /\ [][Next]_vars

\* A host is never handed from one server to another by a later call: of the
\* identities that match it the first stays the first.
IdentityStable ==
  [][\A h \in Hosts : GetServerIdentifyByName(h) # None =>
       GetServerIdentifyByName(h)' = GetServerIdentifyByName(h)]_vars

\* What a wildcard of a certificate stands for: one label.
Covers(san, host) ==
  \/ san = host
  \/ /\ san # <<>> /\ san[1] = "*"
     /\ \E i \in DotAt(host) :
          /\ SubSeq(host, i, Len(host)) = SubSeq(san, 2, Len(san))
          /\ \A j \in 1..(i - 1) : host[j] # "."

Naming(host) == {i \in DOMAIN certificates : host \in certificates[i].sans}
Covering(host) ==
  {i \in DOMAIN certificates : \E san \in certificates[i].sans : Covers(san, host)}
Newest(is) == certificates[CHOOSE i \in is : \A j \in is : i <= j]

\* A client gets the newest certificate that names its host, and else the
\* newest with a wildcard for it: never one for other hosts while there is one.
NewestThatCovers ==
  \A h \in Hosts :
    /\ Naming(h) # {} => GetCertificate(h) = Newest(Naming(h))
    /\ Naming(h) = {} /\ Covering(h) # {} => GetCertificate(h) = Newest(Covering(h))

===============================================================================
