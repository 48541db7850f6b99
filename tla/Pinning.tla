------------------------------- MODULE Pinning -------------------------------
(***************************************************************************)
(* How a client recognises its master: by the pinned fingerprint of the    *)
(* Root CA, by the Root CA on its disk, or by both.  Masters of this and   *)
(* of another network come and go on the hosts, an announcement moves the  *)
(* client to a promoted one, and the operator edits the client's           *)
(* configuration and files at any time.                                    *)
(*                                                                         *)
(* A Root CA, its certificate and its fingerprint have one name.  A leaf   *)
(* is given by who signed it, what it is for and the addresses in it.      *)
(***************************************************************************)
EXTENDS Naturals, Sequences, Functions

CONSTANTS
    Hosts,
    Roots,
    Interfaces, \* the numbers of a host's IPv4 addresses, from 1; 0 is its name
    None

ASSUME PinningAssumption ==
    /\ None \notin Roots \cup Hosts
    /\ Roots \cap {"", "malformed"} = {}
    /\ Interfaces \subseteq Nat \ {0}

VARIABLES
    serving,    \* what the master on each host serves under: the Root CA, its addresses
    client,     \* master_fingerprint, root-ca.crt and master_address
    contact,    \* the leaf of the server the client talks to
    named       \* the Root CAs the operator has named to the client

vars == <<serving, client, contact, named>>

-----------------------------------------------------------------------------

Addresses == Hosts \X ({0} \cup Interfaces)

Leaf(by, cn, server, addresses) ==
    [ca |-> FALSE, of |-> None, by |-> by, cn |-> cn, server |-> server, addresses |-> addresses]

RootCert(r) ==
    [ca |-> TRUE, of |-> r, by |-> r, cn |-> "root", server |-> FALSE, addresses |-> {}]

\* A leaf for the API, followed by the Root CA.
IssueServerCert(r, addresses) == <<Leaf(r, "natssl-master-api", TRUE, addresses), RootCert(r)>>

\* The names RunMaster has certified: the host's own, and the IPv4 addresses
\* it has found.
MasterAddresses(h, found) == {h} \X ({0} \cup found)

ChainOf(h) == IssueServerCert(serving[h].root, MasterAddresses(h, serving[h].found))

\* The certificates a Root CA's masters, clients and applications hold.
CertsOf(r) ==
    {RootCert(r), Leaf(r, "client", FALSE, {}), Leaf(r, "app.internal", TRUE, {})}
    \cup {Leaf(r, "natssl-master-api", TRUE, MasterAddresses(h, found)) :
                h \in Hosts, found \in SUBSET Interfaces}

\* What a server at some address may present: any of them, in any order.
Chains ==
    LET certs == UNION {CertsOf(r) : r \in Roots}
    IN  UNION {[1 .. n -> certs] : n \in 0 .. 2}

Pins == Roots \cup {"", "malformed"}

Init ==
    /\ serving = [h \in Hosts |-> None]
    /\ client \in [pin : Pins, root : {None}, address : Addresses]
    /\ contact = None
    /\ named = {client.pin} \cap Roots

-----------------------------------------------------------------------------
(* The client *)

\* crypto/x509's Verify: the first certificate is signed by the root, is for
\* servers and has the address.
Verify(chain, root, address) ==
    /\ chain[1].by = root
    /\ chain[1].server
    /\ address \in chain[1].addresses

\* Mutant: the pinned Root CA need only be in the chain.
verifyMasterPin_Appended(c, chain) ==
    /\ chain # <<>>
    /\ chain[1].cn = "natssl-master-api" /\ ~chain[1].ca
    /\ \/ \E x \in Range(chain) : x.ca /\ x.of = c.pin
       \/ c.root # None /\ c.pin \in {"", c.root} /\ Verify(chain, c.root, c.address)

\* Mutant: with neither a pin nor a Root CA the presented one is believed.
verifyMasterPin_FirstUse(c, chain) ==
    /\ chain # <<>>
    /\ chain[1].cn = "natssl-master-api" /\ ~chain[1].ca
    /\ c.pin # "malformed"
    /\ LET presented == {x.of : x \in {y \in Range(chain) : y.ca /\ c.pin \in {"", y.of}}}
           anchors == IF c.root # None /\ c.pin \in {"", c.root} THEN {c.root} ELSE presented
       IN  \E r \in anchors : Verify(chain, r, c.address)

\* The anchor is the Root CA on disk unless the pin is another's, else the
\* presented Root CA that has the pin; without one there is no trust.
verifyMasterPin(c, chain) ==
    /\ chain # <<>>
    /\ chain[1].cn = "natssl-master-api" /\ ~chain[1].ca
    /\ c.pin # "malformed"
    /\ LET presented == {x.of : x \in {y \in Range(chain) : y.ca /\ y.of = c.pin}}
           anchors == IF c.root # None /\ c.pin \in {"", c.root} THEN {c.root} ELSE presented
       IN  \E r \in anchors : Verify(chain, r, c.address)

\* The server at the client's address presents a chain and is accepted.
Connect(chain) ==
    /\ verifyMasterPin(client, chain)
    /\ contact' = chain[1]
    /\ UNCHANGED <<serving, client, named>>

\* GET /ca from the master at the client's address.
fetchAndInstallRootCA(h) ==
    /\ serving[h] # None /\ client.address[1] = h
    /\ verifyMasterPin(client, ChainOf(h))
    /\ client.pin \in {"", serving[h].root}
    /\ client.root \in {None, serving[h].root}
    /\ client' = [client EXCEPT !.root = serving[h].root]
    /\ contact' = ChainOf(h)[1]
    /\ UNCHANGED <<serving, named>>

\* An announcement signed by the client's Root CA names an address the
\* promoted host had before it was restored; the master there may not serve
\* yet, and may find other addresses when it does.
Redirect(h, i) ==
    /\ client.root # None
    /\ client' = [client EXCEPT !.address = <<h, i>>]
    /\ contact' = None
    /\ UNCHANGED <<serving, named>>

-----------------------------------------------------------------------------
(* Masters and the operator *)

\* The addresses are the ones localIPv4s finds at that time; its error is
\* ignored, and then there are none.
RunMaster(h, r, found) ==
    /\ serving[h] = None
    /\ serving' = [serving EXCEPT ![h] = [root |-> r, found |-> found]]
    /\ UNCHANGED <<client, contact, named>>

StopMaster(h) ==
    /\ serving[h] # None
    /\ serving' = [serving EXCEPT ![h] = None]
    /\ UNCHANGED <<client, contact, named>>

\* The operator edits the configuration, or puts a Root CA on the disk or
\* removes it; connections are made anew.
Edit(pin, root, address) ==
    /\ client' = [pin |-> pin, root |-> root, address |-> address]
    /\ \/ pin # client.pin /\ root = client.root /\ address = client.address
       \/ pin = client.pin /\ root # client.root /\ address = client.address
       \/ pin = client.pin /\ root = client.root /\ address # client.address
    /\ contact' = None
    /\ named' = named \cup ({pin} \cap Roots) \cup (IF root # client.root THEN {root} \ {None} ELSE {})
    /\ UNCHANGED serving

Next ==
    \/ \E chain \in Chains : Connect(chain)
    \/ \E h \in Hosts : fetchAndInstallRootCA(h) \/ StopMaster(h)
    \/ \E h \in Hosts, i \in Interfaces : Redirect(h, i)
    \/ \E h \in Hosts, r \in Roots, found \in SUBSET Interfaces : RunMaster(h, r, found)
    \/ \E pin \in Pins, root \in Roots \cup {None}, a \in Addresses : Edit(pin, root, a)

Spec == Init /\ [][Next]_vars

-----------------------------------------------------------------------------

\* Whatever certificates a server strings together, the client talks to a
\* master's leaf of the pinned Root CA, or without a pin of the one on its
\* disk, for the address it is configured with ("Merely appending that CA to
\* an unrelated TLS chain is insufficient").
ContactIsPinned ==
    contact # None =>
        /\ contact.by = (IF client.pin = "" THEN client.root ELSE client.pin)
        /\ contact.cn = "natssl-master-api"
        /\ client.address \in contact.addresses

\* The Root CA on disk is one the operator has named, by its fingerprint or
\* by installing it: neither a first contact nor a later one brings another
\* ("first contact fails closed without a fingerprint or trusted local Root
\* CA", "a server cannot silently replace that anchor").
OnlyNamedRoots == client.root \in named \cup {None}

=============================================================================
