---------------------------- MODULE PinningProofs ----------------------------
(***************************************************************************)
(* A client talks to masters of its Root CA only and keeps no Root CA its  *)
(* operator has not named, for any number of hosts, networks and           *)
(* addresses.                                                              *)
(***************************************************************************)
EXTENDS Pinning, TLAPS

\* A step goes to Zenon unless it names other provers, which are tried in turn.
USE ZenonT(30)

Types ==
    /\ serving \in [Hosts -> [root : Roots, found : SUBSET Interfaces] \cup {None}]
    /\ client \in [pin : Pins, root : Roots \cup {None}, address : Addresses]

\* The operator has named the Root CA that is pinned: without it a Root CA
\* installed by its pin would not be one the operator has named.
PinIsNamed == client.pin \in Roots => client.pin \in named

PinInv == Types /\ PinIsNamed /\ ContactIsPinned /\ OnlyNamedRoots

-----------------------------------------------------------------------------

\* Who signed the leaf verifyMasterPin accepts, for whatever chain a server
\* presents: the pinned Root CA, or without a pin the one on disk.
LEMMA AcceptedIsPinned ==
    ASSUME Types, NEW chain, verifyMasterPin(client, chain),
           \A y \in Range(chain) : y.ca => y.of \in Roots
    PROVE  /\ chain[1].by = (IF client.pin = "" THEN client.root ELSE client.pin)
           /\ chain[1].cn = "natssl-master-api"
           /\ client.address \in chain[1].addresses
           /\ client.pin = "" => client.root # None
<1>1. CASE client.root # None /\ client.pin \in {"", client.root}
  <2>1. chain[1].by = client.root /\ client.address \in chain[1].addresses
    BY <1>1 DEF verifyMasterPin, Verify
  <2> QED
    BY <1>1, <2>1 DEF verifyMasterPin
<1>2. CASE ~(client.root # None /\ client.pin \in {"", client.root})
  <2>1. PICK y \in Range(chain) : /\ y.ca /\ y.of = client.pin
                                  /\ Verify(chain, y.of, client.address)
    BY <1>2 DEF verifyMasterPin
  <2>2. client.pin # ""
    BY <2>1, PinningAssumption
  <2> QED
    BY <2>1, <2>2 DEF verifyMasterPin, Verify
<1> QED
  BY <1>1, <1>2

\* A chain of certificates that were ever made: a Root CA in it is one of
\* Roots.
LEMMA ChainRoots ==
    ASSUME NEW chain \in Chains
    PROVE  \A y \in Range(chain) : y.ca => y.of \in Roots
<1>1. PICK n \in 0 .. 2 : chain \in [1 .. n -> UNION {CertsOf(r) : r \in Roots}]
  BY DEF Chains
<1>2. \A y \in UNION {CertsOf(r) : r \in Roots} : y.ca => y.of \in Roots
  <2> SUFFICES ASSUME NEW r \in Roots, NEW y \in CertsOf(r), y.ca PROVE y.of \in Roots
    OBVIOUS
  <2> QED
    BY SMT, Z3 DEF CertsOf, RootCert, Leaf
<1> QED
  BY <1>1, <1>2 DEF Range

\* What a master presents: its leaf, with the host's addresses, then its
\* Root CA.
LEMMA MasterChain ==
    ASSUME NEW h \in Hosts
    PROVE  /\ ChainOf(h) # <<>>
           /\ ChainOf(h)[1].by = serving[h].root /\ ChainOf(h)[1].cn = "natssl-master-api"
           /\ ChainOf(h)[1].server /\ ~ChainOf(h)[1].ca
           /\ ChainOf(h)[1].addresses = MasterAddresses(h, serving[h].found)
           /\ \A y \in Range(ChainOf(h)) : y.ca => y.of = serving[h].root
<1> DEFINE leaf == Leaf(serving[h].root, "natssl-master-api", TRUE, MasterAddresses(h, serving[h].found))
           root == RootCert(serving[h].root)
<1>1. ChainOf(h) = <<leaf, root>>
  BY DEF ChainOf, IssueServerCert
<1>2. /\ leaf.by = serving[h].root /\ leaf.cn = "natssl-master-api" /\ leaf.server /\ ~leaf.ca
      /\ leaf.addresses = MasterAddresses(h, serving[h].found) /\ root.of = serving[h].root
  BY SMT, Z3 DEF Leaf, RootCert
<1>3. <<leaf, root>> # <<>> /\ <<leaf, root>>[1] = leaf /\ Range(<<leaf, root>>) = {leaf, root}
  <2> HIDE DEF leaf, root
  <2> QED
    BY SMT, Z3 DEF Range
<1> QED
  BY <1>1, <1>2, <1>3

-----------------------------------------------------------------------------

LEMMA InitPin == Init => PinInv
<1> SUFFICES ASSUME Init PROVE PinInv
  OBVIOUS
<1>1. Types
  BY DEF Init, Types
<1>2. PinIsNamed
  BY DEF Init, PinIsNamed
<1>3. ContactIsPinned /\ OnlyNamedRoots
  BY DEF Init, ContactIsPinned, OnlyNamedRoots
<1> QED
  BY <1>1, <1>2, <1>3 DEF PinInv

\* A connection, whatever chain the server presents.
LEMMA ConnectPin ==
    ASSUME PinInv, NEW chain \in Chains, Connect(chain)
    PROVE  PinInv'
<1>1. Types /\ verifyMasterPin(client, chain) /\ contact' = chain[1]
      /\ client' = client /\ serving' = serving /\ named' = named
  BY DEF PinInv, Connect
<1>2. ContactIsPinned'
  BY <1>1, ChainRoots, AcceptedIsPinned DEF ContactIsPinned
<1> QED
  BY <1>1, <1>2 DEF PinInv, Types, PinIsNamed, OnlyNamedRoots

\* The Root CA fetched from a master is the pinned one or is on disk already.
LEMMA FetchPin ==
    ASSUME PinInv, NEW h \in Hosts, fetchAndInstallRootCA(h)
    PROVE  PinInv'
<1>1. Types /\ verifyMasterPin(client, ChainOf(h)) /\ contact' = ChainOf(h)[1]
      /\ serving' = serving /\ named' = named
  BY DEF PinInv, fetchAndInstallRootCA
<1>2. /\ client.pin \in {"", serving[h].root} /\ client.root \in {None, serving[h].root}
      /\ serving[h].root \in Roots
  BY <1>1 DEF fetchAndInstallRootCA, Types
<1>3. client'.pin = client.pin /\ client'.address = client.address /\ client'.root = serving[h].root
  BY <1>1 DEF fetchAndInstallRootCA, Types
<1>4. Types'
  BY <1>1, <1>2 DEF Types, fetchAndInstallRootCA
<1>5. PinIsNamed'
  BY <1>1, <1>3 DEF PinInv, PinIsNamed
<1>6. \A y \in Range(ChainOf(h)) : y.ca => y.of \in Roots
  BY <1>2, MasterChain
<1>7. /\ client.address \in ChainOf(h)[1].addresses
      /\ client.pin = "" => client.root # None
  BY <1>1, <1>6, AcceptedIsPinned
<1>8. ContactIsPinned'
  <2>1. ChainOf(h)[1].by = serving[h].root /\ ChainOf(h)[1].cn = "natssl-master-api"
    BY MasterChain
  <2>2. contact'.by = (IF client'.pin = "" THEN client'.root ELSE client'.pin)
    <3>1. contact'.by = serving[h].root
      BY <1>1, <2>1
    <3> QED
      BY <1>2, <1>3, <3>1
  <2> QED
    BY <1>1, <1>3, <1>7, <2>1, <2>2 DEF ContactIsPinned
<1>9. serving[h].root \in named
  <2>1. CASE client.pin = ""
    BY <1>2, <1>7, <2>1 DEF PinInv, OnlyNamedRoots
  <2>2. CASE client.pin = serving[h].root
    BY <1>2, <2>2 DEF PinInv, PinIsNamed
  <2> QED
    BY <1>2, <2>1, <2>2
<1>10. OnlyNamedRoots'
  BY <1>1, <1>3, <1>9 DEF OnlyNamedRoots
<1> QED
  BY <1>4, <1>5, <1>8, <1>10 DEF PinInv

\* An edit names what it pins or installs.
LEMMA EditPin ==
    ASSUME PinInv, NEW pin \in Pins, NEW root \in Roots \cup {None}, NEW a \in Addresses,
           Edit(pin, root, a)
    PROVE  PinInv'
<1>1. /\ client'.pin = pin /\ client'.root = root /\ contact' = None
      /\ named' = named \cup ({pin} \cap Roots)
                        \cup (IF root # client.root THEN {root} \ {None} ELSE {})
  BY DEF Edit
<1>2. Types'
  BY DEF PinInv, Types, Edit
<1>3. PinIsNamed' /\ ContactIsPinned'
  BY <1>1 DEF PinIsNamed, ContactIsPinned
<1>4. OnlyNamedRoots'
  <2>1. CASE root = client.root
    BY <1>1, <2>1 DEF PinInv, OnlyNamedRoots
  <2>2. CASE root # client.root
    BY <1>1, <2>2 DEF OnlyNamedRoots
  <2> QED
    BY <2>1, <2>2
<1> QED
  BY <1>2, <1>3, <1>4 DEF PinInv

LEMMA StepPin == PinInv /\ [Next]_vars => PinInv'
<1> SUFFICES ASSUME PinInv, [Next]_vars PROVE PinInv'
  OBVIOUS
<1>1. CASE \E chain \in Chains : Connect(chain)
  BY <1>1, ConnectPin
<1>2. CASE \E h \in Hosts : fetchAndInstallRootCA(h)
  BY <1>2, FetchPin
<1>3. CASE \E h \in Hosts, i \in Interfaces : Redirect(h, i)
  <2>1. PICK h \in Hosts, i \in Interfaces : Redirect(h, i)
    BY <1>3
  <2>2. /\ client' = [client EXCEPT !.address = <<h, i>>] /\ contact' = None
        /\ serving' = serving /\ named' = named
    BY <2>1 DEF Redirect
  <2>3. <<h, i>> \in Addresses
    BY DEF Addresses
  <2>4. Types' /\ client'.pin = client.pin /\ client'.root = client.root
    BY <2>2, <2>3, SMT, Z3 DEF PinInv, Types
  <2>5. named' = named /\ contact' = None
    BY <2>2
  <2>6. PinIsNamed' /\ ContactIsPinned' /\ OnlyNamedRoots'
    BY <2>4, <2>5 DEF PinInv, PinIsNamed, ContactIsPinned, OnlyNamedRoots
  <2> QED
    BY <2>4, <2>6 DEF PinInv
<1>4. CASE \E h \in Hosts : StopMaster(h)
  BY <1>4 DEF StopMaster, PinInv, Types, PinIsNamed, ContactIsPinned, OnlyNamedRoots
<1>5. CASE \E h \in Hosts, r \in Roots, found \in SUBSET Interfaces : RunMaster(h, r, found)
  <2>1. PICK h \in Hosts, r \in Roots, found \in SUBSET Interfaces : RunMaster(h, r, found)
    BY <1>5
  <2>2. /\ serving' = [serving EXCEPT ![h] = [root |-> r, found |-> found]]
        /\ UNCHANGED <<client, contact, named>>
    BY <2>1 DEF RunMaster
  <2>3. [root |-> r, found |-> found] \in [root : Roots, found : SUBSET Interfaces] \cup {None}
    OBVIOUS
  <2>4. Types'
    BY <2>2, <2>3 DEF PinInv, Types
  <2> QED
    BY <2>2, <2>4 DEF PinInv, PinIsNamed, ContactIsPinned, OnlyNamedRoots
<1>6. CASE \E pin \in Pins, root \in Roots \cup {None}, a \in Addresses : Edit(pin, root, a)
  BY <1>6, EditPin
<1>7. CASE UNCHANGED vars
  BY <1>7 DEF vars, PinInv, Types, PinIsNamed, ContactIsPinned, OnlyNamedRoots
<1> QED
  BY <1>1, <1>2, <1>3, <1>4, <1>5, <1>6, <1>7 DEF Next

LEMMA PinInvariant == Spec => []PinInv
<1> QED
  BY InitPin, StepPin, PTL DEF Spec

\* Whatever servers present in whatever order of edits, announcements and
\* fetches, the client talks to a master's leaf of its pinned Root CA, or of
\* the one on its disk, for the address it is configured with.
THEOREM ContactSafe == Spec => []ContactIsPinned
<1>1. PinInv => ContactIsPinned
  BY DEF PinInv
<1> QED
  BY <1>1, PinInvariant, PTL

\* No Root CA gets on the client's disk that the operator has not named by
\* its fingerprint or put there.
THEOREM RootsSafe == Spec => []OnlyNamedRoots
<1>1. PinInv => OnlyNamedRoots
  BY DEF PinInv
<1> QED
  BY <1>1, PinInvariant, PTL

=============================================================================
