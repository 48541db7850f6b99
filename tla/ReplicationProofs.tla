------------------------- MODULE ReplicationProofs --------------------------
(***************************************************************************)
(* Proofs about Replication, for every set of hosts, targets and serials,  *)
(* every choice of enrolled hosts and revocable certificates and any       *)
(* number of pings, commands, crashes, lost messages and promotions.       *)
(*                                                                         *)
(* The argument.  CRL numbers are never above the clock and the next one   *)
(* is, so a number stands for one CRL (Numbered).  Until a first promotion *)
(* the founder is the only master (Alone), its table of revocations only   *)
(* grows, and every cache in the network is one it published earlier, the  *)
(* same one if the sequence numbers are equal (SyncInv); an identity that  *)
(* a client holds is recorded there before the client gets it (KnownInv).  *)
(***************************************************************************)
EXTENDS Replication, FiniteSetTheorems, TLAPS

\* A step goes to Zenon unless it names other provers, which are tried in turn.
USE ZenonT(30)

-----------------------------------------------------------------------------
(* The statements of the store *)

\* e has the certificates and the revocations of d.
KeepsCerts(e, d) == e.certs = d.certs /\ e.revoked = d.revoked

\* ... and its number.
Keeps(e, d) == KeepsCerts(e, d) /\ e.crlNumber = d.crlNumber

LEMMA RegistryTypes ==
    ASSUME NEW d \in Databases, NEW ip \in IPs
    PROVE  /\ registerClient(d, ip) \in Databases /\ Keeps(registerClient(d, ip), d)
           /\ RemoveClient(d, ip) \in Databases /\ Keeps(RemoveClient(d, ip), d)
           /\ BlockIP(d, ip) \in Databases /\ Keeps(BlockIP(d, ip), d)
           /\ UnblockIP(d, ip) \in Databases /\ Keeps(UnblockIP(d, ip), d)
<1>1. /\ registerClient(d, ip) \in Databases /\ RemoveClient(d, ip) \in Databases
      /\ BlockIP(d, ip) \in Databases /\ UnblockIP(d, ip) \in Databases
  BY DEF registerClient, RemoveClient, BlockIP, UnblockIP, Databases
<1>2. /\ Keeps(registerClient(d, ip), d) /\ Keeps(RemoveClient(d, ip), d)
      /\ Keeps(BlockIP(d, ip), d) /\ Keeps(UnblockIP(d, ip), d)
  BY DEF registerClient, RemoveClient, BlockIP, UnblockIP, Databases, Keeps, KeepsCerts
<1> QED
  BY <1>1, <1>2

\* A certificate is inserted; one of another serial stays.
Adds(e, d, s, b) ==
    /\ e \in Databases /\ e.revoked = d.revoked /\ e.crlNumber = d.crlNumber
    /\ [serial |-> s, subject |-> b] \in e.certs
    /\ \A c \in d.certs : c.serial # s => c \in e.certs
    /\ \A c \in e.certs : c \in d.certs \/ c.serial = s

LEMMA AddTypes ==
    ASSUME NEW d \in Databases, NEW s \in Serials, NEW b \in Subjects
    PROVE  Adds(AddCert(d, s, b), d, s, b)
<1> DEFINE new == [serial |-> s, subject |-> b]
           certs == {c \in d.certs : c.serial # s} \cup {new}
<1>1. new.serial = s /\ new \in CertRecords
  BY DEF CertRecords
<1> HIDE DEF new
<1>2. /\ certs \subseteq CertRecords /\ new \in certs
      /\ \A c \in d.certs : c.serial # s => c \in certs
      /\ \A c \in certs : c \in d.certs \/ c.serial = s
  BY <1>1 DEF Databases
<1>3. AddCert(d, s, b) = [d EXCEPT !.certs = certs]
  BY DEF AddCert, new
<1> HIDE DEF certs
<1> DEFINE e == AddCert(d, s, b)
<1>4. e \in Databases /\ e.revoked = d.revoked /\ e.crlNumber = d.crlNumber /\ e.certs = certs
  BY <1>2, <1>3 DEF Databases
<1> QED
  BY <1>2, <1>4 DEF Adds, new

\* A revocation is recorded.
Revokes(e, d, s) ==
    /\ e \in Databases /\ e.certs = d.certs /\ e.crlNumber = d.crlNumber
    /\ RevokedSerials(e) = RevokedSerials(d) \cup {s}

LEMMA RevokeTypes ==
    ASSUME NEW d \in Databases, NEW s \in Serials, ~IsRevoked(d, s)
    PROVE  Revokes(RevokeCert(d, s, "unspecified"), d, s)
<1> DEFINE new == [serial |-> s, reason |-> "unspecified"]
           e == RevokeCert(d, s, "unspecified")
<1>1. new.serial = s /\ new \in RevokedRecords
  BY DEF RevokedRecords, Reasons
<1>2. e = [d EXCEPT !.revoked = d.revoked \cup {new}]
  BY DEF RevokeCert
<1> HIDE DEF new, e
<1>3. /\ e \in Databases /\ e.certs = d.certs /\ e.crlNumber = d.crlNumber
      /\ e.revoked = d.revoked \cup {new}
  BY <1>1, <1>2 DEF Databases
<1>4. RevokedSerials(e) = RevokedSerials(d) \cup {s}
  BY <1>1, <1>3 DEF RevokedSerials
<1> QED
  BY <1>3, <1>4 DEF Revokes, e

\* A snapshot becomes the database.
LEMMA RestoreTypes ==
    ASSUME NEW d \in Databases, NEW snap \in Snapshots, NEW n \in Nat
    PROVE  LET e == RestoreSnapshot(d, snap, n) IN
           /\ e \in Databases /\ KeepsCerts(e, snap)
           /\ \A t \in Nat : d.crlNumber <= t /\ snap.crlNumber <= t => e.crlNumber <= t
<1>1. RestoreSnapshot(d, snap, n) \in Databases
  BY SMT, Z3 DEF RestoreSnapshot, Databases, Snapshots, Larger
<1>2. KeepsCerts(RestoreSnapshot(d, snap, n), snap)
  BY DEF RestoreSnapshot, KeepsCerts
<1>3. \A t \in Nat : d.crlNumber <= t /\ snap.crlNumber <= t => RestoreSnapshot(d, snap, n).crlNumber <= t
  BY SMT, Z3 DEF RestoreSnapshot, Larger
<1> QED
  BY <1>1, <1>2, <1>3

-----------------------------------------------------------------------------
(* Types *)

Config == [mode : {"client", "master"}, master : Hosts]
Pairs == [key : Serials \cup {None}, crt : Serials \cup {None}]
Caches == [seq : Nat, data : Snapshots]
CRLs == [number : Nat, revoked : SUBSET Serials]
Locals == [pull : BOOLEAN, serial : Serials \cup {None}, acked : SUBSET Serials]
Bounds == [crashes : Nat, losses : Nat, admin : Nat, revocations : Nat, refreshes : Nat,
           promotions : Nat]

\* The files and tables, and what is in memory.
FileTypes ==
    /\ cacheFile \in [Hosts -> Caches] /\ crlFile \in [Hosts -> CRLs]
    /\ db \in [Hosts -> Databases] /\ clock \in Nat /\ minted \in SUBSET Serials

HostTypes ==
    /\ config \in [Hosts -> Config] /\ root \in [Hosts -> BOOLEAN]
    /\ identity \in [Hosts -> Pairs] /\ epoch \in [Hosts -> Nat]
    /\ pc \in [Hosts -> Steps] /\ loc \in [Hosts -> Locals]
    /\ registered \in [Hosts -> Hosts \cup {None}]

GhostTypes ==
    /\ pending \in [Hosts -> Serials \cup {None}] /\ listed \in [Hosts -> BOOLEAN]
    /\ acked \in [Hosts -> SUBSET Serials] /\ synced \in [Hosts -> SUBSET Serials]
    /\ used \in Bounds

LEMMA TypeParts == TypeOK <=> FileTypes /\ HostTypes /\ GhostTypes
  BY DEF TypeOK, FileTypes, HostTypes, GhostTypes, Config, Pairs, Caches, CRLs, Locals, Bounds

LEMMA RevokedTypes == \A d \in Databases : RevokedSerials(d) \subseteq Serials
  BY DEF RevokedSerials, Databases, RevokedRecords

LEMMA SnapshotTypes ==
    \A d \in Databases : BuildSnapshot(d) \in Snapshots /\ Keeps(BuildSnapshot(d), d)
<1>1. \A d \in Databases : BuildSnapshot(d) \in Snapshots
  BY DEF BuildSnapshot, Databases, Snapshots
<1>2. \A d \in Databases : Keeps(BuildSnapshot(d), d)
  BY DEF BuildSnapshot, Keeps, KeepsCerts
<1> QED
  BY <1>1, <1>2

\* Records with the same revocations revoke the same serials.
LEMMA SameRevoked == \A d, e : KeepsCerts(e, d) => RevokedSerials(e) = RevokedSerials(d)
  BY DEF KeepsCerts, RevokedSerials

\* What a rebuild of h from the tables d leaves behind.
Rebuilt(h, d) ==
    /\ db' \in [Hosts -> Databases] /\ cacheFile' \in [Hosts -> Caches]
    /\ Keeps(db'[h], d) /\ Keeps(cacheFile'[h].data, d)
    /\ cacheFile'[h].seq > cacheFile[h].seq
    /\ \A g \in Hosts : g # h => db'[g] = db[g] /\ cacheFile'[g] = cacheFile[g]

LEMMA RebuildKeeps ==
    ASSUME FileTypes, NEW h \in Hosts, NEW d \in Databases, Rebuild(h, d)
    PROVE  Rebuilt(h, d)
<1> DEFINE next == nextCacheSequence(raiseCacheSequence(d, cacheFile[h].seq))
           file == [seq |-> next.cacheSequence, data |-> BuildSnapshot(d)]
<1>1. cacheFile[h].seq \in Nat
  BY DEF FileTypes, Caches
<1> DEFINE raised == Larger(d.cacheSequence, cacheFile[h].seq)
<1>a. d.cacheSequence \in Nat
  BY DEF Databases
<1>b. raised \in Nat /\ raised + 1 \in Nat /\ raised + 1 > cacheFile[h].seq
  BY <1>1, <1>a, SMT, Z3 DEF Larger
<1>c. /\ raiseCacheSequence(d, cacheFile[h].seq) = [d EXCEPT !.cacheSequence = raised]
      /\ [d EXCEPT !.cacheSequence = raised] \in Databases
  BY <1>b DEF raiseCacheSequence, Databases
<1>d. next = [[d EXCEPT !.cacheSequence = raised] EXCEPT !.cacheSequence = raised + 1]
  BY <1>a, <1>c DEF nextCacheSequence, Databases
<1>2. next \in Databases /\ next.cacheSequence > cacheFile[h].seq
  BY <1>b, <1>c, <1>d DEF Databases
<1>3. Keeps(next, d)
  BY DEF nextCacheSequence, raiseCacheSequence, Databases, Keeps, KeepsCerts
<1>4. next.cacheSequence \in Nat
  BY <1>2 DEF Databases
<1>5. db' = [db EXCEPT ![h] = next] /\ cacheFile' = [cacheFile EXCEPT ![h] = file]
  BY DEF Rebuild
<1> HIDE DEF next
<1>6. file.seq = next.cacheSequence /\ file.data = BuildSnapshot(d) /\ file \in Caches
  BY <1>4, SnapshotTypes DEF Caches
<1> HIDE DEF file
<1>7. db \in [Hosts -> Databases] /\ cacheFile \in [Hosts -> Caches]
  BY DEF FileTypes
<1>8. /\ db' \in [Hosts -> Databases] /\ db'[h] = next
      /\ \A g \in Hosts : g # h => db'[g] = db[g]
  BY <1>2, <1>5, <1>7
<1>9. /\ cacheFile' \in [Hosts -> Caches] /\ cacheFile'[h] = file
      /\ \A g \in Hosts : g # h => cacheFile'[g] = cacheFile[g]
  BY <1>5, <1>6, <1>7
<1> QED
  BY <1>2, <1>3, <1>6, <1>8, <1>9, SnapshotTypes DEF Rebuilt

\* What a CRL issued from the tables d is.
LEMMA NumberTypes ==
    ASSUME clock \in Nat, NEW d \in Databases
    PROVE  /\ NumberCRL(d) \in Databases /\ KeepsCerts(NumberCRL(d), d)
           /\ CRLOf(d) \in CRLs /\ CRLOf(d).revoked = RevokedSerials(d)
           /\ CRLOf(d).number = NumberCRL(d).crlNumber
           /\ d.crlNumber <= clock => NumberCRL(d).crlNumber = clock + 1
           /\ NumberCRL(d).clients = d.clients /\ NumberCRL(d).blacklist = d.blacklist
<1>1. /\ NumberCRL(d) \in Databases
      /\ d.crlNumber <= clock => NumberCRL(d).crlNumber = clock + 1
  BY SMT, Z3 DEF NumberCRL, nextCRLNumber, Larger, Databases
<1>2. /\ KeepsCerts(NumberCRL(d), d)
      /\ NumberCRL(d).clients = d.clients /\ NumberCRL(d).blacklist = d.blacklist
  BY DEF NumberCRL, nextCRLNumber, Databases, KeepsCerts
<1>3. NumberCRL(d).crlNumber \in Nat
  BY <1>1 DEF Databases
<1>4. RevokedSerials(d) \in SUBSET Serials
  BY RevokedTypes
<1>5. /\ CRLOf(d) \in CRLs /\ CRLOf(d).revoked = RevokedSerials(d)
      /\ CRLOf(d).number = NumberCRL(d).crlNumber
  BY <1>3, <1>4 DEF CRLOf, CRLs
<1> QED
  BY <1>1, <1>2, <1>5


LEMMA Given ==
    /\ Founder \in Hosts /\ Issued \subseteq Serials /\ Enrolled \subseteq Hosts
    /\ Founder \notin Enrolled /\ None \notin Hosts /\ None \notin Serials
  BY ReplicationAssumption

\* The identities of the hosts that have enrolled at the start differ.
LEMMA FirstSerials ==
    /\ SerialOf \in [Enrolled -> Serials \ Issued]
    /\ \A g, h \in Enrolled : SerialOf[g] = SerialOf[h] => g = h
  BY ReplicationAssumption DEF SerialOf

LEMMA CertTypes ==
    \A s \in Serials, b \in Subjects : /\ [serial |-> s, subject |-> b] \in CertRecords
                                       /\ [serial |-> s, subject |-> b].serial = s
  BY DEF CertRecords

LEMMA MigrateTypes == migrate \in Databases /\ migrate.revoked = {} /\ migrate.crlNumber = 0
<1>1. 0 \in Nat
  BY SMT, Z3
<1> QED
  BY <1>1 DEF migrate, Databases

LEMMA FounderTypes ==
    /\ FounderDB \in Databases
    /\ FounderDB.revoked = {} /\ FounderDB.crlNumber = 2
    /\ \A x \in FounderDB.certs :
          \/ x.serial \in Issued
          \/ \E h \in Enrolled : x.serial = SerialOf[h]
    /\ \A h \in Enrolled : [serial |-> SerialOf[h], subject |-> Identity(h)] \in FounderDB.certs
<1> DEFINE named == CHOOSE t \in Targets : TRUE
           first == {[serial |-> s, subject |-> named] : s \in Issued}
           ids == {[serial |-> SerialOf[h], subject |-> Identity(h)] : h \in Enrolled}
           number == 2 + Cardinality(Issued) + Cardinality(Enrolled)
<1>1. named \in Subjects
  <2>1. \E t : t \in Targets
    BY ReplicationAssumption
  <2> QED
    BY <2>1 DEF Subjects
<1> HIDE DEF named
<1>2. first \subseteq CertRecords /\ \A x \in first : x.serial \in Issued
  BY <1>1, CertTypes, Given
<1>3. \A h \in Enrolled : SerialOf[h] \in Serials /\ Identity(h) \in Subjects
  BY FirstSerials, Given DEF Subjects, Hosts
<1>4. ids \subseteq CertRecords /\ \A x \in ids : \E h \in Enrolled : x.serial = SerialOf[h]
  BY <1>3, CertTypes
<1>5. number \in Nat
  <2>1. Cardinality(Issued) \in Nat /\ Cardinality(Enrolled) \in Nat
    BY ReplicationAssumption, FS_CardinalityType
  <2> QED
    BY <2>1, SMT, Z3
<1>6. \A h \in Enrolled : [serial |-> SerialOf[h], subject |-> Identity(h)] \in ids
  OBVIOUS
<1>7. Enrolled \subseteq IPs /\ 2 \in Nat
  BY ReplicationAssumption, SMT, Z3 DEF Hosts
<1>8. FounderDB = [migrate EXCEPT !.clients = Enrolled, !.certs = first \cup ids,
                                  !.cacheSequence = number, !.crlNumber = 2]
  BY DEF FounderDB, named
<1> HIDE DEF first, ids, number
<1>9. first \cup ids \in SUBSET CertRecords /\ Enrolled \in SUBSET IPs
  BY <1>2, <1>4, <1>7
<1>10. FounderDB \in Databases
  BY <1>5, <1>7, <1>8, <1>9, MigrateTypes DEF Databases
<1>11. /\ FounderDB.revoked = {} /\ FounderDB.crlNumber = 2
       /\ FounderDB.certs = first \cup ids
  BY <1>8, MigrateTypes DEF Databases
<1> QED
  BY <1>2, <1>4, <1>6, <1>10, <1>11

LEMMA NoFileTypes == NoFile \in Caches /\ NoFile.data = BuildSnapshot(migrate) /\ NoFile.seq = 0
<1>1. 0 \in Nat
  BY SMT, Z3
<1> QED
  BY <1>1, MigrateTypes, SnapshotTypes DEF NoFile, Caches

LEMMA InitTypes == Init => TypeOK
<1> SUFFICES ASSUME Init PROVE TypeOK
  OBVIOUS
<1>1. 0 \in Nat /\ 2 \in Nat
  BY SMT, Z3
<1>2. FounderDB.cacheSequence \in Nat
  BY FounderTypes DEF Databases
<1>3. cacheFile \in [Hosts -> Caches]
  <2>1. [seq |-> FounderDB.cacheSequence, data |-> BuildSnapshot(FounderDB)] \in Caches
    BY <1>2, FounderTypes, SnapshotTypes DEF Caches
  <2> QED
    BY <2>1, NoFileTypes DEF Init
<1>4. crlFile \in [Hosts -> CRLs]
  BY <1>1 DEF Init, NoCRL, CRLs
<1>5. db \in [Hosts -> Databases]
  BY FounderTypes, MigrateTypes DEF Init
<1>6. minted \in SUBSET Serials
  <2>1. Issued \subseteq Serials /\ \A h \in Enrolled : SerialOf[h] \in Serials
    BY FirstSerials, Given
  <2>2. minted = Issued \cup {SerialOf[h] : h \in Enrolled}
    BY DEF Init
  <2> QED
    BY <2>1, <2>2
<1>7. FileTypes
  BY <1>1, <1>3, <1>4, <1>5, <1>6 DEF Init, FileTypes
<1>8. config \in [Hosts -> Config]
  BY Given DEF Init, Config
<1>9. identity \in [Hosts -> Pairs]
  BY FirstSerials, SMT, Z3 DEF Init, Pairs
<1>10. pc \in [Hosts -> Steps]
  BY DEF Init, Steps
<1>a. root \in [Hosts -> BOOLEAN]
  BY SMT, Z3 DEF Init
<1>11. loc \in [Hosts -> Locals]
  BY DEF Init, Locals, NoLocals
<1>12. HostTypes
  BY <1>1, <1>8, <1>9, <1>10, <1>a, <1>11 DEF Init, HostTypes
<1>13. GhostTypes
  BY <1>1 DEF Init, GhostTypes, Bounds
<1> QED
  BY <1>7, <1>12, <1>13, TypeParts


\* Assignments to a part of a host's state.
LEMMA PartTypes ==
    ASSUME HostTypes, NEW c \in Hosts
    PROVE  /\ \A s \in Serials : [loc EXCEPT ![c].serial = s] \in [Hosts -> Locals]
           /\ \A a \in SUBSET Serials : [loc EXCEPT ![c].acked = a] \in [Hosts -> Locals]
           /\ \A s \in Serials \cup {None} : /\ [identity EXCEPT ![c].key = s] \in [Hosts -> Pairs]
                                             /\ [identity EXCEPT ![c].crt = s] \in [Hosts -> Pairs]
           /\ \A h \in Hosts : [config EXCEPT ![c].master = h] \in [Hosts -> Config]
<1>1. \A s \in Serials : [loc EXCEPT ![c].serial = s] \in [Hosts -> Locals]
  BY SMTT(30) DEF HostTypes, Locals
<1>2. \A a \in SUBSET Serials : [loc EXCEPT ![c].acked = a] \in [Hosts -> Locals]
  BY SMT, Z3 DEF HostTypes, Locals
<1>3. \A s \in Serials \cup {None} : /\ [identity EXCEPT ![c].key = s] \in [Hosts -> Pairs]
                                     /\ [identity EXCEPT ![c].crt = s] \in [Hosts -> Pairs]
  BY SMT, Z3 DEF HostTypes, Pairs
<1>4. \A h \in Hosts : [config EXCEPT ![c].master = h] \in [Hosts -> Config]
  BY SMT, Z3 DEF HostTypes, Config
<1> QED
  BY <1>1, <1>2, <1>3, <1>4

\* Assignments to the whole of it.
LEMMA WholeTypes ==
    ASSUME HostTypes, NEW c \in Hosts
    PROVE  /\ \A step \in Steps : Goto(c, step) => pc' \in [Hosts -> Steps]
           /\ Register(c) => pc' \in [Hosts -> Steps]
           /\ AfterRegister(c) \in Steps
           /\ [loc EXCEPT ![c] = NoLocals] \in [Hosts -> Locals]
           /\ [loc EXCEPT ![c] = [NoLocals EXCEPT !.pull = TRUE]] \in [Hosts -> Locals]
           /\ \A m \in Hosts \cup {None} :
                 [registered EXCEPT ![c] = m] \in [Hosts -> Hosts \cup {None}]
           /\ Master(c) \in Hosts
<1>1. \A step \in Steps : Goto(c, step) => pc' \in [Hosts -> Steps]
  BY DEF HostTypes, Goto
<1>2. Register(c) => pc' \in [Hosts -> Steps]
  <2>1. "root" \in Steps /\ "register" \in Steps /\ "enroll" \in Steps
    BY DEF Steps, Requests
  <2> QED
    BY <1>1, <2>1 DEF Register
<1>3. AfterRegister(c) \in Steps
  BY DEF AfterRegister, Steps, Requests
<1>4. NoLocals \in Locals /\ [NoLocals EXCEPT !.pull = TRUE] \in Locals
  BY DEF NoLocals, Locals
<1>5. loc \in [Hosts -> Locals] /\ registered \in [Hosts -> Hosts \cup {None}]
  BY DEF HostTypes
<1>6. /\ [loc EXCEPT ![c] = NoLocals] \in [Hosts -> Locals]
      /\ [loc EXCEPT ![c] = [NoLocals EXCEPT !.pull = TRUE]] \in [Hosts -> Locals]
  BY <1>4, <1>5
<1>7. \A m \in Hosts \cup {None} : [registered EXCEPT ![c] = m] \in [Hosts -> Hosts \cup {None}]
  BY <1>5
<1>8. Master(c) \in Hosts
  BY DEF HostTypes, Config, Master
<1> QED
  BY <1>1, <1>2, <1>3, <1>6, <1>7, <1>8

LEMMA FreshTypes == Serials \ minted # {} => FreshSerial \in Serials /\ FreshSerial \notin minted
<1> SUFFICES ASSUME Serials \ minted # {} PROVE FreshSerial \in Serials \ minted
  OBVIOUS
<1>1. \E s : s \in Serials \ minted
  OBVIOUS
<1> QED
  BY <1>1 DEF FreshSerial


\* The state of the hosts keeps its type.
LEMMA HostStep ==
    ASSUME TypeOK, Next
    PROVE  HostTypes'
<1>t. HostTypes /\ GhostTypes
  BY TypeParts
<1>l. {"off", "idle", "write_key", "write_crt", "serving", "root", "enroll", "register",
       "pull_cache", "pull_crl"} \subseteq Steps
  BY DEF Steps, Requests
<1>1. ASSUME NEW c \in Hosts, RunClient(c) PROVE HostTypes'
  <2>1. pc' \in [Hosts -> Steps]
    BY <1>1, <1>t, WholeTypes DEF RunClient
  <2>2. loc' \in [Hosts -> Locals] /\ registered' \in [Hosts -> Hosts \cup {None}]
    BY <1>1, <1>t, WholeTypes DEF RunClient
  <2> QED
    BY <1>1, <1>t, <2>1, <2>2 DEF RunClient, HostTypes
<1>a. ASSUME NEW c \in Hosts, Ping(c) PROVE HostTypes'
  <2>1. pc' \in [Hosts -> Steps]
    BY <1>a, <1>t, WholeTypes DEF Ping
  <2>2. loc' \in [Hosts -> Locals] /\ registered' \in [Hosts -> Hosts \cup {None}]
    BY <1>a, <1>t, WholeTypes DEF Ping
  <2> QED
    BY <1>a, <1>t, <2>1, <2>2 DEF Ping, HostTypes
<1>2. ASSUME NEW c \in Hosts, Sync(c) PROVE HostTypes'
  BY <1>2, <1>t, <1>l, WholeTypes DEF Sync, HostTypes
<1>3. ASSUME NEW c \in Hosts, fetchAndInstallRootCA(c) PROVE HostTypes'
  <2>1. pc' \in [Hosts -> Steps]
    BY <1>3, <1>t, <1>l, WholeTypes DEF fetchAndInstallRootCA
  <2> QED
    BY <1>3, <1>t, <2>1 DEF fetchAndInstallRootCA, HostTypes
<1>4. ASSUME NEW c \in Hosts, Enroll(c) PROVE HostTypes'
  <2>1. pc' \in [Hosts -> Steps] /\ loc' \in [Hosts -> Locals]
    BY <1>4, <1>t, <1>l, WholeTypes, PartTypes, FreshTypes DEF Enroll
  <2> QED
    BY <1>4, <1>t, <2>1 DEF Enroll, HostTypes
<1>5. ASSUME NEW c \in Hosts, WriteKey(c) PROVE HostTypes'
  <2>1. pc' \in [Hosts -> Steps]
    BY <1>5, <1>t, <1>l, WholeTypes DEF WriteKey
  <2>2. loc[c].serial \in Serials \cup {None}
    BY <1>t DEF HostTypes, Locals
  <2>3. identity' \in [Hosts -> Pairs]
    BY <1>5, <1>t, <2>2, PartTypes DEF WriteKey
  <2> QED
    BY <1>5, <1>t, <2>1, <2>3 DEF WriteKey, HostTypes
<1>6. ASSUME NEW c \in Hosts, WriteCrt(c) PROVE HostTypes'
  <2>1. pc' \in [Hosts -> Steps]
    BY <1>6, <1>t, <1>l, WholeTypes DEF WriteCrt
  <2>2. loc[c].serial \in Serials \cup {None}
    BY <1>t DEF HostTypes, Locals
  <2>3. identity' \in [Hosts -> Pairs]
    BY <1>6, <1>t, <2>2, PartTypes DEF WriteCrt
  <2> QED
    BY <1>6, <1>t, <2>1, <2>3 DEF WriteCrt, HostTypes
<1>7. ASSUME NEW c \in Hosts, RegisterWithMaster(c) PROVE HostTypes'
  BY <1>7, <1>t, WholeTypes DEF RegisterWithMaster, HostTypes
<1>8. ASSUME NEW c \in Hosts, PullCache(c) PROVE HostTypes'
  <2>1. acked[Master(c)] \in SUBSET Serials
    BY <1>t, WholeTypes DEF GhostTypes
  <2>2. pc' \in [Hosts -> Steps] /\ loc' \in [Hosts -> Locals]
    BY <1>8, <1>t, <1>l, <2>1, WholeTypes, PartTypes DEF PullCache
  <2> QED
    BY <1>8, <1>t, <2>2 DEF PullCache, HostTypes
<1>9. ASSUME NEW c \in Hosts, PullCRL(c) PROVE HostTypes'
  <2>1. PICK file : ServeCRL(c, file)
    BY <1>9 DEF PullCRL
  <2> QED
    BY <2>1, <1>t, <1>l, WholeTypes DEF ServeCRL, HostTypes
<1>10. ASSUME NEW c \in Hosts, RequestFails(c) PROVE HostTypes'
  <2>1. pc' \in [Hosts -> Steps]
    BY <1>10, <1>t, <1>l, WholeTypes DEF RequestFails
  <2>2. loc' \in [Hosts -> Locals]
    BY <1>10, <1>t, PartTypes DEF RequestFails
  <2> QED
    BY <1>10, <1>t, <2>1, <2>2 DEF RequestFails, HostTypes
<1>11. ASSUME NEW c \in Hosts, AnswerLost(c) PROVE HostTypes'
  BY <1>11, <1>t, WholeTypes DEF AnswerLost, HostTypes
<1>12. ASSUME NEW c \in Hosts, Crash(c) PROVE HostTypes'
  BY <1>12, <1>t, <1>l, WholeTypes DEF Crash, HostTypes
<1>13. ASSUME NEW c \in Hosts, RunMaster(c) PROVE HostTypes'
  BY <1>13, <1>t, <1>l, WholeTypes DEF RunMaster, HostTypes
<1>14. ASSUME NEW c \in Hosts, RunPromote(c) PROVE HostTypes'
  <2>1. pc' \in [Hosts -> Steps] /\ loc' \in [Hosts -> Locals]
    BY <1>14, <1>t, <1>l, WholeTypes DEF RunPromote
  <2>2. [mode |-> "master", master |-> c] \in Config
    BY DEF Config
  <2>3. used.promotions + 1 \in Nat
    <3>1. used.promotions \in Nat
      BY <1>t DEF GhostTypes, Bounds
    <3> QED
      BY <3>1, SMT, Z3
  <2>4. config' \in [Hosts -> Config] /\ epoch' \in [Hosts -> Nat]
    BY <1>14, <1>t, <2>2, <2>3 DEF RunPromote, HostTypes
  <2> QED
    BY <1>14, <1>t, <2>1, <2>4 DEF RunPromote, HostTypes
<1>15. ASSUME NEW c \in Hosts, PublishRevocation(c) PROVE HostTypes'
  BY <1>15, <1>t DEF PublishRevocation, HostTypes
<1>16. ASSUME NEW c \in Hosts, NEW h \in Hosts, Redirect(c, h) PROVE HostTypes'
  BY <1>16, <1>t, WholeTypes, PartTypes DEF Redirect, HostTypes
<1>17. ASSUME NEW c \in Hosts, NEW h \in Hosts, ChangeRegistry(h, c) PROVE HostTypes'
  BY <1>17, <1>t DEF ChangeRegistry, HostTypes
<1>18. ASSUME NEW h \in Hosts, NEW s \in Serials, Revoke(h, s) PROVE HostTypes'
  BY <1>18, <1>t DEF Revoke, HostTypes
<1>19. ASSUME NEW c \in Hosts, ListRevocation(c) \/ StopRevoke(c) PROVE HostTypes'
  BY <1>19, <1>t DEF ListRevocation, StopRevoke, HostTypes
<1> QED
  BY <1>1, <1>a, <1>2, <1>3, <1>4, <1>5, <1>6, <1>7, <1>8, <1>9, <1>10, <1>11, <1>12, <1>13,
     <1>14, <1>15, <1>16, <1>17, <1>18, <1>19 DEF Next, ClientStep


\* The bounds and what the model remembers keep their type.
LEMMA GhostStep ==
    ASSUME TypeOK, Next
    PROVE  GhostTypes'
<1>t. HostTypes /\ GhostTypes
  BY TypeParts
<1>u. /\ [used EXCEPT !.crashes = @ + 1] \in Bounds /\ [used EXCEPT !.losses = @ + 1] \in Bounds
      /\ [used EXCEPT !.admin = @ + 1] \in Bounds /\ [used EXCEPT !.refreshes = @ + 1] \in Bounds
      /\ [used EXCEPT !.promotions = @ + 1] \in Bounds
      /\ [used EXCEPT !.revocations = @ + 1] \in Bounds
  <2>1. used \in Bounds /\ \A n \in Nat : n + 1 \in Nat
    BY <1>t, SMT, Z3 DEF GhostTypes
  <2> QED
    BY <2>1 DEF Bounds
<1>1. ASSUME NEW c \in Hosts, RunClient(c) \/ Ping(c) \/ Sync(c) PROVE GhostTypes'
  BY <1>1, <1>t DEF RunClient, Ping, Sync, GhostTypes
<1>2. ASSUME NEW c \in Hosts, fetchAndInstallRootCA(c) \/ WriteKey(c) \/ WriteCrt(c)
      PROVE  GhostTypes'
  BY <1>2, <1>t DEF fetchAndInstallRootCA, WriteKey, WriteCrt, GhostTypes
<1>3. ASSUME NEW c \in Hosts, Enroll(c) \/ RegisterWithMaster(c) \/ PullCache(c) PROVE GhostTypes'
  BY <1>3, <1>t DEF Enroll, RegisterWithMaster, PullCache, GhostTypes
<1>4. ASSUME NEW c \in Hosts, PullCRL(c) PROVE GhostTypes'
  <2>1. PICK file : ServeCRL(c, file)
    BY <1>4 DEF PullCRL
  <2>2. used' \in Bounds
    BY <1>4, <1>t, <1>u DEF PullCRL, GhostTypes
  <2>3. loc[c].acked \in SUBSET Serials
    BY <1>t DEF HostTypes, Locals
  <2>4. synced' \in [Hosts -> SUBSET Serials]
    <3>1. PICK a : a \in {synced[c], loc[c].acked} /\ synced' = [synced EXCEPT ![c] = a]
      BY <2>1 DEF ServeCRL
    <3> QED
      BY <1>t, <2>3, <3>1 DEF GhostTypes
  <2> QED
    BY <2>1, <1>t, <2>2, <2>4 DEF ServeCRL, GhostTypes
<1>5. ASSUME NEW c \in Hosts, RequestFails(c) PROVE GhostTypes'
  BY <1>5, <1>t, <1>u DEF RequestFails, GhostTypes
<1>6. ASSUME NEW c \in Hosts, AnswerLost(c) PROVE GhostTypes'
  BY <1>6, <1>t, <1>u DEF AnswerLost, GhostTypes
<1>7. ASSUME NEW c \in Hosts, Crash(c) PROVE GhostTypes'
  BY <1>7, <1>t, <1>u DEF Crash, GhostTypes
<1>8. ASSUME NEW c \in Hosts, RunMaster(c) PROVE GhostTypes'
  BY <1>8, <1>t DEF RunMaster, GhostTypes
<1>9. ASSUME NEW c \in Hosts, RunPromote(c) PROVE GhostTypes'
  BY <1>9, <1>t, <1>u DEF RunPromote, GhostTypes
<1>10. ASSUME NEW c \in Hosts, PublishRevocation(c) PROVE GhostTypes'
  <2>1. pending[c] \in Serials
    BY <1>10, <1>t DEF PublishRevocation, GhostTypes
  <2>2. acked[c] \cup {pending[c]} \in SUBSET Serials
    BY <1>t, <2>1 DEF GhostTypes
  <2> QED
    BY <1>10, <1>t, <2>2 DEF PublishRevocation, GhostTypes
<1>11. ASSUME NEW c \in Hosts, NEW h \in Hosts, Redirect(c, h) PROVE GhostTypes'
  BY <1>11, <1>t DEF Redirect, GhostTypes
<1>12. ASSUME NEW c \in Hosts, NEW h \in Hosts, ChangeRegistry(h, c) PROVE GhostTypes'
  BY <1>12, <1>t, <1>u DEF ChangeRegistry, GhostTypes
<1>13. ASSUME NEW h \in Hosts, NEW s \in Serials, Revoke(h, s) PROVE GhostTypes'
  BY <1>13, <1>t, <1>u DEF Revoke, GhostTypes
<1>14. ASSUME NEW c \in Hosts, ListRevocation(c) PROVE GhostTypes'
  BY <1>14, <1>t DEF ListRevocation, GhostTypes
<1>15. ASSUME NEW c \in Hosts, StopRevoke(c) PROVE GhostTypes'
  BY <1>15, <1>t, <1>u DEF StopRevoke, GhostTypes
<1> QED
  BY <1>1, <1>2, <1>3, <1>4, <1>5, <1>6, <1>7, <1>8, <1>9, <1>10, <1>11, <1>12, <1>13, <1>14, <1>15
     DEF Next, ClientStep


-----------------------------------------------------------------------------
(* What a step does to the files and the tables *)

\* A CRL number is one the clock has reached, and stands for one list.
Numbered ==
    /\ \A h \in Hosts : /\ crlFile[h].number <= clock /\ db[h].crlNumber <= clock
                        /\ cacheFile[h].data.crlNumber <= clock
    /\ \A g, h \in Hosts : crlFile[g].number = crlFile[h].number => crlFile[g] = crlFile[h]

TypeInv == TypeOK /\ Numbered

\* e is d after a request or a command that revokes nothing: at most a
\* certificate with a new serial is added.
Kept(e, d) ==
    /\ e \in Databases /\ e.revoked = d.revoked /\ e.crlNumber = d.crlNumber
    /\ \A x \in d.certs : x.serial \in minted => x \in e.certs
    /\ \A x \in e.certs : x \in d.certs \/ x.serial \in minted'

\* Nothing is written.
Quiet == UNCHANGED <<cacheFile, crlFile, db, clock, minted>>

\* The master m serves a request or a command and rebuilds its cache.
Published(m) ==
    /\ \E d : Kept(d, db[m]) /\ Rebuilt(m, d)
    /\ minted \subseteq minted' /\ minted' \subseteq Serials
    /\ UNCHANGED <<crlFile, clock>>

\* c gets the cache, or the CRL, of m.
PullsCache(c, m) ==
    /\ cacheFile' = [cacheFile EXCEPT ![c] = acceptCache(c, cacheFile[m])]
    /\ UNCHANGED <<crlFile, db, clock, minted>>

PullsCRL(c, m) ==
    /\ acceptsCRL(c, crlFile[m])
    /\ crlFile' = [crlFile EXCEPT ![m] = crlFile[m], ![c] = crlFile[m]]
    /\ UNCHANGED <<cacheFile, db, clock, minted>>

\* m changes its tables and writes no file.
Notes(m) ==
    /\ \E d \in Databases : d.crlNumber = db[m].crlNumber /\ db' = [db EXCEPT ![m] = d]
    /\ minted \subseteq minted' /\ minted' \subseteq Serials
    /\ UNCHANGED <<cacheFile, crlFile, clock>>

\* m issues a CRL from the tables d.
Lists(m, d) ==
    /\ clock' = clock + 1 /\ UNCHANGED minted
    /\ CRLOf(d) \in CRLs /\ CRLOf(d).number = clock + 1
    /\ crlFile' \in [Hosts -> CRLs]
    /\ \A h \in Hosts : crlFile'[h] = crlFile[h] \/ crlFile'[h] = CRLOf(d)
    /\ db' \in [Hosts -> Databases]
    /\ KeepsCerts(db'[m], d) /\ db'[m].crlNumber = clock + 1
    /\ \A h \in Hosts : h # m => db'[h] = db[h]
    /\ cacheFile' \in [Hosts -> Caches]
    /\ \A h \in Hosts : \/ cacheFile'[h] = cacheFile[h]
                        \/ /\ cacheFile'[h].seq > cacheFile[h].seq
                           /\ cacheFile'[h].data.crlNumber = clock + 1

FileStep ==
    \/ Quiet
    \/ \E m \in Hosts : Published(m) \/ Notes(m)
    \/ \E c, m \in Hosts : PullsCache(c, m) \/ PullsCRL(c, m)
    \/ \E m \in Hosts, d \in Databases : Lists(m, d)

LEMMA FileFacts ==
    ASSUME TypeOK
    PROVE  /\ FileTypes /\ HostTypes /\ GhostTypes
           /\ clock \in Nat /\ db \in [Hosts -> Databases]
           /\ cacheFile \in [Hosts -> Caches] /\ crlFile \in [Hosts -> CRLs]
           /\ \A h \in Hosts : /\ db[h] \in Databases /\ cacheFile[h].data \in Snapshots
                               /\ cacheFile[h].seq \in Nat /\ cacheFile[h].data.crlNumber \in Nat
                               /\ crlFile[h].number \in Nat /\ db[h].crlNumber \in Nat
                               /\ Master(h) \in Hosts
<1>1. FileTypes /\ HostTypes /\ GhostTypes
  BY TypeParts
<1>2. /\ clock \in Nat /\ db \in [Hosts -> Databases]
      /\ cacheFile \in [Hosts -> Caches] /\ crlFile \in [Hosts -> CRLs]
  BY <1>1 DEF FileTypes
<1>3. \A h \in Hosts : /\ cacheFile[h].data \in Snapshots /\ cacheFile[h].seq \in Nat
                       /\ crlFile[h].number \in Nat /\ db[h] \in Databases
  BY <1>2 DEF Caches, CRLs
<1>4. \A h \in Hosts : cacheFile[h].data.crlNumber \in Nat /\ db[h].crlNumber \in Nat
  BY <1>3 DEF Databases, Snapshots
<1> QED
  BY <1>1, <1>2, <1>3, <1>4, WholeTypes

\* Registration, with or without an enrollment.
LEMMA RegistrationPublishes ==
    ASSUME TypeOK, NEW c \in Hosts,
           \/ Serials \ minted # {} /\ EnrollAtMaster(c, FreshSerial)
           \/ RegisterAtMaster(c) /\ UNCHANGED minted
    PROVE  /\ \E d : Kept(d, db[Master(c)]) /\ Rebuilt(Master(c), d)
           /\ minted \subseteq minted' /\ minted' \subseteq Serials
<1> DEFINE m == Master(c)
<1>1. m \in Hosts /\ db[m] \in Databases /\ FileTypes /\ c \in IPs
  BY FileFacts DEF Hosts
<1>2. minted \subseteq Serials
  BY <1>1 DEF FileTypes
<1>3. CASE Serials \ minted # {} /\ EnrollAtMaster(c, FreshSerial)
  <2> DEFINE a == AddCert(db[m], FreshSerial, Identity(c))
             d == registerClient(a, c)
  <2>1. FreshSerial \in Serials /\ FreshSerial \notin minted /\ Identity(c) \in Subjects
    BY <1>1, <1>3, FreshTypes DEF Subjects
  <2>2. Adds(a, db[m], FreshSerial, Identity(c))
    BY <1>1, <2>1, AddTypes
  <2>3. a \in Databases
    BY <2>2 DEF Adds
  <2>4. Rebuild(m, d) /\ minted' = minted \cup {FreshSerial}
    BY <1>3 DEF EnrollAtMaster
  <2> HIDE DEF a, m
  <2>5. d \in Databases /\ Keeps(d, a)
    BY <1>1, <2>3, RegistryTypes
  <2> HIDE DEF d
  <2>6. Rebuilt(m, d)
    BY <1>1, <2>4, <2>5, RebuildKeeps
  <2>7. d.certs = a.certs /\ d.revoked = a.revoked /\ d.crlNumber = a.crlNumber
    BY <2>5 DEF Keeps, KeepsCerts
  <2>8. Kept(d, db[m])
    BY <2>1, <2>2, <2>4, <2>5, <2>7 DEF Adds, Kept
  <2> QED
    BY <1>2, <2>1, <2>4, <2>6, <2>8 DEF m
<1>4. CASE RegisterAtMaster(c) /\ UNCHANGED minted
  <2> DEFINE d == registerClient(db[m], c)
  <2>1. Rebuild(m, d) /\ minted' = minted
    BY <1>4 DEF RegisterAtMaster
  <2> HIDE DEF m
  <2>2. d \in Databases /\ Keeps(d, db[m])
    BY <1>1, RegistryTypes
  <2> HIDE DEF d
  <2>3. Rebuilt(m, d)
    BY <1>1, <2>1, <2>2, RebuildKeeps
  <2>4. Kept(d, db[m])
    BY <2>2 DEF Keeps, KeepsCerts, Kept
  <2> QED
    BY <1>2, <2>1, <2>3, <2>4 DEF m
<1> QED
  BY <1>3, <1>4


LEMMA PublishKinds ==
    ASSUME TypeOK, NEW c \in Hosts
    PROVE  /\ Enroll(c) \/ RegisterWithMaster(c) \/ AnswerLost(c) => Published(Master(c))
           /\ PublishRevocation(c) => Published(c)
           /\ \A h \in Hosts : ChangeRegistry(h, c) => Published(h)
<1>1. /\ \A h \in Hosts : db[h] \in Databases
      /\ FileTypes /\ c \in IPs
  BY FileFacts DEF Hosts
<1>2. minted \subseteq Serials
  BY <1>1 DEF FileTypes
<1>3. Enroll(c) \/ RegisterWithMaster(c) \/ AnswerLost(c) =>
        /\ \/ Serials \ minted # {} /\ EnrollAtMaster(c, FreshSerial)
           \/ RegisterAtMaster(c) /\ UNCHANGED minted
        /\ UNCHANGED <<crlFile, clock>>
  BY DEF Enroll, RegisterWithMaster, AnswerLost
<1>4. Enroll(c) \/ RegisterWithMaster(c) \/ AnswerLost(c) => Published(Master(c))
  <2> HAVE Enroll(c) \/ RegisterWithMaster(c) \/ AnswerLost(c)
  <2>1. /\ \E d : Kept(d, db[Master(c)]) /\ Rebuilt(Master(c), d)
        /\ minted \subseteq minted' /\ minted' \subseteq Serials
    BY <1>3, RegistrationPublishes
  <2> QED
    BY <1>3, <2>1 DEF Published
<1>5. ASSUME NEW h \in Hosts, NEW d \in Databases, Keeps(d, db[h]), Rebuild(h, d),
             UNCHANGED <<crlFile, clock, minted>>
      PROVE  Published(h)
  <2>1. Rebuilt(h, d)
    BY <1>1, <1>5, RebuildKeeps
  <2>2. Kept(d, db[h])
    BY <1>5 DEF Keeps, KeepsCerts, Kept
  <2> QED
    BY <1>2, <1>5, <2>1, <2>2 DEF Published
<1>6. PublishRevocation(c) => Published(c)
  BY <1>1, <1>5 DEF PublishRevocation, Keeps, KeepsCerts
<1>7. ASSUME NEW h \in Hosts, ChangeRegistry(h, c) PROVE Published(h)
  <2>1. /\ BlockIP(db[h], c) \in Databases /\ Keeps(BlockIP(db[h], c), db[h])
        /\ RemoveClient(db[h], c) \in Databases /\ Keeps(RemoveClient(db[h], c), db[h])
        /\ UnblockIP(db[h], c) \in Databases /\ Keeps(UnblockIP(db[h], c), db[h])
    BY <1>1, RegistryTypes
  <2>2. /\ RemoveClient(BlockIP(db[h], c), c) \in Databases
        /\ Keeps(RemoveClient(BlockIP(db[h], c), c), BlockIP(db[h], c))
    BY <1>1, <2>1, RegistryTypes
  <2>3. Keeps(RemoveClient(BlockIP(db[h], c), c), db[h])
    BY <2>1, <2>2 DEF Keeps, KeepsCerts
  <2>4. /\ UNCHANGED <<crlFile, clock, minted>>
        /\ \/ Rebuild(h, RemoveClient(db[h], c))
           \/ Rebuild(h, RemoveClient(BlockIP(db[h], c), c))
           \/ Rebuild(h, UnblockIP(db[h], c))
    BY <1>7 DEF ChangeRegistry
  <2>5. ASSUME Rebuild(h, RemoveClient(db[h], c)) PROVE Published(h)
    BY <1>5, <2>1, <2>4, <2>5
  <2>6. ASSUME Rebuild(h, RemoveClient(BlockIP(db[h], c), c)) PROVE Published(h)
    BY <1>5, <2>2, <2>3, <2>4, <2>6
  <2>7. ASSUME Rebuild(h, UnblockIP(db[h], c)) PROVE Published(h)
    BY <1>5, <2>1, <2>4, <2>7
  <2> QED
    BY <2>4, <2>5, <2>6, <2>7
<1> QED
  BY <1>4, <1>6, <1>7

\* A CRL from tables whose number the clock has reached.
LEMMA ListNumber ==
    ASSUME TypeOK, NEW d \in Databases, d.crlNumber <= clock
    PROVE  /\ CRLOf(d) \in CRLs /\ CRLOf(d).number = clock + 1
           /\ NumberCRL(d) \in Databases /\ KeepsCerts(NumberCRL(d), d)
           /\ NumberCRL(d).crlNumber = clock + 1
<1>1. clock \in Nat
  BY FileFacts
<1> QED
  BY <1>1, NumberTypes

\* A master that starts, also after a promotion, from the tables d.
LEMMA StartLists ==
    ASSUME TypeOK, NEW h \in Hosts, NEW d \in Databases, d.crlNumber <= clock,
           WriteCRL(h, d), Rebuild(h, NumberCRL(d)), UNCHANGED minted
    PROVE  /\ Lists(h, d) /\ Rebuilt(h, NumberCRL(d))
           /\ KeepsCerts(db'[h], d) /\ KeepsCerts(cacheFile'[h].data, d)
<1>1. FileTypes /\ crlFile \in [Hosts -> CRLs]
  BY FileFacts
<1>2. /\ CRLOf(d) \in CRLs /\ CRLOf(d).number = clock + 1
      /\ NumberCRL(d) \in Databases /\ KeepsCerts(NumberCRL(d), d)
      /\ NumberCRL(d).crlNumber = clock + 1
  BY ListNumber
<1>3. Rebuilt(h, NumberCRL(d))
  BY <1>1, <1>2, RebuildKeeps
<1>4. /\ crlFile' \in [Hosts -> CRLs] /\ clock' = clock + 1
      /\ \A g \in Hosts : crlFile'[g] = crlFile[g] \/ crlFile'[g] = CRLOf(d)
  BY <1>1, <1>2 DEF WriteCRL
<1>5. /\ Keeps(db'[h], NumberCRL(d)) /\ Keeps(cacheFile'[h].data, NumberCRL(d))
  BY <1>3 DEF Rebuilt
<1>6. /\ KeepsCerts(db'[h], d) /\ KeepsCerts(cacheFile'[h].data, d)
      /\ db'[h].crlNumber = clock + 1 /\ cacheFile'[h].data.crlNumber = clock + 1
  BY <1>2, <1>5 DEF Keeps, KeepsCerts
<1>7. Lists(h, d)
  BY <1>2, <1>3, <1>4, <1>6 DEF Lists, Rebuilt
<1> QED
  BY <1>3, <1>6, <1>7


\* --revoke records the serial, and then lists it.
LEMMA RevokeNotes ==
    ASSUME TypeInv, NEW m \in Hosts, NEW s \in Serials, Revoke(m, s)
    PROVE  LET d == RevokeCert(db[m], s, "unspecified") IN
           /\ d \in Databases /\ Revokes(d, db[m], s) /\ db' = [db EXCEPT ![m] = d]
           /\ Notes(m) /\ UNCHANGED cacheFile
<1> DEFINE d == RevokeCert(db[m], s, "unspecified")
<1>1. db[m] \in Databases /\ minted \subseteq Serials
  BY FileFacts DEF TypeInv, FileTypes
<1>2. /\ ~IsRevoked(db[m], s) /\ db' = [db EXCEPT ![m] = d] /\ minted' = minted \cup {s}
      /\ UNCHANGED <<cacheFile, crlFile, clock>>
  BY DEF Revoke
<1>3. Revokes(d, db[m], s)
  BY <1>1, <1>2, RevokeTypes
<1> HIDE DEF d
<1>4. d \in Databases /\ d.crlNumber = db[m].crlNumber
  BY <1>3 DEF Revokes
<1>5. Notes(m)
  BY <1>1, <1>2, <1>4 DEF Notes
<1> QED
  BY <1>2, <1>3, <1>4, <1>5 DEF d

LEMMA ListingLists ==
    ASSUME TypeInv, NEW m \in Hosts, ListRevocation(m)
    PROVE  Lists(m, db[m]) /\ UNCHANGED cacheFile
<1> DEFINE d == db[m]
<1>1. TypeOK /\ Numbered
  BY DEF TypeInv
<1>2. /\ db \in [Hosts -> Databases] /\ crlFile \in [Hosts -> CRLs]
      /\ cacheFile \in [Hosts -> Caches]
  BY <1>1, FileFacts
<1>3. /\ db' = [db EXCEPT ![m] = NumberCRL(d)]
      /\ clock' = clock + 1 /\ crlFile' = [crlFile EXCEPT ![m] = CRLOf(d)]
      /\ UNCHANGED <<cacheFile, minted>>
  BY DEF ListRevocation, WriteCRL
<1>5. d \in Databases /\ d.crlNumber <= clock
  BY <1>1, <1>2 DEF Numbered
<1> HIDE DEF d
<1>6. /\ CRLOf(d) \in CRLs /\ CRLOf(d).number = clock + 1
      /\ NumberCRL(d) \in Databases /\ KeepsCerts(NumberCRL(d), d)
      /\ NumberCRL(d).crlNumber = clock + 1
  BY <1>1, <1>5, ListNumber
<1>7. /\ crlFile' \in [Hosts -> CRLs]
      /\ \A h \in Hosts : crlFile'[h] = crlFile[h] \/ crlFile'[h] = CRLOf(d)
  BY <1>2, <1>3, <1>6
<1>8. /\ db' \in [Hosts -> Databases] /\ db'[m] = NumberCRL(d)
      /\ \A h \in Hosts : h # m => db'[h] = db[h]
  BY <1>2, <1>3, <1>6
<1>9. Lists(m, d)
  BY <1>2, <1>3, <1>6, <1>7, <1>8 DEF Lists
<1> QED
  BY <1>3, <1>9 DEF d

\* The files after a client has asked for the CRL.
LEMMA ServedFiles ==
    ASSUME NEW c \in Hosts, NEW m \in Hosts, NEW file \in CRLs, NEW taken,
           crlFile \in [Hosts -> CRLs],
           crlFile' = [crlFile EXCEPT ![m] = file, ![c] = IF taken THEN file ELSE @]
    PROVE  /\ crlFile' \in [Hosts -> CRLs]
           /\ \A h \in Hosts : crlFile'[h] = crlFile[h] \/ crlFile'[h] = file
  BY SMT, Z3

\* A CRL renewed for a client.
LEMMA RefreshLists ==
    ASSUME TypeInv, NEW c \in Hosts, ServeCRL(c, CRLOf(db[Master(c)])),
           db' = [db EXCEPT ![Master(c)] = NumberCRL(db[Master(c)])], clock' = clock + 1
    PROVE  Lists(Master(c), db[Master(c)])
<1> DEFINE m == Master(c)
           d == db[m]
<1>1. TypeOK /\ Numbered
  BY DEF TypeInv
<1>2. /\ db \in [Hosts -> Databases] /\ m \in Hosts /\ crlFile \in [Hosts -> CRLs]
      /\ cacheFile \in [Hosts -> Caches]
  BY <1>1, FileFacts
<1>3. UNCHANGED <<cacheFile, minted>> /\ db' = [db EXCEPT ![m] = NumberCRL(d)]
  BY DEF ServeCRL
<1>4. crlFile' = [crlFile EXCEPT ![m] = CRLOf(d),
                               ![c] = IF acceptsCRL(c, CRLOf(d)) THEN CRLOf(d) ELSE @]
  BY DEF ServeCRL
<1> HIDE DEF m
<1>5. d \in Databases /\ d.crlNumber <= clock
  BY <1>1, <1>2 DEF Numbered
<1> HIDE DEF d
<1>6. /\ CRLOf(d) \in CRLs /\ CRLOf(d).number = clock + 1
      /\ NumberCRL(d) \in Databases /\ KeepsCerts(NumberCRL(d), d)
      /\ NumberCRL(d).crlNumber = clock + 1
  BY <1>1, <1>5, ListNumber
<1>7. /\ crlFile' \in [Hosts -> CRLs]
      /\ \A h \in Hosts : crlFile'[h] = crlFile[h] \/ crlFile'[h] = CRLOf(d)
  BY <1>2, <1>4, <1>6, ServedFiles
<1>8. /\ db' \in [Hosts -> Databases] /\ db'[m] = NumberCRL(d)
      /\ \A h \in Hosts : h # m => db'[h] = db[h]
  BY <1>2, <1>3, <1>6
<1>9. Lists(m, d)
  BY <1>2, <1>3, <1>6, <1>7, <1>8 DEF Lists
<1> QED
  BY <1>9 DEF m, d

\* The tables a promotion restores.
LEMMA Restored ==
    ASSUME TypeInv, NEW c \in Hosts
    PROVE  LET d == RestoreSnapshot(db[c], cacheFile[c].data, cacheFile[c].seq) IN
           d \in Databases /\ KeepsCerts(d, cacheFile[c].data) /\ d.crlNumber <= clock
<1>1. TypeOK /\ Numbered
  BY DEF TypeInv
<1>2. /\ db[c] \in Databases /\ cacheFile[c].data \in Snapshots /\ cacheFile[c].seq \in Nat
      /\ clock \in Nat
  BY <1>1, FileFacts
<1>3. db[c].crlNumber <= clock /\ cacheFile[c].data.crlNumber <= clock
  BY <1>1 DEF Numbered
<1> QED
  BY <1>2, <1>3, RestoreTypes

\* The steps of a host that write nothing to the files of the network.
QuietStep(c) ==
    \/ RunClient(c) \/ Ping(c) \/ Sync(c) \/ fetchAndInstallRootCA(c) \/ WriteKey(c)
    \/ WriteCrt(c) \/ RequestFails(c) \/ Crash(c) \/ StopRevoke(c)
    \/ \E h \in Hosts : Redirect(c, h)

LEMMA QuietKinds == ASSUME NEW c \in Hosts, QuietStep(c) PROVE Quiet
<1>1. RunClient(c) \/ Ping(c) \/ Sync(c) => Quiet
  BY DEF RunClient, Ping, Sync, Quiet
<1>2. fetchAndInstallRootCA(c) \/ WriteKey(c) \/ WriteCrt(c) => Quiet
  BY DEF fetchAndInstallRootCA, WriteKey, WriteCrt, Quiet
<1>3. RequestFails(c) \/ Crash(c) \/ StopRevoke(c) => Quiet
  BY DEF RequestFails, Crash, StopRevoke, Quiet
<1>4. \A h \in Hosts : Redirect(c, h) => Quiet
  BY DEF Redirect, Quiet
<1> QED
  BY <1>1, <1>2, <1>3, <1>4 DEF QuietStep

LEMMA StepKinds == TypeInv /\ Next => FileStep
<1> SUFFICES ASSUME TypeInv, Next PROVE FileStep
  OBVIOUS
<1>t. TypeOK /\ Numbered
  BY DEF TypeInv
<1>f. \A h \in Hosts : Master(h) \in Hosts /\ db[h] \in Databases
  BY <1>t, FileFacts
<1>1. ASSUME NEW c \in Hosts, QuietStep(c) PROVE FileStep
  BY <1>1, QuietKinds DEF FileStep
<1>2. ASSUME NEW c \in Hosts, Enroll(c) \/ RegisterWithMaster(c) \/ AnswerLost(c) PROVE FileStep
  BY <1>2, <1>t, <1>f, PublishKinds DEF FileStep
<1>3. ASSUME NEW c \in Hosts, PublishRevocation(c) PROVE FileStep
  BY <1>3, <1>t, PublishKinds DEF FileStep
<1>4. ASSUME NEW c \in Hosts, NEW h \in Hosts, ChangeRegistry(h, c) PROVE FileStep
  BY <1>4, <1>t, PublishKinds DEF FileStep
<1>5. ASSUME NEW c \in Hosts, PullCache(c) PROVE FileStep
  <2>1. PullsCache(c, Master(c))
    BY <1>5 DEF PullCache, PullsCache
  <2> QED
    BY <1>f, <2>1 DEF FileStep
<1>6. ASSUME NEW c \in Hosts, PullCRL(c) PROVE FileStep
  <2>1. ASSUME ServeCRL(c, crlFile[Master(c)]), UNCHANGED <<db, clock, used>> PROVE FileStep
    <3>1. CASE acceptsCRL(c, crlFile[Master(c)])
      <4>1. PullsCRL(c, Master(c))
        BY <2>1, <3>1 DEF ServeCRL, PullsCRL
      <4> QED
        BY <1>f, <4>1 DEF FileStep
    <3>2. CASE ~acceptsCRL(c, crlFile[Master(c)])
      <4>1. crlFile \in [Hosts -> CRLs] /\ Master(c) \in Hosts
        BY <1>t, FileFacts
      <4>2. [crlFile EXCEPT ![Master(c)] = crlFile[Master(c)]] = crlFile
        BY <4>1
      <4>3. crlFile' = [crlFile EXCEPT ![c] = crlFile[c]]
        BY <2>1, <3>2, <4>2 DEF ServeCRL
      <4>4. crlFile' = crlFile
        BY <4>1, <4>3
      <4>5. Quiet
        BY <2>1, <4>4 DEF ServeCRL, Quiet
      <4> QED
        BY <4>5 DEF FileStep
    <3> QED
      BY <3>1, <3>2
  <2>2. ASSUME ServeCRL(c, CRLOf(db[Master(c)])), clock' = clock + 1,
               db' = [db EXCEPT ![Master(c)] = NumberCRL(db[Master(c)])]
        PROVE  FileStep
    <3>1. Lists(Master(c), db[Master(c)])
      BY <2>2, RefreshLists
    <3> QED
      BY <1>f, <3>1 DEF FileStep
  <2> QED
    BY <1>6, <2>1, <2>2 DEF PullCRL
<1>7. ASSUME NEW c \in Hosts, RunMaster(c) PROVE FileStep
  <2>1. db[c].crlNumber <= clock /\ WriteCRL(c, db[c]) /\ Rebuild(c, NumberCRL(db[c]))
        /\ UNCHANGED minted
    BY <1>7, <1>t DEF RunMaster, Numbered
  <2>2. Lists(c, db[c])
    BY <1>t, <1>f, <2>1, StartLists
  <2> QED
    BY <1>f, <2>2 DEF FileStep
<1>8. ASSUME NEW c \in Hosts, RunPromote(c) PROVE FileStep
  <2> DEFINE d == RestoreSnapshot(db[c], cacheFile[c].data, cacheFile[c].seq)
  <2>1. WriteCRL(c, d) /\ Rebuild(c, NumberCRL(d)) /\ UNCHANGED minted
    BY <1>8 DEF RunPromote
  <2>2. d \in Databases /\ d.crlNumber <= clock
    BY Restored
  <2> HIDE DEF d
  <2>3. Lists(c, d)
    BY <1>t, <2>1, <2>2, StartLists
  <2> QED
    BY <2>2, <2>3 DEF FileStep
<1>9. ASSUME NEW h \in Hosts, NEW s \in Serials, Revoke(h, s) PROVE FileStep
  <2>1. Notes(h)
    BY <1>9, RevokeNotes
  <2> QED
    BY <2>1 DEF FileStep
<1>10. ASSUME NEW c \in Hosts, ListRevocation(c) PROVE FileStep
  BY <1>f, <1>10, ListingLists DEF FileStep
<1> QED
  BY <1>1, <1>2, <1>3, <1>4, <1>5, <1>6, <1>7, <1>8, <1>9, <1>10 DEF Next, ClientStep, QuietStep


\* The next CRL's number is above every number in use.
LEMMA Above ==
    ASSUME clock \in Nat
    PROVE  /\ clock + 1 \in Nat /\ clock + 1 <= clock + 1
           /\ \A n \in Nat : n <= clock => n <= clock + 1 /\ n # clock + 1 /\ clock + 1 > n
  BY SMT, Z3

LEMMA FilesStep ==
    ASSUME TypeInv, FileStep
    PROVE  /\ FileTypes' /\ Numbered'
           /\ \A h \in Hosts :
                 /\ cacheFile'[h] # cacheFile[h] => cacheFile'[h].seq > cacheFile[h].seq
                 /\ crlFile'[h] # crlFile[h] => crlFile'[h].number > crlFile[h].number
<1> DEFINE Goal == /\ FileTypes' /\ Numbered'
                   /\ \A h \in Hosts :
                        /\ cacheFile'[h] # cacheFile[h] => cacheFile'[h].seq > cacheFile[h].seq
                        /\ crlFile'[h] # crlFile[h] => crlFile'[h].number > crlFile[h].number
<1>t. TypeOK /\ Numbered
  BY DEF TypeInv
<1>f. /\ FileTypes /\ clock \in Nat /\ db \in [Hosts -> Databases]
      /\ cacheFile \in [Hosts -> Caches] /\ crlFile \in [Hosts -> CRLs]
      /\ \A h \in Hosts : /\ cacheFile[h].seq \in Nat /\ cacheFile[h].data.crlNumber \in Nat
                          /\ crlFile[h].number \in Nat /\ db[h].crlNumber \in Nat
  BY <1>t, FileFacts
<1>1. ASSUME Quiet PROVE Goal
  <2>1. cacheFile' = cacheFile /\ crlFile' = crlFile /\ db' = db /\ clock' = clock /\ minted' = minted
    BY <1>1 DEF Quiet
  <2>2. FileTypes'
    BY <1>f, <2>1 DEF FileTypes
  <2>3. Numbered'
    BY <1>t, <2>1 DEF Numbered
  <2> QED
    BY <2>1, <2>2, <2>3
<1>2. ASSUME NEW m \in Hosts, Published(m) PROVE Goal
  <2>1. PICK d : Kept(d, db[m]) /\ Rebuilt(m, d)
    BY <1>2 DEF Published
  <2>2. crlFile' = crlFile /\ clock' = clock /\ minted' \in SUBSET Serials
    BY <1>2 DEF Published
  <2>3. /\ db' \in [Hosts -> Databases] /\ cacheFile' \in [Hosts -> Caches]
        /\ cacheFile'[m].seq > cacheFile[m].seq
        /\ \A g \in Hosts : g # m => db'[g] = db[g] /\ cacheFile'[g] = cacheFile[g]
    BY <2>1 DEF Rebuilt
  <2>4. db'[m].crlNumber = db[m].crlNumber /\ cacheFile'[m].data.crlNumber = db[m].crlNumber
    BY <2>1 DEF Rebuilt, Kept, Keeps
  <2>5. FileTypes'
    BY <1>f, <2>2, <2>3 DEF FileTypes
  <2>6. \A h \in Hosts : /\ crlFile'[h].number <= clock' /\ db'[h].crlNumber <= clock'
                         /\ cacheFile'[h].data.crlNumber <= clock'
    BY <1>t, <2>2, <2>3, <2>4 DEF Numbered
  <2>7. Numbered'
    BY <1>t, <2>2, <2>6 DEF Numbered
  <2> QED
    BY <2>2, <2>3, <2>5, <2>7
<1>3. ASSUME NEW c \in Hosts, NEW m \in Hosts, PullsCache(c, m) PROVE Goal
  <2>1. crlFile' = crlFile /\ db' = db /\ clock' = clock /\ minted' = minted
    BY <1>3 DEF PullsCache
  <2>2. /\ acceptCache(c, cacheFile[m]) \in {cacheFile[c], cacheFile[m]}
        /\ \/ acceptCache(c, cacheFile[m]) = cacheFile[c]
           \/ acceptCache(c, cacheFile[m]).seq > cacheFile[c].seq
    BY DEF acceptCache
  <2>3. /\ cacheFile' \in [Hosts -> Caches] /\ cacheFile'[c] = acceptCache(c, cacheFile[m])
        /\ \A g \in Hosts : g # c => cacheFile'[g] = cacheFile[g]
    BY <1>3, <1>f, <2>2 DEF PullsCache
  <2>4. FileTypes'
    BY <1>f, <2>1, <2>3 DEF FileTypes
  <2>5. \A h \in Hosts : cacheFile'[h].data.crlNumber <= clock
    BY <1>t, <2>2, <2>3 DEF Numbered
  <2>6. Numbered'
    BY <1>t, <2>1, <2>5 DEF Numbered
  <2> QED
    BY <2>1, <2>2, <2>3, <2>4, <2>6
<1>4. ASSUME NEW c \in Hosts, NEW m \in Hosts, PullsCRL(c, m) PROVE Goal
  <2>1. cacheFile' = cacheFile /\ db' = db /\ clock' = clock /\ minted' = minted
    BY <1>4 DEF PullsCRL
  <2>2. /\ crlFile' \in [Hosts -> CRLs] /\ crlFile'[c] = crlFile[m]
        /\ \A g \in Hosts : g # c => crlFile'[g] = crlFile[g]
    BY <1>4, <1>f DEF PullsCRL
  <2>3. FileTypes'
    BY <1>f, <2>1, <2>2 DEF FileTypes
  <2>4. \A h \in Hosts : \E g \in Hosts : crlFile'[h] = crlFile[g]
    BY <2>2
  <2>a. \A h \in Hosts : crlFile'[h].number <= clock
    BY <1>t, <2>4 DEF Numbered
  <2>b. \A g, h \in Hosts : crlFile'[g].number = crlFile'[h].number => crlFile'[g] = crlFile'[h]
    <3> SUFFICES ASSUME NEW g \in Hosts, NEW h \in Hosts, crlFile'[g].number = crlFile'[h].number
                 PROVE  crlFile'[g] = crlFile'[h]
      OBVIOUS
    <3>1. PICK i \in Hosts : crlFile'[g] = crlFile[i]
      BY <2>4
    <3>2. PICK j \in Hosts : crlFile'[h] = crlFile[j]
      BY <2>4
    <3>3. crlFile[i].number = crlFile[j].number
      BY <3>1, <3>2
    <3>4. crlFile[i] = crlFile[j]
      BY <1>t, <3>3 DEF Numbered
    <3> QED
      BY <3>1, <3>2, <3>4
  <2>5. Numbered'
    BY <1>t, <2>1, <2>a, <2>b DEF Numbered
  <2>6. crlFile[m].number >= crlFile[c].number
    BY <1>4 DEF PullsCRL, acceptsCRL
  <2>c. \A i, j \in Nat : i >= j => i > j \/ i = j
    BY SMT, Z3
  <2>7. crlFile[m].number > crlFile[c].number \/ crlFile[m].number = crlFile[c].number
    BY <1>f, <2>6, <2>c
  <2>8. crlFile[m] # crlFile[c] => crlFile[m].number > crlFile[c].number
    BY <1>t, <2>7 DEF Numbered
  <2> QED
    BY <2>1, <2>2, <2>3, <2>5, <2>8
<1>5. ASSUME NEW m \in Hosts, NEW d \in Databases, Lists(m, d) PROVE Goal
  <2>1. /\ clock' = clock + 1 /\ minted' = minted /\ crlFile' \in [Hosts -> CRLs]
        /\ db' \in [Hosts -> Databases] /\ cacheFile' \in [Hosts -> Caches]
    BY <1>5 DEF Lists
  <2>2. FileTypes'
    BY <1>f, <2>1, Above DEF FileTypes
  <2>3. CRLOf(d).number = clock + 1 /\ db'[m].crlNumber = clock + 1
    BY <1>5 DEF Lists
  <2>4. /\ \A h \in Hosts : crlFile'[h] = crlFile[h] \/ crlFile'[h] = CRLOf(d)
        /\ \A h \in Hosts : h # m => db'[h] = db[h]
    BY <1>5 DEF Lists
  <2>5. \A h \in Hosts : \/ cacheFile'[h] = cacheFile[h]
                         \/ /\ cacheFile'[h].seq > cacheFile[h].seq
                            /\ cacheFile'[h].data.crlNumber = clock + 1
    BY <1>5 DEF Lists
  <2>6. \A h \in Hosts : /\ crlFile[h].number # clock + 1 /\ crlFile[h].number <= clock + 1
                         /\ clock + 1 > crlFile[h].number
    BY <1>t, <1>f, Above DEF Numbered
  <2>7. \A h \in Hosts : crlFile'[h].number <= clock'
    <3>1. ASSUME NEW h \in Hosts PROVE crlFile'[h].number <= clock + 1
      <4>1. CASE crlFile'[h] = crlFile[h]
        BY <2>6, <4>1
      <4>2. CASE crlFile'[h] = CRLOf(d)
        BY <1>f, <2>3, <4>2, Above DEF FileTypes
      <4> QED
        BY <2>4, <4>1, <4>2
    <3> QED
      BY <2>1, <3>1
  <2>8. \A h \in Hosts : db'[h].crlNumber <= clock'
    <3>1. ASSUME NEW h \in Hosts PROVE db'[h].crlNumber <= clock + 1
      <4>1. CASE h = m
        BY <1>f, <2>3, <4>1, Above DEF FileTypes
      <4>2. CASE h # m
        BY <1>t, <1>f, <2>4, <4>2, Above DEF Numbered
      <4> QED
        BY <4>1, <4>2
    <3> QED
      BY <2>1, <3>1
  <2>9. \A h \in Hosts : cacheFile'[h].data.crlNumber <= clock'
    BY <1>t, <1>f, <2>1, <2>5, Above DEF Numbered
  <2>10. \A g, h \in Hosts : crlFile'[g].number = crlFile'[h].number => crlFile'[g] = crlFile'[h]
    <3> SUFFICES ASSUME NEW g \in Hosts, NEW h \in Hosts, crlFile'[g].number = crlFile'[h].number
                 PROVE  crlFile'[g] = crlFile'[h]
      OBVIOUS
    <3>1. CASE crlFile'[g] = crlFile[g] /\ crlFile'[h] = crlFile[h]
      BY <1>t, <3>1 DEF Numbered
    <3>2. CASE crlFile'[g] = CRLOf(d) /\ crlFile'[h] = crlFile[h]
      BY <2>3, <2>6, <3>2
    <3>3. CASE crlFile'[g] = crlFile[g] /\ crlFile'[h] = CRLOf(d)
      BY <2>3, <2>6, <3>3
    <3> QED
      BY <2>4, <3>1, <3>2, <3>3
  <2>11. Numbered'
    BY <2>7, <2>8, <2>9, <2>10 DEF Numbered
  <2>12. \A h \in Hosts : crlFile'[h] # crlFile[h] => crlFile'[h].number > crlFile[h].number
    BY <2>3, <2>4, <2>6
  <2> QED
    BY <2>2, <2>5, <2>11, <2>12
<1>a. ASSUME NEW m \in Hosts, Notes(m) PROVE Goal
  <2>1. PICK d \in Databases : d.crlNumber = db[m].crlNumber /\ db' = [db EXCEPT ![m] = d]
    BY <1>a DEF Notes
  <2>2. cacheFile' = cacheFile /\ crlFile' = crlFile /\ clock' = clock /\ minted' \in SUBSET Serials
    BY <1>a DEF Notes
  <2>3. db' \in [Hosts -> Databases] /\ db'[m] = d /\ \A h \in Hosts : h # m => db'[h] = db[h]
    BY <1>f, <2>1
  <2>4. FileTypes'
    BY <1>f, <2>2, <2>3 DEF FileTypes
  <2>5. \A h \in Hosts : db'[h].crlNumber <= clock
    BY <1>t, <2>1, <2>3 DEF Numbered
  <2>6. Numbered'
    BY <1>t, <2>2, <2>5 DEF Numbered
  <2> QED
    BY <2>2, <2>4, <2>6
<1> HIDE DEF Goal
<1>6. Goal
  BY <1>1, <1>2, <1>3, <1>4, <1>5, <1>a DEF FileStep
<1> QED
  BY <1>6 DEF Goal


LEMMA InitNumbered == Init => Numbered
<1> SUFFICES ASSUME Init PROVE Numbered
  OBVIOUS
<1>1. clock = 2 /\ 0 # 2 /\ 0 <= 2 /\ 2 <= 2
  BY SMT, Z3 DEF Init
<1>2. \A h \in Hosts : \/ h = Founder /\ crlFile[h] = [number |-> 2, revoked |-> {}]
                       \/ h # Founder /\ crlFile[h] = NoCRL
  BY DEF Init
<1>3. NoCRL.number = 0 /\ [number |-> 2, revoked |-> {}].number = 2
  BY DEF NoCRL
<1>4. \A h \in Hosts : crlFile[h].number <= clock
  BY <1>1, <1>2, <1>3
<1>5. \A g, h \in Hosts : crlFile[g].number = crlFile[h].number => crlFile[g] = crlFile[h]
  BY <1>1, <1>2, <1>3
<1>6. \A h \in Hosts : db[h].crlNumber <= clock
  BY <1>1, FounderTypes, MigrateTypes DEF Init
<1>7. /\ BuildSnapshot(FounderDB).crlNumber = 2 /\ BuildSnapshot(migrate).crlNumber = 0
  BY FounderTypes, MigrateTypes, SnapshotTypes DEF Keeps
<1>8. cacheFile[Founder].data = BuildSnapshot(FounderDB)
  BY Given DEF Init
<1>9. \A h \in Hosts : h # Founder => cacheFile[h].data = BuildSnapshot(migrate)
  BY NoFileTypes DEF Init
<1>10. \A h \in Hosts : cacheFile[h].data.crlNumber <= clock
  BY <1>1, <1>7, <1>8, <1>9
<1> QED
  BY <1>4, <1>5, <1>6, <1>10 DEF Numbered

LEMMA NextTypes == TypeInv /\ Next => TypeInv'
<1> SUFFICES ASSUME TypeInv, Next PROVE TypeInv'
  OBVIOUS
<1>1. FileTypes' /\ Numbered'
  BY StepKinds, FilesStep
<1>2. HostTypes' /\ GhostTypes'
  BY HostStep, GhostStep DEF TypeInv
<1>3. TypeOK'
  BY <1>1, <1>2 DEF TypeOK, FileTypes, HostTypes, GhostTypes, Config, Pairs, Caches, CRLs,
                    Locals, Bounds
<1> QED
  BY <1>1, <1>3 DEF TypeInv

LEMMA StutterTypes == TypeInv /\ UNCHANGED vars => TypeInv'
<1> SUFFICES ASSUME TypeInv, UNCHANGED vars PROVE TypeInv'
  OBVIOUS
<1>1. /\ cacheFile' = cacheFile /\ crlFile' = crlFile /\ db' = db /\ clock' = clock
      /\ minted' = minted /\ config' = config /\ root' = root /\ identity' = identity
      /\ epoch' = epoch /\ pc' = pc /\ loc' = loc /\ registered' = registered
      /\ pending' = pending /\ listed' = listed /\ acked' = acked /\ synced' = synced
      /\ used' = used
  BY DEF vars
<1>2. TypeOK'
  BY <1>1 DEF TypeInv, TypeOK
<1>3. Numbered'
  BY <1>1 DEF TypeInv, Numbered
<1> QED
  BY <1>2, <1>3 DEF TypeInv

LEMMA TypeInvariant == Spec => []TypeInv
<1>1. Init => TypeInv
  BY InitTypes, InitNumbered DEF TypeInv
<1>2. TypeInv /\ [Next]_vars => TypeInv'
  BY NextTypes, StutterTypes
<1> QED
  BY <1>1, <1>2, PTL DEF Spec

\* In every state of a network, with any number of crashes, losses and
\* promotions, the files, tables and processes are what Replication says
\* they are.
THEOREM TypeCorrect == Spec => []TypeOK
<1>1. TypeInv => TypeOK
  BY DEF TypeInv
<1> QED
  BY <1>1, TypeInvariant, PTL

\* No file of a host is ever replaced by an older one or by another one of
\* its number, however often the network changes its master: the numbers of
\* acceptCache, acceptCRL, RestoreSnapshot, RebuildEncryptedCache and
\* nextCRLNumber.
THEOREM FilesOnlyMoveForward == Spec => FilesMoveForward
<1> DEFINE Forward == \A h \in Hosts :
              /\ cacheFile'[h] # cacheFile[h] => cacheFile'[h].seq > cacheFile[h].seq
              /\ crlFile'[h] # crlFile[h] => crlFile'[h].number > crlFile[h].number
<1>1. TypeInv /\ [Next]_vars => [Forward]_vars
  <2> SUFFICES ASSUME TypeInv, Next PROVE Forward
    OBVIOUS
  <2> QED
    BY StepKinds, FilesStep
<1> QED
  BY <1>1, TypeInvariant, PTL DEF Spec, FilesMoveForward


-----------------------------------------------------------------------------
(* How the tables of a host evolve, unless it is promoted *)

Evolves(h) ==
    /\ RevokedSerials(db[h]) \subseteq RevokedSerials(db'[h])
    /\ \A x \in db[h].certs : x.serial \in minted => x \in db'[h].certs
    /\ \A x \in db'[h].certs : x \in db[h].certs \/ x.serial \in minted'

LEMMA SameEvolves ==
    ASSUME NEW h \in Hosts, KeepsCerts(db'[h], db[h])
    PROVE  Evolves(h)
<1>1. RevokedSerials(db'[h]) = RevokedSerials(db[h]) /\ db'[h].certs = db[h].certs
  BY SameRevoked DEF KeepsCerts
<1> QED
  BY <1>1 DEF Evolves

LEMMA PublishedEvolves ==
    ASSUME NEW m \in Hosts, Published(m), NEW h \in Hosts
    PROVE  /\ Evolves(h)
           /\ RevokedSerials(db'[h]) = RevokedSerials(db[h])
           /\ RevokedSerials(cacheFile'[m].data) = RevokedSerials(db[m])
           /\ cacheFile'[m].seq > cacheFile[m].seq
           /\ h # m => cacheFile'[h] = cacheFile[h]
<1>1. PICK d : Kept(d, db[m]) /\ Rebuilt(m, d)
  BY DEF Published
<1>2. /\ KeepsCerts(db'[m], d) /\ KeepsCerts(cacheFile'[m].data, d)
      /\ cacheFile'[m].seq > cacheFile[m].seq
      /\ \A g \in Hosts : g # m => db'[g] = db[g] /\ cacheFile'[g] = cacheFile[g]
  BY <1>1 DEF Rebuilt, Keeps
<1>3. RevokedSerials(d) = RevokedSerials(db[m])
  BY <1>1 DEF Kept, RevokedSerials
<1>4. /\ RevokedSerials(db'[m]) = RevokedSerials(d)
      /\ RevokedSerials(cacheFile'[m].data) = RevokedSerials(d)
  BY <1>2, SameRevoked
<1>5. Evolves(m)
  <2>1. db'[m].certs = d.certs
    BY <1>2 DEF KeepsCerts
  <2> QED
    BY <1>1, <1>3, <1>4, <2>1 DEF Kept, Evolves
<1>6. CASE h = m
  BY <1>2, <1>3, <1>4, <1>5, <1>6
<1>7. CASE h # m
  <2>1. db'[h] = db[h]
    BY <1>2, <1>7
  <2>2. Evolves(h)
    BY <2>1, SameEvolves DEF KeepsCerts
  <2> QED
    BY <1>2, <1>3, <1>4, <1>7, <2>1, <2>2
<1> QED
  BY <1>6, <1>7

LEMMA ListsEvolves ==
    ASSUME NEW m \in Hosts, Lists(m, db[m]), NEW h \in Hosts
    PROVE  Evolves(h) /\ RevokedSerials(db'[h]) = RevokedSerials(db[h])
<1>1. KeepsCerts(db'[h], db[h])
  BY DEF Lists, KeepsCerts
<1> QED
  BY <1>1, SameEvolves, SameRevoked

LEMMA RevokeEvolves ==
    ASSUME TypeInv, NEW m \in Hosts, NEW s \in Serials, Revoke(m, s), NEW h \in Hosts
    PROVE  /\ Evolves(h) /\ s \in RevokedSerials(db'[m])
           /\ cacheFile' = cacheFile /\ minted \subseteq minted'
<1> DEFINE d == RevokeCert(db[m], s, "unspecified")
<1>1. /\ d \in Databases /\ Revokes(d, db[m], s) /\ db' = [db EXCEPT ![m] = d]
      /\ Notes(m) /\ cacheFile' = cacheFile
  BY RevokeNotes
<1> HIDE DEF d
<1>2. db \in [Hosts -> Databases] /\ minted \subseteq minted'
  BY <1>1, FileFacts DEF TypeInv, Notes
<1>3. db'[m] = d /\ \A g \in Hosts : g # m => db'[g] = db[g]
  BY <1>1, <1>2
<1>4. RevokedSerials(db'[m]) = RevokedSerials(db[m]) \cup {s} /\ db'[m].certs = db[m].certs
  BY <1>1, <1>3 DEF Revokes
<1>5. Evolves(m)
  BY <1>4 DEF Evolves
<1>6. h # m => Evolves(h)
  BY <1>3, SameEvolves DEF KeepsCerts
<1> QED
  BY <1>1, <1>2, <1>4, <1>5, <1>6

LEMMA RestartLists ==
    ASSUME TypeInv, NEW c \in Hosts, RunMaster(c)
    PROVE  /\ Lists(c, db[c]) /\ Rebuilt(c, NumberCRL(db[c]))
           /\ KeepsCerts(db'[c], db[c]) /\ KeepsCerts(cacheFile'[c].data, db[c])
<1>1. TypeOK /\ Numbered
  BY DEF TypeInv
<1>2. db[c] \in Databases
  BY <1>1, FileFacts
<1>3. /\ db[c].crlNumber <= clock /\ WriteCRL(c, db[c]) /\ Rebuild(c, NumberCRL(db[c]))
      /\ UNCHANGED minted
  BY <1>1 DEF RunMaster, Numbered
<1> QED
  BY <1>1, <1>2, <1>3, StartLists

LEMMA PullCRLKinds ==
    ASSUME TypeInv, NEW c \in Hosts, PullCRL(c), NEW h \in Hosts
    PROVE  /\ Evolves(h) /\ RevokedSerials(db'[h]) = RevokedSerials(db[h])
           /\ cacheFile' = cacheFile /\ minted' = minted
           /\ \E file : ServeCRL(c, file)
<1>1. PICK file : ServeCRL(c, file)
  BY DEF PullCRL
<1>2. cacheFile' = cacheFile /\ minted' = minted
  BY <1>1 DEF ServeCRL
<1>3. Master(c) \in Hosts
  BY FileFacts DEF TypeInv
<1>4. db' = db \/ Lists(Master(c), db[Master(c)])
  BY RefreshLists DEF PullCRL
<1>5. Evolves(h) /\ RevokedSerials(db'[h]) = RevokedSerials(db[h])
  BY <1>3, <1>4, ListsEvolves, SameEvolves DEF KeepsCerts
<1> QED
  BY <1>1, <1>2, <1>5

LEMMA Evolution ==
    ASSUME TypeInv, Next, \A c \in Hosts : ~RunPromote(c), NEW h \in Hosts
    PROVE  Evolves(h) /\ minted \subseteq minted'
<1> DEFINE Goal == Evolves(h) /\ minted \subseteq minted'
<1>t. TypeOK
  BY DEF TypeInv
<1>m. \A c \in Hosts : Master(c) \in Hosts
  BY <1>t, FileFacts
<1>1. ASSUME NEW c \in Hosts, QuietStep(c) PROVE Goal
  <2>1. db' = db /\ minted' = minted
    BY <1>1, QuietKinds DEF Quiet
  <2> QED
    BY <2>1, SameEvolves DEF KeepsCerts
<1>2. ASSUME NEW m \in Hosts, Published(m) PROVE Goal
  BY <1>2, PublishedEvolves DEF Published
<1>3. ASSUME NEW c \in Hosts, Enroll(c) \/ RegisterWithMaster(c) \/ AnswerLost(c) PROVE Goal
  BY <1>2, <1>3, <1>t, <1>m, PublishKinds
<1>4. ASSUME NEW c \in Hosts, PublishRevocation(c) PROVE Goal
  BY <1>2, <1>4, <1>t, PublishKinds
<1>5. ASSUME NEW c \in Hosts, NEW g \in Hosts, ChangeRegistry(g, c) PROVE Goal
  BY <1>2, <1>5, <1>t, PublishKinds
<1>6. ASSUME NEW c \in Hosts, PullCache(c) PROVE Goal
  <2>1. db' = db /\ minted' = minted
    BY <1>6 DEF PullCache
  <2> QED
    BY <2>1, SameEvolves DEF KeepsCerts
<1>7. ASSUME NEW c \in Hosts, PullCRL(c) PROVE Goal
  BY <1>7, PullCRLKinds
<1>8. ASSUME NEW c \in Hosts, RunMaster(c) PROVE Goal
  BY <1>8, RestartLists, ListsEvolves DEF Lists
<1>9. ASSUME NEW g \in Hosts, NEW s \in Serials, Revoke(g, s) PROVE Goal
  BY <1>9, RevokeEvolves
<1>10. ASSUME NEW c \in Hosts, ListRevocation(c) PROVE Goal
  BY <1>10, ListingLists, ListsEvolves DEF Lists
<1> HIDE DEF Goal
<1>11. Goal
  BY <1>1, <1>3, <1>4, <1>5, <1>6, <1>7, <1>8, <1>9, <1>10 DEF Next, ClientStep, QuietStep
<1> QED
  BY <1>11 DEF Goal


-----------------------------------------------------------------------------
(* Who is a master *)

\* A host serves only as a master and asks only as a client; a revocation
\* that is being published is in the tables of the master that publishes it.
Roles ==
    \A h \in Hosts : /\ pc[h] = "serving" => ~IsClient(h)
                     /\ pc[h] \notin {"off", "serving"} => IsClient(h)
                     /\ pending[h] # None => ~IsClient(h) /\ pending[h] \in RevokedSerials(db[h])

\* Before the first promotion the founder is the master of every host.
Alone ==
    used.promotions = 0 =>
        \A h \in Hosts : epoch[h] = 0 /\ Master(h) = Founder /\ (IsClient(h) <=> h # Founder)

\* What a step other than a promotion does to the roles.
RoleStep ==
    /\ \A h \in Hosts : \/ pc'[h] = pc[h] \/ pc'[h] = "off"
                        \/ IsClient(h) /\ pc'[h] # "serving"
                        \/ ~IsClient(h) /\ pc'[h] = "serving"
    /\ \A h \in Hosts : \/ pending'[h] = pending[h] \/ pending'[h] = None
                        \/ ~IsClient(h) /\ pending'[h] \in RevokedSerials(db'[h])
    /\ used'.promotions = used.promotions
    /\ \/ UNCHANGED <<config, epoch>>
       \/ \E c, h \in Hosts : /\ epoch[h] > epoch[Master(c)] /\ UNCHANGED epoch
                              /\ config' = [config EXCEPT ![c].master = h]

\* The steps that a client takes on its own or with its master.
LEMMA ClientPc ==
    ASSUME TypeOK, NEW c \in Hosts, NEW step, Goto(c, step),
           \/ step = "off"
           \/ IsClient(c) /\ step # "serving"
           \/ ~IsClient(c) /\ step = "serving"
    PROVE  \A h \in Hosts : \/ pc'[h] = pc[h] \/ pc'[h] = "off"
                            \/ IsClient(h) /\ pc'[h] # "serving"
                            \/ ~IsClient(h) /\ pc'[h] = "serving"
<1>1. pc \in [Hosts -> Steps]
  BY TypeParts DEF HostTypes
<1>2. pc'[c] = step /\ \A h \in Hosts : h # c => pc'[h] = pc[h]
  BY <1>1 DEF Goto
<1> QED
  BY <1>2

\* Where the steps of a client lead.
ClientGoto(c) == \E step : Goto(c, step) /\ step # "serving"

LEMMA ClientSteps ==
    ASSUME NEW c \in Hosts
    PROVE  /\ RunClient(c) \/ Ping(c) \/ Sync(c) => ClientGoto(c)
           /\ fetchAndInstallRootCA(c) \/ WriteKey(c) \/ WriteCrt(c) => ClientGoto(c)
           /\ Enroll(c) \/ RegisterWithMaster(c) \/ AnswerLost(c) => ClientGoto(c)
           /\ PullCache(c) \/ PullCRL(c) \/ RequestFails(c) => ClientGoto(c)
           /\ \A h \in Hosts : Redirect(c, h) => ClientGoto(c)
<1> DEFINE Asks == {"root", "enroll", "register", "write_key", "write_crt", "idle", "pull_cache", "pull_crl"}
<1>g. ASSUME NEW step \in Asks, Goto(c, step) PROVE ClientGoto(c)
  <2>1. step # "serving"
    OBVIOUS
  <2> QED
    BY <1>g, <2>1 DEF ClientGoto
<1>a. /\ "root" \in Asks /\ "enroll" \in Asks /\ "register" \in Asks /\ "write_key" \in Asks
      /\ "write_crt" \in Asks /\ "idle" \in Asks /\ "pull_cache" \in Asks /\ "pull_crl" \in Asks
  OBVIOUS
<1> HIDE DEF Asks
<1>1. AfterRegister(c) \in Asks
  BY <1>a DEF AfterRegister
<1>2. Register(c) => ClientGoto(c)
  <2> DEFINE step == IF ~root[c] THEN "root" ELSE IF PairLoads(c) THEN "register" ELSE "enroll"
  <2>1. step \in Asks
    BY <1>a
  <2>2. Register(c) => Goto(c, step)
    BY DEF Register
  <2> HIDE DEF step
  <2> QED
    BY <1>g, <2>1, <2>2
<1>3. RunClient(c) \/ Ping(c) \/ Sync(c) => ClientGoto(c)
  BY <1>a, <1>g, <1>2 DEF RunClient, Ping, Sync
<1>4. fetchAndInstallRootCA(c) => ClientGoto(c)
  <2> DEFINE step == IF PairLoads(c) THEN "register" ELSE "enroll"
  <2>1. step \in Asks
    BY <1>a
  <2>2. fetchAndInstallRootCA(c) => Goto(c, step)
    BY DEF fetchAndInstallRootCA
  <2> HIDE DEF step
  <2> QED
    BY <1>g, <2>1, <2>2
<1>5. WriteKey(c) \/ WriteCrt(c) => ClientGoto(c)
  BY <1>a, <1>g DEF WriteKey, WriteCrt
<1>6. Enroll(c) \/ RegisterWithMaster(c) \/ AnswerLost(c) => ClientGoto(c)
  BY <1>a, <1>g, <1>1 DEF Enroll, RegisterWithMaster, AnswerLost
<1>7. PullCache(c) => ClientGoto(c)
  BY <1>a, <1>g DEF PullCache
<1>8. PullCRL(c) => ClientGoto(c)
  BY <1>a, <1>g DEF PullCRL, ServeCRL
<1>9. RequestFails(c) => ClientGoto(c)
  <2> DEFINE step == IF pc[c] \in {"pull_cache", "pull_crl"} THEN "idle" ELSE AfterRegister(c)
  <2>1. step \in Asks
    BY <1>a, <1>1
  <2>2. RequestFails(c) => Goto(c, step)
    BY DEF RequestFails
  <2> HIDE DEF step
  <2> QED
    BY <1>g, <2>1, <2>2
<1>10. \A h \in Hosts : Redirect(c, h) => ClientGoto(c)
  BY <1>2 DEF Redirect
<1> QED
  BY <1>3, <1>4, <1>5, <1>6, <1>7, <1>8, <1>9, <1>10

\* ... and where they start.
LEMMA Asking ==
    ASSUME Roles, NEW c \in Hosts
    PROVE  /\ RunClient(c) \/ Ping(c) \/ Sync(c) => IsClient(c)
           /\ fetchAndInstallRootCA(c) \/ WriteKey(c) \/ WriteCrt(c) => IsClient(c)
           /\ Enroll(c) \/ RegisterWithMaster(c) \/ AnswerLost(c) => IsClient(c)
           /\ PullCache(c) \/ PullCRL(c) \/ RequestFails(c) => IsClient(c)
           /\ \A h \in Hosts : Redirect(c, h) => IsClient(c)
<1>1. pc[c] \in {"idle", "root", "enroll", "write_key", "write_crt", "register", "pull_cache", "pull_crl"}
        => IsClient(c)
  BY DEF Roles
<1>2. RunClient(c) \/ Ping(c) \/ Sync(c) => IsClient(c)
  BY <1>1 DEF RunClient, Ping, Sync, IsClient
<1>3. fetchAndInstallRootCA(c) \/ WriteKey(c) \/ WriteCrt(c) => IsClient(c)
  BY <1>1 DEF fetchAndInstallRootCA, WriteKey, WriteCrt
<1>4. Enroll(c) \/ RegisterWithMaster(c) \/ AnswerLost(c) => IsClient(c)
  BY <1>1 DEF Enroll, EnrollAtMaster, RegisterWithMaster, AnswerLost
<1>5. PullCache(c) \/ PullCRL(c) \/ RequestFails(c) => IsClient(c)
  BY <1>1 DEF PullCache, PullCRL, ServeCRL, RequestFails, Requests
<1>6. \A h \in Hosts : Redirect(c, h) => IsClient(c)
  BY <1>1 DEF Redirect
<1> QED
  BY <1>2, <1>3, <1>4, <1>5, <1>6


LEMMA RoleSteps ==
    ASSUME TypeInv, Roles, Next, \A c \in Hosts : ~RunPromote(c)
    PROVE  RoleStep
<1> DEFINE PcStep == \A h \in Hosts : \/ pc'[h] = pc[h] \/ pc'[h] = "off"
                                      \/ IsClient(h) /\ pc'[h] # "serving"
                                      \/ ~IsClient(h) /\ pc'[h] = "serving"
           Rest == /\ \A h \in Hosts : pending'[h] = pending[h] \/ pending'[h] = None
                   /\ used'.promotions = used.promotions /\ UNCHANGED <<config, epoch>>
<1>t. TypeOK
  BY DEF TypeInv
<1>p. pending \in [Hosts -> Serials \cup {None}] /\ used \in Bounds
  BY <1>t, TypeParts DEF GhostTypes
<1>u. /\ [used EXCEPT !.crashes = @ + 1].promotions = used.promotions
      /\ [used EXCEPT !.losses = @ + 1].promotions = used.promotions
      /\ [used EXCEPT !.admin = @ + 1].promotions = used.promotions
      /\ [used EXCEPT !.refreshes = @ + 1].promotions = used.promotions
      /\ [used EXCEPT !.revocations = @ + 1].promotions = used.promotions
  BY <1>p DEF Bounds
<1>c. ASSUME NEW c \in Hosts, IsClient(c), ClientGoto(c) PROVE PcStep
  BY <1>c, <1>t, ClientPc DEF ClientGoto
<1>r. PcStep /\ Rest => RoleStep
  BY DEF RoleStep
<1>1. ASSUME NEW c \in Hosts, RunClient(c) \/ Ping(c) \/ Sync(c) PROVE RoleStep
  <2>1. PcStep
    BY <1>1, <1>c, ClientSteps, Asking
  <2>2. Rest
    BY <1>1 DEF RunClient, Ping, Sync
  <2> QED
    BY <1>r, <2>1, <2>2
<1>2. ASSUME NEW c \in Hosts, fetchAndInstallRootCA(c) \/ WriteKey(c) \/ WriteCrt(c) PROVE RoleStep
  <2>1. PcStep
    BY <1>2, <1>c, ClientSteps, Asking
  <2>2. Rest
    BY <1>2 DEF fetchAndInstallRootCA, WriteKey, WriteCrt
  <2> QED
    BY <1>r, <2>1, <2>2
<1>3. ASSUME NEW c \in Hosts, Enroll(c) \/ RegisterWithMaster(c) \/ AnswerLost(c) PROVE RoleStep
  <2>1. PcStep
    BY <1>3, <1>c, ClientSteps, Asking
  <2>2. Rest
    BY <1>3, <1>u DEF Enroll, RegisterWithMaster, AnswerLost
  <2> QED
    BY <1>r, <2>1, <2>2
<1>4. ASSUME NEW c \in Hosts, PullCache(c) \/ PullCRL(c) \/ RequestFails(c) PROVE RoleStep
  <2>1. PcStep
    BY <1>4, <1>c, ClientSteps, Asking
  <2>2. Rest
    BY <1>4, <1>u DEF PullCache, PullCRL, ServeCRL, RequestFails
  <2> QED
    BY <1>r, <2>1, <2>2
<1>5. ASSUME NEW c \in Hosts, NEW h \in Hosts, Redirect(c, h) PROVE RoleStep
  <2>1. PcStep
    BY <1>5, <1>c, ClientSteps, Asking
  <2>2. /\ pending' = pending /\ used' = used /\ epoch' = epoch
        /\ epoch[h] > epoch[Master(c)] /\ config' = [config EXCEPT ![c].master = h]
    BY <1>5 DEF Redirect
  <2> QED
    BY <2>1, <2>2 DEF RoleStep
<1>6. ASSUME NEW c \in Hosts, Crash(c) PROVE RoleStep
  <2>1. PcStep
    BY <1>6, <1>t, ClientPc DEF Crash
  <2>2. Rest
    BY <1>6, <1>p, <1>u DEF Crash
  <2> QED
    BY <1>r, <2>1, <2>2
<1>7. ASSUME NEW c \in Hosts, RunMaster(c) PROVE RoleStep
  <2>1. ~IsClient(c) /\ Goto(c, "serving")
    BY <1>7 DEF RunMaster, IsClient
  <2>2. PcStep
    BY <1>t, <2>1, ClientPc
  <2>3. Rest
    BY <1>7 DEF RunMaster
  <2> QED
    BY <1>r, <2>2, <2>3
<1>8. ASSUME NEW c \in Hosts, ListRevocation(c) \/ PublishRevocation(c) \/ StopRevoke(c)
      PROVE  RoleStep
  <2>1. pc' = pc
    BY <1>8 DEF ListRevocation, PublishRevocation, StopRevoke
  <2>2. Rest
    BY <1>8, <1>p, <1>u DEF ListRevocation, PublishRevocation, StopRevoke
  <2> QED
    BY <1>r, <2>1, <2>2
<1>9. ASSUME NEW c \in Hosts, NEW h \in Hosts, ChangeRegistry(h, c) PROVE RoleStep
  <2>1. pc' = pc
    BY <1>9 DEF ChangeRegistry
  <2>2. Rest
    BY <1>9, <1>u DEF ChangeRegistry
  <2> QED
    BY <1>r, <2>1, <2>2
<1>10. ASSUME NEW h \in Hosts, NEW s \in Serials, Revoke(h, s) PROVE RoleStep
  <2>1. /\ pc' = pc /\ pending' = [pending EXCEPT ![h] = s]
        /\ used'.promotions = used.promotions
        /\ config' = config /\ epoch' = epoch /\ pc[h] = "serving"
    BY <1>10, <1>u DEF Revoke, Serving
  <2>2. ~IsClient(h)
    BY <2>1 DEF Roles
  <2>3. s \in RevokedSerials(db'[h])
    BY <1>10, RevokeEvolves
  <2>4. pending'[h] = s /\ \A g \in Hosts : g # h => pending'[g] = pending[g]
    BY <1>p, <2>1
  <2> QED
    BY <2>1, <2>2, <2>3, <2>4 DEF RoleStep
<1> HIDE DEF PcStep, Rest
<1> QED
  BY <1>1, <1>2, <1>3, <1>4, <1>5, <1>6, <1>7, <1>8, <1>9, <1>10 DEF Next, ClientStep

LEMMA PromoteFacts ==
    ASSUME TypeInv, NEW c \in Hosts, RunPromote(c)
    PROVE  /\ IsClient(c) /\ used.promotions \in Nat /\ used'.promotions = used.promotions + 1
           /\ used'.promotions # 0
           /\ config'[c].mode = "master" /\ pc'[c] = "off" /\ pending' = pending
           /\ \A h \in Hosts : h # c => /\ config'[h] = config[h] /\ pc'[h] = pc[h]
                                        /\ db'[h] = db[h] /\ acked'[h] = acked[h]
           /\ acked'[c] = synced[c]
           /\ RevokedSerials(db'[c]) = RevokedSerials(cacheFile[c].data)
<1>t. TypeOK /\ HostTypes /\ GhostTypes
  BY TypeParts DEF TypeInv
<1>u. /\ used \in Bounds /\ acked \in [Hosts -> SUBSET Serials]
      /\ config \in [Hosts -> Config] /\ pc \in [Hosts -> Steps]
  BY <1>t DEF HostTypes, GhostTypes
<1>1. used.promotions \in Nat /\ used' = [used EXCEPT !.promotions = @ + 1]
  BY <1>u DEF RunPromote, Bounds
<1>2. used'.promotions = used.promotions + 1
  BY <1>1, <1>u DEF Bounds
<1>3. \A n \in Nat : n + 1 # 0
  BY SMT, Z3
<1>4. /\ config' = [config EXCEPT ![c] = [mode |-> "master", master |-> c]]
      /\ pc' = [pc EXCEPT ![c] = "off"] /\ acked' = [acked EXCEPT ![c] = synced[c]]
      /\ pending' = pending /\ IsClient(c)
  BY DEF RunPromote, Goto, IsClient
<1>5. /\ config'[c].mode = "master" /\ pc'[c] = "off" /\ acked'[c] = synced[c]
      /\ \A h \in Hosts : h # c => config'[h] = config[h] /\ pc'[h] = pc[h] /\ acked'[h] = acked[h]
  BY <1>u, <1>4
<1> DEFINE d == RestoreSnapshot(db[c], cacheFile[c].data, cacheFile[c].seq)
<1>6. WriteCRL(c, d) /\ Rebuild(c, NumberCRL(d)) /\ UNCHANGED minted
  BY DEF RunPromote
<1>7. d \in Databases /\ d.crlNumber <= clock /\ KeepsCerts(d, cacheFile[c].data)
  BY Restored
<1> HIDE DEF d
<1>8. Rebuilt(c, NumberCRL(d)) /\ KeepsCerts(db'[c], d)
  BY <1>t, <1>6, <1>7, StartLists
<1>9. RevokedSerials(db'[c]) = RevokedSerials(cacheFile[c].data)
  BY <1>7, <1>8, SameRevoked
<1>10. \A h \in Hosts : h # c => db'[h] = db[h]
  BY <1>8 DEF Rebuilt
<1>11. used'.promotions # 0
  BY <1>1, <1>2, <1>3
<1> QED
  BY <1>1, <1>2, <1>4, <1>5, <1>9, <1>10, <1>11


\* The mode of a host changes only when it is promoted.
LEMMA ModesStay ==
    ASSUME TypeInv, RoleStep
    PROVE  \A h \in Hosts : config'[h].mode = config[h].mode
<1>1. config \in [Hosts -> Config]
  BY TypeParts DEF TypeInv, HostTypes
<1>2. ASSUME NEW c \in Hosts, NEW g \in Hosts, config' = [config EXCEPT ![c].master = g]
      PROVE  \A h \in Hosts : config'[h].mode = config[h].mode
  BY <1>1, <1>2, SMT, Z3 DEF Config
<1>3. UNCHANGED config => \A h \in Hosts : config'[h].mode = config[h].mode
  OBVIOUS
<1> QED
  BY <1>2, <1>3 DEF RoleStep

RoleInv == TypeInv /\ Roles /\ Alone

LEMMA NextRoles == RoleInv /\ Next => RoleInv'
<1> SUFFICES ASSUME RoleInv, Next PROVE RoleInv'
  OBVIOUS
<1>i. TypeInv /\ Roles /\ Alone
  BY DEF RoleInv
<1>t. TypeInv'
  BY <1>i, NextTypes
<1>1. CASE \A c \in Hosts : ~RunPromote(c)
  <2>1. RoleStep
    BY <1>1, <1>i, RoleSteps
  <2>2. \A h \in Hosts : IsClient(h)' <=> IsClient(h)
    BY <1>i, <2>1, ModesStay DEF IsClient
  <2>3. \A h \in Hosts : RevokedSerials(db[h]) \subseteq RevokedSerials(db'[h])
    BY <1>1, <1>i, Evolution DEF Evolves
  <2>4. \A h \in Hosts : /\ (pc'[h] = "serving" => ~IsClient(h))
                         /\ (pc'[h] \notin {"off", "serving"} => IsClient(h))
    BY <1>i, <2>1 DEF RoleStep, Roles
  <2>5. \A h \in Hosts : pending'[h] # None =>
                            ~IsClient(h) /\ pending'[h] \in RevokedSerials(db'[h])
    BY <1>i, <2>1, <2>3 DEF RoleStep, Roles
  <2>6. Roles'
    BY <2>2, <2>4, <2>5 DEF Roles, RevokedSerials
  <2>7. Alone'
    <3> SUFFICES ASSUME used'.promotions = 0
                 PROVE  \A h \in Hosts : /\ epoch'[h] = 0 /\ Master(h)' = Founder
                                         /\ IsClient(h)' <=> h # Founder
      BY DEF Alone
    <3>1. used.promotions = 0
      BY <2>1 DEF RoleStep
    <3>2. \A h \in Hosts : epoch[h] = 0 /\ Master(h) = Founder /\ (IsClient(h) <=> h # Founder)
      BY <1>i, <3>1 DEF Alone
    <3>3. ~(0 > 0)
      BY SMT, Z3
    <3>4. \A c, h \in Hosts : ~(epoch[h] > epoch[Master(c)])
      BY <3>2, <3>3, Given
    <3>5. config' = config /\ epoch' = epoch
      BY <2>1, <3>4 DEF RoleStep
    <3> QED
      BY <2>2, <3>2, <3>5 DEF Master
  <2> QED
    BY <1>t, <2>6, <2>7 DEF RoleInv
<1>2. ASSUME NEW c \in Hosts, RunPromote(c) PROVE RoleInv'
  <2>1. /\ IsClient(c) /\ used'.promotions # 0
        /\ config'[c].mode = "master" /\ pc'[c] = "off" /\ pending' = pending
        /\ \A h \in Hosts : h # c => config'[h] = config[h] /\ pc'[h] = pc[h] /\ db'[h] = db[h]
    BY <1>2, <1>i, PromoteFacts
  <2>2. Alone'
    BY <2>1 DEF Alone
  <2>3. pending[c] = None
    BY <1>i, <2>1 DEF Roles
  <2>4. \A h \in Hosts : h # c => (IsClient(h)' <=> IsClient(h))
    BY <2>1 DEF IsClient
  <2>5. Roles'
    <3> SUFFICES ASSUME NEW h \in Hosts
                 PROVE  /\ (pc'[h] = "serving" => ~IsClient(h)')
                        /\ (pc'[h] \notin {"off", "serving"} => IsClient(h)')
                        /\ (pending'[h] # None =>
                              ~IsClient(h)' /\ pending'[h] \in RevokedSerials(db'[h]))
      BY DEF Roles, RevokedSerials
    <3>1. CASE h = c
      BY <2>1, <2>3, <3>1
    <3>2. CASE h # c
      BY <1>i, <2>1, <2>4, <3>2 DEF Roles
    <3> QED
      BY <3>1, <3>2
  <2> QED
    BY <1>t, <2>2, <2>5 DEF RoleInv
<1> QED
  BY <1>1, <1>2

LEMMA StutterRoles == RoleInv /\ UNCHANGED vars => RoleInv'
<1> SUFFICES ASSUME RoleInv, UNCHANGED vars PROVE RoleInv'
  OBVIOUS
<1>1. TypeInv'
  BY StutterTypes DEF RoleInv
<1>2. /\ config' = config /\ pc' = pc /\ pending' = pending /\ db' = db /\ used' = used
      /\ epoch' = epoch
  BY DEF vars
<1>3. Roles'
  BY <1>2 DEF RoleInv, Roles, IsClient, RevokedSerials
<1>4. Alone'
  BY <1>2 DEF RoleInv, Alone, IsClient, Master
<1> QED
  BY <1>1, <1>3, <1>4 DEF RoleInv

LEMMA InitRoles == Init => RoleInv
<1> SUFFICES ASSUME Init PROVE RoleInv
  OBVIOUS
<1>1. TypeInv
  BY InitTypes, InitNumbered DEF TypeInv
<1>2. \A h \in Hosts : /\ h = Founder => config[h].mode = "master" /\ pc[h] = "serving"
                       /\ h # Founder => config[h].mode = "client" /\ pc[h] = "off"
                       /\ config[h].master = Founder /\ epoch[h] = 0 /\ pending[h] = None
  BY DEF Init
<1>3. Roles
  BY <1>2 DEF Roles, IsClient
<1>4. Alone
  BY <1>2 DEF Alone, IsClient, Master
<1> QED
  BY <1>1, <1>3, <1>4 DEF RoleInv

LEMMA RoleInvariant == Spec => []RoleInv
<1>1. RoleInv /\ [Next]_vars => RoleInv'
  BY NextRoles, StutterRoles
<1> QED
  BY <1>1, InitRoles, PTL DEF Spec


-----------------------------------------------------------------------------
(* What clients hold before the first promotion *)

\* The file of c is one that the founder published, the last one if it has
\* its number, and holds what was acknowledged when c pulled it.
Follower(c) ==
    /\ cacheFile[c].seq <= cacheFile[Founder].seq
    /\ cacheFile[c].seq = cacheFile[Founder].seq => cacheFile[c] = cacheFile[Founder]
    /\ RevokedSerials(cacheFile[c].data) \subseteq RevokedSerials(cacheFile[Founder].data)
    /\ loc[c].acked \subseteq RevokedSerials(cacheFile[c].data)
    /\ synced[c] \subseteq RevokedSerials(cacheFile[c].data)

Synced ==
    /\ acked[Founder] \subseteq RevokedSerials(cacheFile[Founder].data)
    /\ RevokedSerials(cacheFile[Founder].data) \subseteq RevokedSerials(db[Founder])
    /\ \A c \in Hosts \ {Founder} : Follower(c)

SyncInv == used.promotions = 0 => Synced

\* A promoted master knows what it has acknowledged or pulled: up to the
\* first promotion, which starts from a file that SyncInv is about.
KeptInv == used.promotions <= 1 => PromotionKeepsSynced

\* A step that begins no pull.
Steady ==
    \A c \in Hosts \ {Founder} :
        /\ loc'[c].acked \in {loc[c].acked, {}}
        /\ synced'[c] \in {synced[c], loc[c].acked, {}}

LEMMA Sole ==
    ASSUME RoleInv, used.promotions = 0
    PROVE  \A h \in Hosts : /\ Master(h) = Founder /\ (IsClient(h) <=> h # Founder)
                            /\ Serving(h) => h = Founder
                            /\ pending[h] # None => h = Founder
<1>1. \A h \in Hosts : Master(h) = Founder /\ (IsClient(h) <=> h # Founder)
  BY DEF RoleInv, Alone
<1>2. \A h \in Hosts : (Serving(h) => ~IsClient(h)) /\ (pending[h] # None => ~IsClient(h))
  BY DEF RoleInv, Roles, Serving
<1> QED
  BY <1>1, <1>2

\* The files stay.
LEMMA SyncStays ==
    ASSUME Synced, cacheFile' = cacheFile, acked'[Founder] = acked[Founder], Steady,
           RevokedSerials(db[Founder]) \subseteq RevokedSerials(db'[Founder])
    PROVE  Synced'
<1>1. ASSUME NEW c \in Hosts \ {Founder} PROVE Follower(c)'
  <2>1. Follower(c)
    BY DEF Synced
  <2>2. /\ loc'[c].acked \subseteq RevokedSerials(cacheFile[c].data)
        /\ synced'[c] \subseteq RevokedSerials(cacheFile[c].data)
    BY <2>1 DEF Follower, Steady
  <2> QED
    BY <2>1, <2>2 DEF Follower, RevokedSerials
<1>2. /\ acked'[Founder] \subseteq RevokedSerials(cacheFile'[Founder].data)
      /\ RevokedSerials(cacheFile'[Founder].data) \subseteq RevokedSerials(db'[Founder])
  BY DEF Synced
<1> QED
  BY <1>1, <1>2 DEF Synced, RevokedSerials

\* The founder publishes.
LEMMA SyncPublished ==
    ASSUME TypeInv, TypeInv', Synced, Steady,
           cacheFile'[Founder].seq > cacheFile[Founder].seq,
           RevokedSerials(cacheFile'[Founder].data) = RevokedSerials(db'[Founder]),
           RevokedSerials(db[Founder]) \subseteq RevokedSerials(db'[Founder]),
           acked'[Founder] \subseteq RevokedSerials(db'[Founder]),
           \A c \in Hosts \ {Founder} : cacheFile'[c] = cacheFile[c]
    PROVE  Synced'
<1>n. \A i, j, k \in Nat : i <= j /\ k > j => i <= k /\ i # k
  BY SMT, Z3
<1>t. /\ \A h \in Hosts : cacheFile[h].seq \in Nat
      /\ Founder \in Hosts
  BY FileFacts, Given DEF TypeInv
<1>u. cacheFile'[Founder].seq \in Nat
  <2>1. cacheFile' \in [Hosts -> Caches]
    BY DEF TypeInv, TypeOK, Caches
  <2> QED
    BY <1>t, <2>1 DEF Caches
<1>1. ASSUME NEW c \in Hosts \ {Founder} PROVE Follower(c)'
  <2>1. Follower(c)
    BY DEF Synced
  <2>2. cacheFile'[c] = cacheFile[c]
    OBVIOUS
  <2>3. cacheFile'[c].seq <= cacheFile'[Founder].seq /\ cacheFile'[c].seq # cacheFile'[Founder].seq
    BY <1>n, <1>t, <1>u, <2>1, <2>2 DEF Follower
  <2>4. RevokedSerials(cacheFile'[c].data) \subseteq RevokedSerials(cacheFile'[Founder].data)
    BY <2>1, <2>2 DEF Synced, Follower
  <2>5. /\ loc'[c].acked \subseteq RevokedSerials(cacheFile'[c].data)
        /\ synced'[c] \subseteq RevokedSerials(cacheFile'[c].data)
    BY <2>1, <2>2 DEF Follower, Steady
  <2> QED
    BY <2>3, <2>4, <2>5 DEF Follower, RevokedSerials
<1> QED
  BY <1>1 DEF Synced, RevokedSerials

\* What a step leaves of the acknowledgements in memory.
LEMMA LocalAcks ==
    ASSUME TypeInv, NEW c \in Hosts, NEW h \in Hosts
    PROVE  /\ [loc EXCEPT ![c] = NoLocals][h].acked \in {loc[h].acked, {}}
           /\ [loc EXCEPT ![c] = [NoLocals EXCEPT !.pull = TRUE]][h].acked \in {loc[h].acked, {}}
           /\ [loc EXCEPT ![c].acked = {}][h].acked \in {loc[h].acked, {}}
<1>1. loc \in [Hosts -> Locals]
  BY TypeParts DEF TypeInv, HostTypes
<1>2. NoLocals.acked = {} /\ [NoLocals EXCEPT !.pull = TRUE].acked = {}
  BY DEF NoLocals
<1>3. /\ [loc EXCEPT ![c] = NoLocals][h].acked \in {loc[h].acked, {}}
      /\ [loc EXCEPT ![c] = [NoLocals EXCEPT !.pull = TRUE]][h].acked \in {loc[h].acked, {}}
  BY <1>1, <1>2
<1>4. [loc EXCEPT ![c].acked = {}][h].acked \in {loc[h].acked, {}}
  BY <1>1, SMT, Z3 DEF Locals
<1> QED
  BY <1>3, <1>4

LEMMA SerialAcks ==
    ASSUME TypeInv, NEW c \in Hosts, NEW s, loc' = [loc EXCEPT ![c].serial = s]
    PROVE  /\ \A h \in Hosts : loc'[h].acked = loc[h].acked
           /\ loc'[c].serial = s /\ \A h \in Hosts : h # c => loc'[h] = loc[h]
<1>1. loc \in [Hosts -> Locals]
  BY TypeParts DEF TypeInv, HostTypes
<1> QED
  BY <1>1, SMT, Z3 DEF Locals

LEMMA PullAcks ==
    ASSUME TypeInv, NEW c \in Hosts, NEW a, loc' = [loc EXCEPT ![c].acked = a]
    PROVE  loc'[c].acked = a /\ \A h \in Hosts : h # c => loc'[h] = loc[h]
<1>1. loc \in [Hosts -> Locals]
  BY TypeParts DEF TypeInv, HostTypes
<1> QED
  BY <1>1, SMT, Z3 DEF Locals


\* The steps of a host that write no file begin no pull.
LEMMA QuietSteady ==
    ASSUME TypeInv, NEW c \in Hosts, QuietStep(c)
    PROVE  Steady /\ acked' = acked
<1>s. synced \in [Hosts -> SUBSET Serials]
  BY TypeParts DEF TypeInv, GhostTypes
<1>1. CASE RunClient(c)
  <2>1. /\ loc' = [loc EXCEPT ![c] = [NoLocals EXCEPT !.pull = TRUE]]
        /\ synced' = synced /\ acked' = acked
    BY <1>1 DEF RunClient
  <2> QED
    BY <2>1, LocalAcks DEF Steady
<1>2. CASE Ping(c)
  <2>1. loc' = [loc EXCEPT ![c] = NoLocals] /\ synced' = synced /\ acked' = acked
    BY <1>2 DEF Ping
  <2> QED
    BY <2>1, LocalAcks DEF Steady
<1>3. CASE Sync(c) \/ fetchAndInstallRootCA(c) \/ WriteKey(c) \/ WriteCrt(c)
  <2>1. loc' = loc /\ synced' = synced /\ acked' = acked
    BY <1>3 DEF Sync, fetchAndInstallRootCA, WriteKey, WriteCrt
  <2> QED
    BY <2>1 DEF Steady
<1>4. CASE RequestFails(c)
  <2>1. loc' = [loc EXCEPT ![c].acked = {}] /\ synced' = synced /\ acked' = acked
    BY <1>4 DEF RequestFails
  <2> QED
    BY <2>1, LocalAcks DEF Steady
<1>5. CASE Crash(c)
  <2>1. loc' = [loc EXCEPT ![c] = NoLocals] /\ synced' = synced /\ acked' = acked
    BY <1>5 DEF Crash
  <2> QED
    BY <2>1, LocalAcks DEF Steady
<1>a. CASE StopRevoke(c)
  <2>1. loc' = loc /\ synced' = synced /\ acked' = acked
    BY <1>a DEF StopRevoke
  <2> QED
    BY <2>1 DEF Steady
<1>6. ASSUME NEW h \in Hosts, Redirect(c, h) PROVE Steady /\ acked' = acked
  <2>1. /\ loc' = [loc EXCEPT ![c] = [NoLocals EXCEPT !.pull = TRUE]]
        /\ synced' = [synced EXCEPT ![c] = {}] /\ acked' = acked
    BY <1>6 DEF Redirect
  <2>2. \A g \in Hosts : synced'[g] \in {synced[g], {}}
    BY <1>s, <2>1
  <2> QED
    BY <2>1, <2>2, LocalAcks DEF Steady
<1> QED
  BY <1>1, <1>2, <1>3, <1>4, <1>5, <1>a, <1>6 DEF QuietStep

\* What a master acknowledges it has recorded.
LEMMA Acknowledged ==
    ASSUME RoleInv, Next, \A c \in Hosts : ~RunPromote(c), NEW h \in Hosts
    PROVE  acked'[h] \subseteq acked[h] \cup RevokedSerials(db[h])
<1>t. TypeInv /\ Roles
  BY DEF RoleInv
<1>a. acked \in [Hosts -> SUBSET Serials]
  BY <1>t, TypeParts DEF TypeInv, GhostTypes
<1>1. ASSUME acked' = acked PROVE acked'[h] \subseteq acked[h] \cup RevokedSerials(db[h])
  BY <1>1
<1>2. ASSUME NEW c \in Hosts, PublishRevocation(c)
      PROVE  acked'[h] \subseteq acked[h] \cup RevokedSerials(db[h])
  <2>1. pending[c] # None /\ acked' = [acked EXCEPT ![c] = acked[c] \cup {pending[c]}]
    BY <1>2 DEF PublishRevocation
  <2>2. pending[c] \in RevokedSerials(db[c])
    BY <1>t, <2>1 DEF Roles
  <2> QED
    BY <1>a, <2>1, <2>2
<1>3. ASSUME NEW c \in Hosts, QuietStep(c) PROVE acked' = acked
  BY <1>t, <1>3, QuietSteady
<1>4. ASSUME NEW c \in Hosts, Enroll(c) \/ RegisterWithMaster(c) \/ AnswerLost(c)
      PROVE  acked' = acked
  BY <1>4 DEF Enroll, RegisterWithMaster, AnswerLost
<1>5. ASSUME NEW c \in Hosts, PullCache(c) \/ PullCRL(c) \/ RunMaster(c) PROVE acked' = acked
  BY <1>5 DEF PullCache, PullCRL, ServeCRL, RunMaster
<1>6. ASSUME NEW c \in Hosts, NEW g \in Hosts, ChangeRegistry(g, c) PROVE acked' = acked
  BY <1>6 DEF ChangeRegistry
<1>7. ASSUME NEW g \in Hosts, NEW s \in Serials, Revoke(g, s) PROVE acked' = acked
  BY <1>7 DEF Revoke
<1>9. ASSUME NEW c \in Hosts, ListRevocation(c) PROVE acked' = acked
  BY <1>9 DEF ListRevocation
<1>8. acked' = acked \/ \E c \in Hosts : PublishRevocation(c)
  BY <1>3, <1>4, <1>5, <1>6, <1>7, <1>9 DEF Next, ClientStep, QuietStep
<1> QED
  BY <1>1, <1>2, <1>8

\* A client gets the founder's file, whether it replaces its own or not.
LEMMA PullSyncs ==
    ASSUME RoleInv, used.promotions = 0, Synced, NEW c \in Hosts, PullCache(c)
    PROVE  Synced'
<1>t. TypeInv /\ Roles
  BY DEF RoleInv
<1>f. /\ \A h \in Hosts : cacheFile[h].seq \in Nat
      /\ cacheFile \in [Hosts -> Caches] /\ Founder \in Hosts
  BY <1>t, FileFacts, Given DEF TypeInv
<1>1. c # Founder /\ Master(c) = Founder
  BY <1>t, Sole, Asking
<1>2. Follower(c)
  BY <1>1 DEF Synced
<1>3. /\ acceptsCache(c, cacheFile[Founder]) /\ db' = db /\ acked' = acked /\ synced' = synced
      /\ cacheFile' = [cacheFile EXCEPT ![c] = acceptCache(c, cacheFile[Founder])]
      /\ loc' = [loc EXCEPT ![c].acked = acked[Founder]]
  BY <1>1 DEF PullCache
<1>4. acceptCache(c, cacheFile[Founder]) = cacheFile[Founder]
  <2>1. \A i, j \in Nat : i >= j => i > j \/ j = i
    BY SMT, Z3
  <2>2. cacheFile[Founder].seq >= cacheFile[c].seq
    BY <1>3 DEF acceptsCache
  <2>3. cacheFile[Founder].seq > cacheFile[c].seq \/ cacheFile[c].seq = cacheFile[Founder].seq
    BY <1>f, <2>1, <2>2
  <2>4. cacheFile[Founder].seq > cacheFile[c].seq \/ cacheFile[c] = cacheFile[Founder]
    BY <1>2, <2>3 DEF Follower
  <2> QED
    BY <2>4 DEF acceptCache
<1>5. /\ cacheFile'[c] = cacheFile[Founder]
      /\ \A h \in Hosts : h # c => cacheFile'[h] = cacheFile[h]
  BY <1>f, <1>3, <1>4
<1>6. cacheFile'[Founder] = cacheFile[Founder]
  BY <1>1, <1>f, <1>5
<1>7. loc'[c].acked = acked[Founder] /\ \A h \in Hosts : h # c => loc'[h] = loc[h]
  BY <1>t, <1>3, PullAcks
<1>8. Follower(c)'
  <2>1. cacheFile'[c].seq <= cacheFile'[Founder].seq
    <3>1. \A n \in Nat : n <= n
      BY SMT, Z3
    <3> QED
      BY <1>f, <1>5, <1>6, <3>1
  <2>2. /\ loc'[c].acked \subseteq RevokedSerials(cacheFile'[c].data)
        /\ synced'[c] \subseteq RevokedSerials(cacheFile'[c].data)
    BY <1>2, <1>3, <1>5, <1>7 DEF Follower, Synced
  <2> QED
    BY <1>5, <1>6, <2>1, <2>2 DEF Follower, RevokedSerials
<1>9. ASSUME NEW h \in Hosts \ {Founder}, h # c PROVE Follower(h)'
  <2>1. /\ Follower(h) /\ cacheFile'[h] = cacheFile[h] /\ loc'[h] = loc[h] /\ synced'[h] = synced[h]
    BY <1>3, <1>5, <1>7, <1>9 DEF Synced
  <2> QED
    BY <1>6, <2>1 DEF Follower, RevokedSerials
<1>10. /\ acked'[Founder] \subseteq RevokedSerials(cacheFile'[Founder].data)
       /\ RevokedSerials(cacheFile'[Founder].data) \subseteq RevokedSerials(db'[Founder])
  BY <1>3, <1>6 DEF Synced
<1> QED
  BY <1>8, <1>9, <1>10 DEF Synced, RevokedSerials


\* Requests and commands that the founder serves, and its restart.
LEMMA FounderSyncs ==
    ASSUME RoleInv, RoleInv', Next, \A c \in Hosts : ~RunPromote(c), Synced, Steady,
           Published(Founder) \/ RunMaster(Founder)
    PROVE  Synced'
<1>t. TypeInv /\ TypeInv' /\ Founder \in Hosts
  BY Given DEF RoleInv
<1>1. /\ RevokedSerials(db[Founder]) = RevokedSerials(db'[Founder])
      /\ RevokedSerials(cacheFile'[Founder].data) = RevokedSerials(db[Founder])
      /\ cacheFile'[Founder].seq > cacheFile[Founder].seq
      /\ \A c \in Hosts \ {Founder} : cacheFile'[c] = cacheFile[c]
  <2>1. CASE Published(Founder)
    BY <1>t, <2>1, PublishedEvolves
  <2>2. CASE RunMaster(Founder)
    <3>1. /\ Rebuilt(Founder, NumberCRL(db[Founder])) /\ KeepsCerts(db'[Founder], db[Founder])
          /\ KeepsCerts(cacheFile'[Founder].data, db[Founder])
      BY <1>t, <2>2, RestartLists
    <3>2. /\ RevokedSerials(db'[Founder]) = RevokedSerials(db[Founder])
          /\ RevokedSerials(cacheFile'[Founder].data) = RevokedSerials(db[Founder])
      BY <3>1, SameRevoked
    <3> QED
      BY <3>1, <3>2 DEF Rebuilt
  <2> QED
    BY <2>1, <2>2
<1>2. acked'[Founder] \subseteq RevokedSerials(db'[Founder])
  <2>1. acked'[Founder] \subseteq acked[Founder] \cup RevokedSerials(db[Founder])
    BY <1>t, Acknowledged
  <2>2. acked[Founder] \subseteq RevokedSerials(db[Founder])
    BY DEF Synced
  <2> QED
    BY <1>1, <2>1, <2>2
<1>3. RevokedSerials(cacheFile'[Founder].data) = RevokedSerials(db'[Founder])
  BY <1>1
<1>4. RevokedSerials(db[Founder]) \subseteq RevokedSerials(db'[Founder])
  BY <1>1
<1> QED
  BY <1>t, <1>1, <1>2, <1>3, <1>4, SyncPublished

LEMMA NextSync ==
    ASSUME RoleInv, RoleInv', Next, SyncInv
    PROVE  SyncInv'
<1>t. TypeInv /\ Roles /\ Founder \in Hosts
  BY Given DEF RoleInv
<1>p. TypeOK
  BY <1>t DEF TypeInv
<1>1. ASSUME NEW c \in Hosts, RunPromote(c) PROVE SyncInv'
  BY <1>t, <1>1, PromoteFacts DEF SyncInv
<1>2. ASSUME \A c \in Hosts : ~RunPromote(c), used'.promotions = 0 PROVE Synced'
  <2>1. used.promotions = 0
    BY <1>t, <1>2, RoleSteps DEF RoleStep
  <2>2. Synced
    BY <2>1 DEF SyncInv
  <2>3. \A h \in Hosts : /\ Master(h) = Founder /\ (IsClient(h) <=> h # Founder)
                         /\ Serving(h) => h = Founder
                         /\ pending[h] # None => h = Founder
    BY <2>1, Sole
  <2>4. RevokedSerials(db[Founder]) \subseteq RevokedSerials(db'[Founder])
    BY <1>t, <1>2, Evolution DEF Evolves
  <2>5. ASSUME NEW c \in Hosts, QuietStep(c) PROVE Synced'
    <3>1. Steady /\ acked' = acked /\ cacheFile' = cacheFile
      BY <1>t, <2>5, QuietSteady, QuietKinds DEF Quiet
    <3> QED
      BY <2>2, <2>4, <3>1, SyncStays
  <2>6. ASSUME Steady, Published(Founder) \/ RunMaster(Founder) PROVE Synced'
    BY <1>2, <2>2, <2>6, FounderSyncs
  <2>7. ASSUME NEW c \in Hosts, Enroll(c) \/ RegisterWithMaster(c) \/ AnswerLost(c)
        PROVE  Synced'
    <3>1. Published(Founder)
      BY <1>p, <2>3, <2>7, PublishKinds
    <3>2. synced' = synced /\ (loc' = loc \/ \E s : loc' = [loc EXCEPT ![c].serial = s])
      BY <2>7 DEF Enroll, RegisterWithMaster, AnswerLost
    <3>3. \A h \in Hosts : loc'[h].acked = loc[h].acked
      BY <1>t, <3>2, SerialAcks
    <3>4. Steady
      BY <3>2, <3>3 DEF Steady
    <3> QED
      BY <2>6, <3>1, <3>4
  <2>8. ASSUME NEW c \in Hosts, PublishRevocation(c) PROVE Synced'
    <3>1. loc' = loc /\ synced' = synced /\ c = Founder
      BY <2>3, <2>8 DEF PublishRevocation
    <3>2. Steady
      BY <3>1 DEF Steady
    <3>3. Published(Founder)
      BY <1>p, <2>8, <3>1, PublishKinds
    <3> QED
      BY <2>6, <3>2, <3>3
  <2>9. ASSUME NEW c \in Hosts, NEW h \in Hosts, ChangeRegistry(h, c) PROVE Synced'
    <3>1. loc' = loc /\ synced' = synced /\ h = Founder
      BY <2>3, <2>9 DEF ChangeRegistry
    <3>2. Steady
      BY <3>1 DEF Steady
    <3>3. Published(Founder)
      BY <1>p, <2>9, <3>1, PublishKinds
    <3> QED
      BY <2>6, <3>2, <3>3
  <2>10. ASSUME NEW c \in Hosts, RunMaster(c) PROVE Synced'
    <3>1. loc' = loc /\ synced' = synced /\ ~IsClient(c)
      BY <2>10 DEF RunMaster, IsClient
    <3>2. Steady /\ c = Founder
      BY <2>3, <3>1 DEF Steady
    <3> QED
      BY <2>6, <2>10, <3>2
  <2>11. ASSUME NEW c \in Hosts, PullCache(c) PROVE Synced'
    BY <2>1, <2>2, <2>11, PullSyncs
  <2>12. ASSUME NEW c \in Hosts, PullCRL(c) PROVE Synced'
    <3>1. cacheFile' = cacheFile /\ \E file : ServeCRL(c, file)
      BY <1>t, <2>12, PullCRLKinds
    <3>2. /\ acked' = acked /\ loc' = [loc EXCEPT ![c] = NoLocals]
          /\ \/ synced' = [synced EXCEPT ![c] = loc[c].acked]
             \/ synced' = [synced EXCEPT ![c] = synced[c]]
      BY <3>1 DEF ServeCRL
    <3>3. synced \in [Hosts -> SUBSET Serials]
      BY <1>t, TypeParts DEF TypeInv, GhostTypes
    <3>4. \A h \in Hosts : synced'[h] \in {synced[h], loc[h].acked}
      BY <3>2, <3>3
    <3>5. \A h \in Hosts : loc'[h].acked \in {loc[h].acked, {}}
      BY <1>t, <3>2, LocalAcks
    <3>6. Steady
      BY <3>4, <3>5 DEF Steady
    <3> QED
      BY <2>2, <2>4, <3>1, <3>2, <3>6, SyncStays
  <2>13. ASSUME NEW h \in Hosts, NEW s \in Serials, Revoke(h, s) PROVE Synced'
    <3>1. loc' = loc /\ synced' = synced /\ acked' = acked /\ cacheFile' = cacheFile
      BY <2>13 DEF Revoke
    <3>2. Steady
      BY <3>1 DEF Steady
    <3> QED
      BY <2>2, <2>4, <3>1, <3>2, SyncStays
  <2>14. ASSUME NEW c \in Hosts, ListRevocation(c) PROVE Synced'
    <3>1. loc' = loc /\ synced' = synced /\ acked' = acked /\ cacheFile' = cacheFile
      BY <2>14 DEF ListRevocation
    <3>2. Steady
      BY <3>1 DEF Steady
    <3> QED
      BY <2>2, <2>4, <3>1, <3>2, SyncStays
  <2> QED
    BY <1>2, <2>5, <2>7, <2>8, <2>9, <2>10, <2>11, <2>12, <2>13, <2>14
       DEF Next, ClientStep, QuietStep
<1> QED
  BY <1>1, <1>2 DEF SyncInv

LEMMA NextKept ==
    ASSUME RoleInv, Next, SyncInv, KeptInv
    PROVE  KeptInv'
<1>t. TypeInv /\ Roles /\ Founder \in Hosts /\ Alone
  BY Given DEF RoleInv
<1>n. used.promotions \in Nat
  BY <1>t, TypeParts DEF TypeInv, GhostTypes, Bounds
<1>1. CASE \A c \in Hosts : ~RunPromote(c)
  <2>1. RoleStep
    BY <1>1, <1>t, RoleSteps
  <2>2. \A h \in Hosts : IsClient(h)' <=> IsClient(h)
    BY <1>t, <2>1, ModesStay DEF IsClient
  <2>3. \A h \in Hosts : /\ RevokedSerials(db[h]) \subseteq RevokedSerials(db'[h])
                         /\ acked'[h] \subseteq acked[h] \cup RevokedSerials(db[h])
    BY <1>1, <1>t, Evolution, Acknowledged DEF Evolves
  <2>4. used'.promotions = used.promotions
    BY <2>1 DEF RoleStep
  <2>5. PromotionKeepsSynced => PromotionKeepsSynced'
    BY <2>2, <2>3 DEF PromotionKeepsSynced, RevokedSerials
  <2> QED
    BY <2>4, <2>5 DEF KeptInv
<1>2. ASSUME NEW c \in Hosts, RunPromote(c) PROVE KeptInv'
  <2>1. /\ IsClient(c) /\ used'.promotions = used.promotions + 1
        /\ \A h \in Hosts : h # c => config'[h] = config[h] /\ db'[h] = db[h] /\ acked'[h] = acked[h]
        /\ acked'[c] = synced[c]
        /\ RevokedSerials(db'[c]) = RevokedSerials(cacheFile[c].data)
    BY <1>t, <1>2, PromoteFacts
  <2> SUFFICES ASSUME used'.promotions <= 1 PROVE PromotionKeepsSynced'
    BY DEF KeptInv
  <2>2. \A n \in Nat : n + 1 <= 1 => n = 0 /\ n <= 1
    BY SMT, Z3
  <2>3. used.promotions = 0 /\ used.promotions <= 1
    BY <1>n, <2>1, <2>2
  <2>4. PromotionKeepsSynced /\ Synced
    BY <2>3 DEF KeptInv, SyncInv
  <2>5. c # Founder
    BY <1>t, <2>1, <2>3 DEF Alone
  <2>6. synced[c] \subseteq RevokedSerials(cacheFile[c].data)
    BY <2>4, <2>5 DEF Synced, Follower
  <2>7. ASSUME NEW h \in Hosts, ~IsClient(h)' PROVE acked'[h] \subseteq RevokedSerials(db'[h])
    <3>1. CASE h = c
      BY <2>1, <2>6, <3>1
    <3>2. CASE h # c
      BY <2>1, <2>4, <2>7, <3>2 DEF PromotionKeepsSynced, IsClient
    <3> QED
      BY <3>1, <3>2
  <2> QED
    BY <2>7 DEF PromotionKeepsSynced, RevokedSerials
<1> QED
  BY <1>1, <1>2


NetInv == RoleInv /\ SyncInv /\ KeptInv

LEMMA StutterNet == NetInv /\ UNCHANGED vars => NetInv'
<1> SUFFICES ASSUME NetInv, UNCHANGED vars PROVE NetInv'
  OBVIOUS
<1>1. RoleInv'
  BY StutterRoles DEF NetInv
<1>2. /\ cacheFile' = cacheFile /\ loc' = loc /\ synced' = synced /\ acked' = acked
      /\ db' = db /\ used' = used /\ config' = config
  BY DEF vars
<1>3. SyncInv'
  BY <1>2 DEF NetInv, SyncInv, Synced, Follower, RevokedSerials
<1>4. KeptInv'
  BY <1>2 DEF NetInv, KeptInv, PromotionKeepsSynced, IsClient, RevokedSerials
<1> QED
  BY <1>1, <1>3, <1>4 DEF NetInv

LEMMA InitNet == Init => NetInv
<1> SUFFICES ASSUME Init PROVE NetInv
  OBVIOUS
<1>t. TypeInv /\ RoleInv
  BY InitRoles DEF RoleInv
<1>f. \A h \in Hosts : cacheFile[h].seq \in Nat
  BY <1>t, FileFacts DEF TypeInv
<1>1. \A h \in Hosts : acked[h] = {} /\ synced[h] = {} /\ loc[h].acked = {}
  BY DEF Init, NoLocals
<1>2. /\ cacheFile[Founder].seq = FounderDB.cacheSequence
      /\ cacheFile[Founder].data = BuildSnapshot(FounderDB) /\ db[Founder] = FounderDB
      /\ \A h \in Hosts : h # Founder => cacheFile[h] = NoFile
  BY Given DEF Init
<1>3. /\ RevokedSerials(BuildSnapshot(FounderDB)) = RevokedSerials(FounderDB)
      /\ RevokedSerials(BuildSnapshot(migrate)) = {}
  BY FounderTypes, MigrateTypes, SnapshotTypes DEF Keeps, KeepsCerts, RevokedSerials
<1>4. FounderDB.cacheSequence # 0
  <2>1. Cardinality(Issued) \in Nat /\ Cardinality(Enrolled) \in Nat
    BY ReplicationAssumption, FS_CardinalityType
  <2>2. \A i, j \in Nat : 2 + i + j # 0
    BY SMT, Z3
  <2>3. FounderDB.cacheSequence = 2 + Cardinality(Issued) + Cardinality(Enrolled)
    BY MigrateTypes DEF FounderDB, Databases
  <2> QED
    BY <2>1, <2>2, <2>3
<1>5. ASSUME NEW c \in Hosts \ {Founder} PROVE Follower(c)
  <2>1. cacheFile[c] = NoFile /\ cacheFile[c].seq = 0 /\ cacheFile[c].data = BuildSnapshot(migrate)
    BY <1>2, NoFileTypes
  <2>2. \A n \in Nat : 0 <= n
    BY SMT, Z3
  <2>3. cacheFile[c].seq <= cacheFile[Founder].seq /\ cacheFile[c].seq # cacheFile[Founder].seq
    BY <1>f, <1>2, <1>4, <2>1, <2>2, Given
  <2> QED
    BY <1>1, <1>3, <2>1, <2>3 DEF Follower
<1>6. SyncInv
  BY <1>1, <1>2, <1>3, <1>5, Given DEF SyncInv, Synced
<1>7. KeptInv
  BY <1>1 DEF KeptInv, PromotionKeepsSynced
<1> QED
  BY <1>t, <1>6, <1>7 DEF NetInv

LEMMA NetInvariant == Spec => []NetInv
<1>1. NetInv /\ Next => NetInv'
  BY NextRoles, NextSync, NextKept DEF NetInv
<1>2. NetInv /\ [Next]_vars => NetInv'
  BY <1>1, StutterNet
<1> QED
  BY <1>2, InitNet, PTL DEF Spec

\* Until the first promotion, a client that has completed a pull holds every
\* revocation that its master had acknowledged when the pull began, whatever
\* commands, crashes and losses fall between the steps of pullOnce, --revoke
\* and the rebuilds of other clients' pings.  (After a promotion an equal
\* sequence number may stand for another file, which acceptCache keeps.)
THEOREM PullsCoverAcked == Spec => [](used.promotions = 0 => CacheCoversSynced)
<1>1. NetInv => (used.promotions = 0 => CacheCoversSynced)
  <2> SUFFICES ASSUME NetInv, used.promotions = 0, NEW c \in Hosts, IsClient(c)
               PROVE  synced[c] \subseteq RevokedSerials(cacheFile[c].data)
    BY DEF CacheCoversSynced
  <2>1. c # Founder
    BY DEF NetInv, RoleInv, Alone
  <2> QED
    BY <2>1 DEF NetInv, SyncInv, Synced, Follower
<1> QED
  BY <1>1, NetInvariant, PTL

\* Up to and including the network's first promotion, a master knows every
\* revocation it has acknowledged, and a promoted one those acknowledged
\* when its last complete pull began: what RunPromote restores.
THEOREM PromotedKnowsAcked == Spec => [](used.promotions <= 1 => PromotionKeepsSynced)
<1>1. NetInv => (used.promotions <= 1 => PromotionKeepsSynced)
  BY DEF NetInv, KeptInv
<1> QED
  BY <1>1, NetInvariant, PTL


-----------------------------------------------------------------------------
(* The identities of clients before the first promotion *)

\* The tables d record the certificate s for c.
Records(d, c, s) == [serial |-> s, subject |-> Identity(c)] \in d.certs

\* An identity is recorded before it is written, and complete before it is
\* used.
Holder(c) ==
    /\ identity[c].crt # None => Records(db[Founder], c, identity[c].crt)
    /\ pc[c] \in {"write_key", "write_crt"} =>
          loc[c].serial \in Serials /\ Records(db[Founder], c, loc[c].serial)
    /\ pc[c] = "write_crt" => identity[c].key = loc[c].serial
    /\ pc[c] = "register" => PairLoads(c)
    /\ registered[c] # None =>
          /\ registered[c] = Founder /\ PairLoads(c)
          /\ pc[c] \notin {"root", "enroll", "write_key", "write_crt", "register"}

\* A new serial is that of no certificate.
Tables == \A x \in db[Founder].certs : x.serial \in minted

Known == Tables /\ \A c \in Hosts \ {Founder} : Holder(c)

KnownInv == used.promotions = 0 => Known

\* What the founder has recorded stays recorded.
RecordsStay == \A c, s : Records(db[Founder], c, s) => Records(db'[Founder], c, s)

LEMMA TablesStay ==
    ASSUME TypeInv, Next, \A c \in Hosts : ~RunPromote(c), Tables
    PROVE  Tables' /\ RecordsStay
<1>1. Evolves(Founder) /\ minted \subseteq minted'
  BY Evolution, Given
<1>2. \A x \in db[Founder].certs : x \in db'[Founder].certs
  BY <1>1 DEF Evolves, Tables
<1>4. \A x \in db'[Founder].certs : x.serial \in minted'
  BY <1>1 DEF Evolves, Tables
<1>5. Tables'
  BY <1>4 DEF Tables
<1>6. RecordsStay
  BY <1>2 DEF RecordsStay, Records
<1> QED
  BY <1>5, <1>6

\* Nothing that c holds changes.
Bystander(c) ==
    /\ identity'[c] = identity[c] /\ pc'[c] = pc[c] /\ loc'[c] = loc[c]
    /\ registered'[c] = registered[c]

LEMMA HolderStays ==
    ASSUME RecordsStay, NEW c, Holder(c), Bystander(c)
    PROVE  Holder(c)'
<1>1. PairLoads(c)' <=> PairLoads(c)
  BY DEF PairLoads, Bystander
<1>2. identity'[c].crt # None => Records(db'[Founder], c, identity'[c].crt)
  BY DEF RecordsStay, Holder, Bystander
<1>3. pc'[c] \in {"write_key", "write_crt"} =>
         loc'[c].serial \in Serials /\ Records(db'[Founder], c, loc'[c].serial)
  BY DEF RecordsStay, Holder, Bystander
<1>4. /\ pc'[c] = "write_crt" => identity'[c].key = loc'[c].serial
      /\ pc'[c] = "register" => PairLoads(c)'
      /\ registered'[c] # None =>
            /\ registered'[c] = Founder /\ PairLoads(c)'
            /\ pc'[c] \notin {"root", "enroll", "write_key", "write_crt", "register"}
  BY <1>1 DEF Holder, Bystander
<1> QED
  BY <1>2, <1>3, <1>4 DEF Holder

\* c keeps its identity and goes on.
LEMMA HolderMoves ==
    ASSUME RecordsStay, NEW c, Holder(c), identity'[c] = identity[c],
           pc'[c] \notin {"write_key", "write_crt"},
           pc'[c] = "register" => PairLoads(c),
           registered'[c] # None =>
              /\ registered'[c] = Founder /\ PairLoads(c)
              /\ pc'[c] \notin {"root", "enroll", "register"}
    PROVE  Holder(c)'
<1>1. PairLoads(c)' <=> PairLoads(c)
  BY DEF PairLoads
<1>2. identity'[c].crt # None => Records(db'[Founder], c, identity'[c].crt)
  BY DEF RecordsStay, Holder
<1>3. /\ pc'[c] = "register" => PairLoads(c)'
      /\ registered'[c] # None =>
            /\ registered'[c] = Founder /\ PairLoads(c)'
            /\ pc'[c] \notin {"root", "enroll", "write_key", "write_crt", "register"}
  BY <1>1
<1>4. /\ pc'[c] \in {"write_key", "write_crt"} =>
            loc'[c].serial \in Serials /\ Records(db'[Founder], c, loc'[c].serial)
      /\ pc'[c] = "write_crt" => identity'[c].key = loc'[c].serial
  OBVIOUS
<1> QED
  BY <1>2, <1>3, <1>4 DEF Holder

\* The steps that end a request or a pull.
EndStep(c) == RequestFails(c) \/ AnswerLost(c) \/ PullCache(c) \/ PullCRL(c) \/ Sync(c)

LEMMA EndMoves ==
    ASSUME TypeInv, NEW c \in Hosts, EndStep(c)
    PROVE  /\ identity' = identity /\ registered' = registered
           /\ pc'[c] \in {"idle", "pull_cache", "pull_crl"}
           /\ \A h \in Hosts : h # c => pc'[h] = pc[h] /\ loc'[h] = loc[h]
<1>t. pc \in [Hosts -> Steps] /\ loc \in [Hosts -> Locals]
  BY TypeParts DEF TypeInv, HostTypes
<1>g. ASSUME NEW step \in {"idle", "pull_cache", "pull_crl"}, Goto(c, step)
      PROVE  /\ pc'[c] \in {"idle", "pull_cache", "pull_crl"}
             /\ \A h \in Hosts : h # c => pc'[h] = pc[h]
  BY <1>t, <1>g DEF Goto
<1>a. AfterRegister(c) \in {"idle", "pull_cache", "pull_crl"}
  BY DEF AfterRegister
<1>1. CASE RequestFails(c)
  <2> DEFINE step == IF pc[c] \in {"pull_cache", "pull_crl"} THEN "idle" ELSE AfterRegister(c)
  <2>1. /\ Goto(c, step) /\ loc' = [loc EXCEPT ![c].acked = {}]
        /\ identity' = identity /\ registered' = registered
    BY <1>1 DEF RequestFails
  <2>2. step \in {"idle", "pull_cache", "pull_crl"}
    BY <1>a
  <2> HIDE DEF step
  <2>3. \A h \in Hosts : h # c => loc'[h] = loc[h]
    BY <2>1, PullAcks
  <2> QED
    BY <1>g, <2>1, <2>2, <2>3
<1>2. CASE AnswerLost(c)
  BY <1>a, <1>g, <1>2 DEF AnswerLost
<1>3. CASE Sync(c)
  BY <1>g, <1>3 DEF Sync
<1>4. CASE PullCache(c)
  <2>1. /\ Goto(c, "pull_crl") /\ loc' = [loc EXCEPT ![c].acked = acked[Master(c)]]
        /\ identity' = identity /\ registered' = registered
    BY <1>4 DEF PullCache
  <2>2. \A h \in Hosts : h # c => loc'[h] = loc[h]
    BY <2>1, PullAcks
  <2> QED
    BY <1>g, <2>1, <2>2
<1>5. CASE PullCRL(c)
  <2>1. /\ Goto(c, "idle") /\ loc' = [loc EXCEPT ![c] = NoLocals]
        /\ identity' = identity /\ registered' = registered
    BY <1>5 DEF PullCRL, ServeCRL
  <2>2. \A h \in Hosts : h # c => loc'[h] = loc[h]
    BY <1>t, <2>1
  <2> QED
    BY <1>g, <2>1, <2>2
<1> QED
  BY <1>1, <1>2, <1>3, <1>4, <1>5 DEF EndStep


\* The steps that begin register(), or end the process.
LEMMA BeginMoves ==
    ASSUME TypeInv, NEW c \in Hosts,
           RunClient(c) \/ Ping(c) \/ Crash(c) \/ \E h \in Hosts : Redirect(c, h)
    PROVE  /\ identity' = identity /\ registered'[c] = None
           /\ pc'[c] \in {"root", "enroll", "register", "off"} /\ (pc'[c] = "register" => PairLoads(c))
           /\ \A h \in Hosts : h # c => Bystander(h)
<1>t. /\ pc \in [Hosts -> Steps] /\ loc \in [Hosts -> Locals]
      /\ registered \in [Hosts -> Hosts \cup {None}]
  BY TypeParts DEF TypeInv, HostTypes
<1> DEFINE step == IF ~root[c] THEN "root" ELSE IF PairLoads(c) THEN "register" ELSE "enroll"
<1>1. step \in {"root", "enroll", "register", "off"} /\ (step = "register" => PairLoads(c))
  OBVIOUS
<1>2. Register(c) <=> Goto(c, step)
  BY DEF Register
<1> HIDE DEF step
<1>3. ASSUME NEW l, NEW to, Goto(c, to), loc' = [loc EXCEPT ![c] = l], identity' = identity,
             registered' = [registered EXCEPT ![c] = None]
      PROVE  /\ registered'[c] = None /\ pc'[c] = to
             /\ \A h \in Hosts : h # c => Bystander(h)
  BY <1>t, <1>3 DEF Goto, Bystander
<1>4. CASE RunClient(c)
  BY <1>1, <1>2, <1>3, <1>4 DEF RunClient
<1>5. CASE Ping(c)
  BY <1>1, <1>2, <1>3, <1>5 DEF Ping
<1>6. CASE Crash(c)
  <2>1. /\ Goto(c, "off") /\ loc' = [loc EXCEPT ![c] = NoLocals] /\ identity' = identity
        /\ registered' = [registered EXCEPT ![c] = None]
    BY <1>6 DEF Crash
  <2>2. /\ registered'[c] = None /\ pc'[c] = "off"
        /\ \A h \in Hosts : h # c => Bystander(h)
    BY <1>3, <2>1
  <2> QED
    BY <2>1, <2>2
<1>7. CASE \E h \in Hosts : Redirect(c, h)
  <2>1. PICK l : /\ Goto(c, step) /\ loc' = [loc EXCEPT ![c] = l] /\ identity' = identity
                 /\ registered' = [registered EXCEPT ![c] = None]
    BY <1>2, <1>7 DEF Redirect
  <2>2. /\ registered'[c] = None /\ pc'[c] = step
        /\ \A h \in Hosts : h # c => Bystander(h)
    BY <1>3, <2>1
  <2> QED
    BY <1>1, <2>1, <2>2
<1> QED
  BY <1>4, <1>5, <1>6, <1>7

\* A file of the pair is written.
LEMMA KeyWritten ==
    ASSUME TypeInv, NEW c \in Hosts, NEW s, identity' = [identity EXCEPT ![c].key = s]
    PROVE  /\ identity'[c].key = s /\ identity'[c].crt = identity[c].crt
           /\ \A h \in Hosts : h # c => identity'[h] = identity[h]
<1>1. identity \in [Hosts -> Pairs]
  BY TypeParts DEF TypeInv, HostTypes
<1> QED
  BY <1>1, SMT, Z3 DEF Pairs

LEMMA CrtWritten ==
    ASSUME TypeInv, NEW c \in Hosts, NEW s, identity' = [identity EXCEPT ![c].crt = s]
    PROVE  /\ identity'[c].crt = s /\ identity'[c].key = identity[c].key
           /\ \A h \in Hosts : h # c => identity'[h] = identity[h]
<1>1. identity \in [Hosts -> Pairs]
  BY TypeParts DEF TypeInv, HostTypes
<1> QED
  BY <1>1, SMT, Z3 DEF Pairs

\* What the steps of a client do to the identity it holds.
HolderStep(c) == Holder(c)' /\ \A h \in Hosts : h # c => Bystander(h)

LEMMA BeginHolds ==
    ASSUME TypeInv, RecordsStay, NEW c \in Hosts, Holder(c),
           RunClient(c) \/ Ping(c) \/ Crash(c) \/ \E h \in Hosts : Redirect(c, h)
    PROVE  HolderStep(c)
<1>1. /\ identity' = identity /\ registered'[c] = None
      /\ pc'[c] \in {"root", "enroll", "register", "off"} /\ (pc'[c] = "register" => PairLoads(c))
      /\ \A h \in Hosts : h # c => Bystander(h)
  BY BeginMoves
<1>2. pc'[c] \notin {"write_key", "write_crt"}
  BY <1>1
<1>3. Holder(c)'
  BY <1>1, <1>2, HolderMoves
<1> QED
  BY <1>1, <1>3 DEF HolderStep

LEMMA EndHolds ==
    ASSUME TypeInv, RecordsStay, NEW c \in Hosts, Holder(c), EndStep(c)
    PROVE  HolderStep(c)
<1>1. /\ identity' = identity /\ registered' = registered
      /\ pc'[c] \in {"idle", "pull_cache", "pull_crl"}
      /\ \A h \in Hosts : h # c => pc'[h] = pc[h] /\ loc'[h] = loc[h]
  BY EndMoves
<1>2. pc'[c] \notin {"write_key", "write_crt", "root", "enroll", "register"}
  BY <1>1
<1>3. registered'[c] # None => registered'[c] = Founder /\ PairLoads(c)
  BY <1>1 DEF Holder
<1>4. Holder(c)'
  BY <1>1, <1>2, <1>3, HolderMoves
<1> QED
  BY <1>1, <1>4 DEF HolderStep, Bystander

LEMMA RootHolds ==
    ASSUME TypeInv, RecordsStay, NEW c \in Hosts, Holder(c), fetchAndInstallRootCA(c)
    PROVE  HolderStep(c)
<1>t. pc \in [Hosts -> Steps]
  BY TypeParts DEF TypeInv, HostTypes
<1> DEFINE step == IF PairLoads(c) THEN "register" ELSE "enroll"
<1>1. step \in {"register", "enroll"} /\ (step = "register" => PairLoads(c))
  OBVIOUS
<1>2. /\ pc[c] = "root" /\ Goto(c, step)
      /\ identity' = identity /\ loc' = loc /\ registered' = registered
  BY DEF fetchAndInstallRootCA
<1> HIDE DEF step
<1>3. pc'[c] = step /\ \A h \in Hosts : h # c => pc'[h] = pc[h]
  BY <1>t, <1>2 DEF Goto
<1>4. registered[c] = None
  BY <1>2 DEF Holder
<1>5. pc'[c] \notin {"write_key", "write_crt"} /\ (pc'[c] = "register" => PairLoads(c))
  BY <1>1, <1>3
<1>6. Holder(c)'
  BY <1>2, <1>4, <1>5, HolderMoves
<1> QED
  BY <1>2, <1>3, <1>6 DEF HolderStep, Bystander

LEMMA RegisterHolds ==
    ASSUME TypeInv, RecordsStay, NEW c \in Hosts, Holder(c), RegisterWithMaster(c),
           Master(c) = Founder
    PROVE  HolderStep(c)
<1>t. pc \in [Hosts -> Steps] /\ registered \in [Hosts -> Hosts \cup {None}]
  BY TypeParts DEF TypeInv, HostTypes
<1>1. /\ pc[c] = "register" /\ Goto(c, AfterRegister(c)) /\ identity' = identity /\ loc' = loc
      /\ registered' = [registered EXCEPT ![c] = Founder]
  BY DEF RegisterWithMaster
<1>2. AfterRegister(c) \in {"idle", "pull_cache"}
  BY DEF AfterRegister
<1>3. /\ pc'[c] \in {"idle", "pull_cache"} /\ registered'[c] = Founder
      /\ \A h \in Hosts : h # c => pc'[h] = pc[h] /\ registered'[h] = registered[h]
  BY <1>t, <1>1, <1>2 DEF Goto
<1>4. PairLoads(c)
  BY <1>1 DEF Holder
<1>5. pc'[c] \notin {"write_key", "write_crt", "root", "enroll", "register"}
  BY <1>3
<1>6. Holder(c)'
  BY <1>1, <1>3, <1>4, <1>5, HolderMoves
<1> QED
  BY <1>1, <1>3, <1>6 DEF HolderStep, Bystander


\* The founder records the identity before c has it.
LEMMA EnrollHolds ==
    ASSUME TypeInv, RecordsStay, Tables, NEW c \in Hosts, Holder(c), Enroll(c),
           Master(c) = Founder
    PROVE  HolderStep(c)
<1>t. /\ pc \in [Hosts -> Steps] /\ db[Founder] \in Databases /\ FileTypes
      /\ Founder \in Hosts /\ c \in IPs
  BY TypeParts, FileFacts, Given DEF TypeInv, HostTypes, Hosts
<1> DEFINE s == FreshSerial
           a == AddCert(db[Founder], s, Identity(c))
           d == registerClient(a, c)
<1>1. /\ pc[c] = "enroll" /\ Goto(c, "write_key") /\ identity' = identity
      /\ registered' = registered /\ loc' = [loc EXCEPT ![c].serial = s] /\ Rebuild(Founder, d)
  BY DEF Enroll, EnrollAtMaster
<1>2. s \in Serials
  BY FreshTypes DEF Enroll
<1> HIDE DEF s
<1>3. Adds(a, db[Founder], s, Identity(c))
  BY <1>t, <1>2, AddTypes DEF Subjects
<1>4. a \in Databases /\ [serial |-> s, subject |-> Identity(c)] \in a.certs
  BY <1>3 DEF Adds
<1> HIDE DEF a
<1>5. d \in Databases /\ Keeps(d, a)
  BY <1>t, <1>4, RegistryTypes
<1> HIDE DEF d
<1>6. Rebuilt(Founder, d)
  BY <1>t, <1>1, <1>5, RebuildKeeps
<1>7. db'[Founder].certs = a.certs
  BY <1>5, <1>6 DEF Rebuilt, Keeps, KeepsCerts
<1>8. Records(db'[Founder], c, s)
  BY <1>4, <1>7 DEF Records
<1>9. loc'[c].serial = s /\ \A h \in Hosts : h # c => loc'[h] = loc[h]
  BY <1>1, SerialAcks
<1>10. pc'[c] = "write_key" /\ \A h \in Hosts : h # c => pc'[h] = pc[h]
  BY <1>t, <1>1 DEF Goto
<1>11. registered'[c] = None
  BY <1>1 DEF Holder
<1>12. identity'[c].crt # None => Records(db'[Founder], c, identity'[c].crt)
  BY <1>1 DEF RecordsStay, Holder
<1>13. Holder(c)'
  BY <1>2, <1>8, <1>9, <1>10, <1>11, <1>12 DEF Holder
<1> QED
  BY <1>1, <1>9, <1>10, <1>13 DEF HolderStep, Bystander

LEMMA KeyHolds ==
    ASSUME TypeInv, RecordsStay, NEW c \in Hosts, Holder(c), WriteKey(c)
    PROVE  HolderStep(c)
<1>t. pc \in [Hosts -> Steps]
  BY TypeParts DEF TypeInv, HostTypes
<1>1. /\ pc[c] = "write_key" /\ Goto(c, "write_crt") /\ loc' = loc /\ registered' = registered
      /\ identity' = [identity EXCEPT ![c].key = loc[c].serial]
  BY DEF WriteKey
<1>2. pc'[c] = "write_crt" /\ \A h \in Hosts : h # c => pc'[h] = pc[h]
  BY <1>t, <1>1 DEF Goto
<1>3. /\ identity'[c].key = loc[c].serial /\ identity'[c].crt = identity[c].crt
      /\ \A h \in Hosts : h # c => identity'[h] = identity[h]
  BY <1>1, KeyWritten
<1>4. registered'[c] = None
  BY <1>1 DEF Holder
<1>5. loc[c].serial \in Serials /\ Records(db'[Founder], c, loc[c].serial)
  BY <1>1 DEF RecordsStay, Holder
<1>6. identity'[c].crt # None => Records(db'[Founder], c, identity'[c].crt)
  BY <1>3 DEF RecordsStay, Holder
<1>7. Holder(c)'
  BY <1>1, <1>2, <1>3, <1>4, <1>5, <1>6 DEF Holder
<1> QED
  BY <1>1, <1>2, <1>3, <1>7 DEF HolderStep, Bystander

LEMMA CrtHolds ==
    ASSUME TypeInv, RecordsStay, NEW c \in Hosts, Holder(c), WriteCrt(c)
    PROVE  HolderStep(c)
<1>t. pc \in [Hosts -> Steps]
  BY TypeParts DEF TypeInv, HostTypes
<1>1. /\ pc[c] = "write_crt" /\ Goto(c, "register") /\ loc' = loc /\ registered' = registered
      /\ identity' = [identity EXCEPT ![c].crt = loc[c].serial]
  BY DEF WriteCrt
<1>2. pc'[c] = "register" /\ \A h \in Hosts : h # c => pc'[h] = pc[h]
  BY <1>t, <1>1 DEF Goto
<1>3. /\ identity'[c].crt = loc[c].serial /\ identity'[c].key = identity[c].key
      /\ \A h \in Hosts : h # c => identity'[h] = identity[h]
  BY <1>1, CrtWritten
<1>4. registered'[c] = None /\ identity[c].key = loc[c].serial
  BY <1>1 DEF Holder
<1>5. loc[c].serial \in Serials /\ Records(db'[Founder], c, loc[c].serial)
  BY <1>1 DEF RecordsStay, Holder
<1>6. PairLoads(c)'
  BY <1>3, <1>4, <1>5, Given DEF PairLoads
<1>7. Holder(c)'
  BY <1>2, <1>3, <1>4, <1>5, <1>6 DEF Holder
<1> QED
  BY <1>1, <1>2, <1>3, <1>7 DEF HolderStep, Bystander

LEMMA NextKnown ==
    ASSUME RoleInv, Next, KnownInv
    PROVE  KnownInv'
<1>t. TypeInv /\ Roles
  BY DEF RoleInv
<1>1. ASSUME NEW c \in Hosts, RunPromote(c) PROVE KnownInv'
  BY <1>t, <1>1, PromoteFacts DEF KnownInv
<1>2. ASSUME \A c \in Hosts : ~RunPromote(c), used'.promotions = 0 PROVE Known'
  <2>1. used.promotions = 0
    BY <1>t, <1>2, RoleSteps DEF RoleStep
  <2>2. Tables /\ \A c \in Hosts \ {Founder} : Holder(c)
    BY <2>1 DEF KnownInv, Known
  <2>3. Tables' /\ RecordsStay
    BY <1>t, <1>2, <2>2, TablesStay
  <2>4. \A h \in Hosts : Master(h) = Founder /\ (IsClient(h) <=> h # Founder)
    BY <2>1, Sole
  <2>5. ASSUME NEW c \in Hosts, c # Founder, HolderStep(c) PROVE Known'
    <3>1. ASSUME NEW h \in Hosts \ {Founder}, h # c PROVE Holder(h)'
      BY <2>2, <2>3, <2>5, <3>1, HolderStays DEF HolderStep
    <3> QED
      BY <2>3, <2>5, <3>1 DEF HolderStep, Known
  <2>6. ASSUME \A h \in Hosts \ {Founder} : Bystander(h) PROVE Known'
    <3>1. ASSUME NEW h \in Hosts \ {Founder} PROVE Holder(h)'
      BY <2>2, <2>3, <2>6, <3>1, HolderStays
    <3> QED
      BY <2>3, <3>1 DEF Known
  <2>7. ASSUME NEW c \in Hosts, RunClient(c) \/ Ping(c) \/ \E h \in Hosts : Redirect(c, h)
        PROVE  Known'
    <3>1. c # Founder
      BY <1>t, <2>4, <2>7, Asking
    <3> QED
      BY <1>t, <2>2, <2>3, <2>5, <2>7, <3>1, BeginHolds
  <2>8. ASSUME NEW c \in Hosts, Crash(c) PROVE Known'
    <3>1. CASE c # Founder
      BY <1>t, <2>2, <2>3, <2>5, <2>8, <3>1, BeginHolds
    <3>2. CASE c = Founder
      BY <1>t, <2>6, <2>8, <3>2, BeginMoves
    <3> QED
      BY <3>1, <3>2
  <2>9. ASSUME NEW c \in Hosts, EndStep(c) PROVE Known'
    <3>1. c # Founder
      BY <1>t, <2>4, <2>9, Asking DEF EndStep
    <3> QED
      BY <1>t, <2>2, <2>3, <2>5, <2>9, <3>1, EndHolds
  <2>10. ASSUME NEW c \in Hosts, fetchAndInstallRootCA(c) \/ WriteKey(c) \/ WriteCrt(c) PROVE Known'
    <3>1. c # Founder
      BY <1>t, <2>4, <2>10, Asking
    <3>2. HolderStep(c)
      BY <1>t, <2>2, <2>3, <2>10, <3>1, RootHolds, KeyHolds, CrtHolds
    <3> QED
      BY <2>5, <3>1, <3>2
  <2>11. ASSUME NEW c \in Hosts, Enroll(c) \/ RegisterWithMaster(c) PROVE Known'
    <3>1. c # Founder
      BY <1>t, <2>4, <2>11, Asking
    <3>2. HolderStep(c)
      BY <1>t, <2>2, <2>3, <2>4, <2>11, <3>1, EnrollHolds, RegisterHolds
    <3> QED
      BY <2>5, <3>1, <3>2
  <2>12. ASSUME NEW c \in Hosts, RunMaster(c) PROVE Known'
    <3>1. /\ Goto(c, "serving") /\ identity' = identity /\ loc' = loc /\ registered' = registered
          /\ ~IsClient(c)
      BY <2>12 DEF RunMaster, IsClient
    <3>2. pc \in [Hosts -> Steps] /\ c = Founder
      BY <1>t, <2>4, <3>1, TypeParts DEF TypeInv, HostTypes
    <3>3. \A h \in Hosts \ {Founder} : Bystander(h)
      BY <3>1, <3>2 DEF Goto, Bystander
    <3> QED
      BY <2>6, <3>3
  <2>13. ASSUME NEW c \in Hosts, ListRevocation(c) \/ PublishRevocation(c) \/ StopRevoke(c)
         PROVE  Known'
    BY <2>6, <2>13 DEF ListRevocation, PublishRevocation, StopRevoke, Bystander
  <2>14. ASSUME NEW c \in Hosts, NEW h \in Hosts, ChangeRegistry(h, c) PROVE Known'
    BY <2>6, <2>14 DEF ChangeRegistry, Bystander
  <2>15. ASSUME NEW h \in Hosts, NEW s \in Serials, Revoke(h, s) PROVE Known'
    BY <2>6, <2>15 DEF Revoke, Bystander
  <2> QED
    BY <1>2, <2>7, <2>8, <2>9, <2>10, <2>11, <2>12, <2>13, <2>14, <2>15
       DEF Next, ClientStep, EndStep
<1> QED
  BY <1>1, <1>2 DEF KnownInv

LEMMA InitKnown == Init => KnownInv
<1> SUFFICES ASSUME Init PROVE Known
  BY DEF KnownInv
<1>1. /\ db[Founder] = FounderDB /\ minted = Issued \cup {SerialOf[h] : h \in Enrolled}
  BY Given DEF Init
<1>2. Tables
  <2>1. \A x \in FounderDB.certs : x.serial \in minted
    BY <1>1, FounderTypes
  <2> QED
    BY <1>1, <2>1 DEF Tables
<1>3. ASSUME NEW c \in Hosts \ {Founder} PROVE Holder(c)
  <2>1. pc[c] = "off" /\ registered[c] = None
    BY DEF Init
  <2>2. identity[c].crt # None => c \in Enrolled /\ identity[c].crt = SerialOf[c]
    BY SMT, Z3 DEF Init
  <2>3. c \in Enrolled => Records(FounderDB, c, SerialOf[c])
    BY FirstSerials, FounderTypes DEF Records
  <2>4. identity[c].crt # None => Records(db[Founder], c, identity[c].crt)
    BY <1>1, <2>2, <2>3
  <2> QED
    BY <2>1, <2>4 DEF Holder
<1> QED
  BY <1>2, <1>3 DEF Known

LEMMA StutterKnown == KnownInv /\ UNCHANGED vars => KnownInv'
<1> SUFFICES ASSUME KnownInv, UNCHANGED vars PROVE KnownInv'
  OBVIOUS
<1>1. /\ identity' = identity /\ pc' = pc /\ loc' = loc /\ registered' = registered
      /\ db' = db /\ used' = used /\ minted' = minted
  BY DEF vars
<1>2. Tables => Tables'
  BY <1>1 DEF Tables
<1>3. \A c \in Hosts : Holder(c) => Holder(c)'
  BY <1>1 DEF Holder, PairLoads
<1> QED
  BY <1>1, <1>2, <1>3 DEF KnownInv, Known

\* Until the first promotion, a client whose last registration was accepted
\* and which has not been deregistered or blocked since is let in on the
\* control port unless its identity has been revoked, which --revoke may do
\* to any serial at any time: the pair on its disk loads and is one its
\* master has recorded, although a crash or a lost answer may interrupt
\* register() between any two of its steps (ensureClientIdentity,
\* authorizeClient).
THEOREM RegisteredGetsIn == Spec => [](used.promotions = 0 => RegisteredIsAuthorised)
<1>1. RoleInv /\ KnownInv /\ [Next]_vars => KnownInv'
  BY NextKnown, StutterKnown
<1>2. RoleInv /\ KnownInv => (used.promotions = 0 => RegisteredIsAuthorised)
  <2> SUFFICES ASSUME RoleInv, KnownInv, used.promotions = 0, NEW c \in Hosts,
                      registered[c] # None, IsClient(c), hasClient(db[registered[c]], c),
                      ~IsBlocked(db[registered[c]], c),
                      ~IsRevoked(db[registered[c]], identity[c].crt)
               PROVE  authorizeClient(registered[c], c)
    BY DEF RegisteredIsAuthorised
  <2>1. c # Founder
    BY DEF RoleInv, Alone
  <2>2. Tables /\ Holder(c)
    BY <2>1 DEF KnownInv, Known
  <2>3. registered[c] = Founder /\ PairLoads(c)
    BY <2>2 DEF Holder
  <2>4. Records(db[Founder], c, identity[c].crt)
    BY <2>2, <2>3 DEF Holder, PairLoads
  <2>5. HasCert(db[Founder], identity[c].crt, Identity(c))
    BY <2>4 DEF Records, HasCert
  <2> QED
    BY <2>3, <2>5 DEF authorizeClient
<1> QED
  BY <1>1, <1>2, InitKnown, RoleInvariant, PTL DEF Spec


=============================================================================
