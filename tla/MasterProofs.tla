---------------------------- MODULE MasterProofs ----------------------------
(***************************************************************************)
(* Proofs about Master, for every set of processes, clients, targets,      *)
(* files and serials, any number of commands, failures and losses of the   *)
(* database.  First the types, then what is published, then what is        *)
(* issued.                                                                 *)
(***************************************************************************)
EXTENDS Master, TLAPS

\* A step goes to Zenon unless it names other provers, which are tried in turn.
USE ZenonT(30)

(***************************************************************************)
(* Every statement of the store leaves a well-formed database.             *)
(***************************************************************************)
LEMMA StoreTypes ==
    ASSUME NEW d \in Databases
    PROVE  /\ BuildSnapshot(d) \in Snapshots
           /\ \A ip \in IPs : /\ registerClient(d, ip) \in Databases
                              /\ RemoveClient(d, ip) \in Databases
                              /\ BlockIP(d, ip) \in Databases
                              /\ UnblockIP(d, ip) \in Databases
           /\ \A s \in Serials, b \in Subjects : /\ AddCert(d, s, b) \in Databases
                                                 /\ replaceCertificate(d, s, b) \in Databases
           /\ \A s \in Serials, r \in Reasons : RevokeCert(d, s, r) \in Databases
           /\ \A n \in Nat : /\ raiseCacheSequence(d, n) \in Databases
                             /\ nextCRLNumber(d, n) \in Databases
           /\ nextCacheSequence(d) \in Databases
<1>1. BuildSnapshot(d) \in Snapshots
  BY DEF BuildSnapshot, Databases, Snapshots
<1>2. \A ip \in IPs : /\ registerClient(d, ip) \in Databases
                      /\ RemoveClient(d, ip) \in Databases
                      /\ BlockIP(d, ip) \in Databases
                      /\ UnblockIP(d, ip) \in Databases
  BY DEF registerClient, RemoveClient, BlockIP, UnblockIP, Databases
<1>3. ASSUME NEW s \in Serials, NEW b \in Subjects
      PROVE  AddCert(d, s, b) \in Databases
  BY SMT, Z3 DEF AddCert, Databases, CertRecords
<1>4. ASSUME NEW s \in Serials, NEW b \in Subjects
      PROVE  replaceCertificate(d, s, b) \in Databases
  BY <1>3, SMT, Z3 DEF replaceCertificate, Databases, CertRecords, RevokedRecords, Reasons
<1>5. ASSUME NEW s \in Serials, NEW r \in Reasons
      PROVE  RevokeCert(d, s, r) \in Databases
  BY SMT, Z3 DEF RevokeCert, Databases, RevokedRecords
<1>6. \A n \in Nat : /\ raiseCacheSequence(d, n) \in Databases
                     /\ nextCRLNumber(d, n) \in Databases
  BY SMT, Z3 DEF raiseCacheSequence, nextCRLNumber, Larger, Databases
<1>7. nextCacheSequence(d) \in Databases
  BY SMT, Z3 DEF nextCacheSequence, Databases
<1> QED
  BY <1>1, <1>2, <1>3, <1>4, <1>5, <1>6, <1>7

LEMMA EmptyTypes == migrate \in Databases /\ NoCRL \in CRLs /\ NoCache \in Caches
<1>1. migrate \in Databases
  BY DEF migrate, Databases
<1> QED
  BY <1>1, StoreTypes DEF NoCRL, CRLs, NoCache, Caches

-----------------------------------------------------------------------------
(***************************************************************************)
(* Type correctness.  The types of each variable are named, so that a leaf *)
(* opens only the ones it needs.                                           *)
(***************************************************************************)
CmdTypes == [op : Operations \cup {"none"}, ip : IPs \cup {None},
             subject : Subjects \cup {None}, serial : Serials \cup {None}]

LocTypes == [crl : CRLs, cache : Caches, previousKey : Serials \cup {None}, wrote : Nat]

PairTypes == [key : Serials \cup {None}, crt : Serials \cup {None}]

\* Numbering what a process is about to write.
LEMMA NumberTypes ==
    ASSUME NEW l \in [Procs -> LocTypes], NEW p \in Procs, NEW n \in Nat
    PROVE  /\ [l EXCEPT ![p].crl.number = n] \in [Procs -> LocTypes]
           /\ [l EXCEPT ![p].cache.seq = n] \in [Procs -> LocTypes]
<1>1. [l[p].crl EXCEPT !.number = n] \in CRLs /\ [l[p].cache EXCEPT !.seq = n] \in Caches
  BY DEF LocTypes, CRLs, Caches
<1>2. /\ [l[p] EXCEPT !.crl = [l[p].crl EXCEPT !.number = n]] \in LocTypes
      /\ [l[p] EXCEPT !.cache = [l[p].cache EXCEPT !.seq = n]] \in LocTypes
  BY <1>1 DEF LocTypes
<1>3. /\ [l EXCEPT ![p] = [l[p] EXCEPT !.crl = [l[p].crl EXCEPT !.number = n]]] \in [Procs -> LocTypes]
      /\ [l EXCEPT ![p] = [l[p] EXCEPT !.cache = [l[p].cache EXCEPT !.seq = n]]] \in [Procs -> LocTypes]
  BY <1>2
<1> QED
  BY <1>3, SMT, Z3

\* What a command must carry at a step that uses it.
CmdFits(c, step) ==
    /\ step = "RevokeCert" => c.serial \in Serials
    /\ step \in {"lockIssuance", "writeKey", "writeCrt", "replaceCertificate"}
          => c.serial \in Serials /\ c.subject \in Targets
    /\ step = "AddCert" => c.serial \in Serials /\ c.subject \in Subjects
    /\ step \in {"registerClient", "RemoveClient", "UnblockIP"} => c.ip \in IPs
    /\ step \in {"IsRevoked", "CertBySerial", "hasClient"} => c.serial \in Serials
    /\ c.op \in Issuing => c.serial \in Serials
    /\ c.op = "enroll" => c.ip \in IPs

CmdOK == \A p \in Procs : CmdFits(cmd[p], pc[p])

TypeInv == TypeOK /\ CmdOK

\* A process moves on, with a command that fits its next step.
LEMMA MoveTypes ==
    ASSUME TypeInv, NEW p \in Procs, NEW c \in CmdTypes, NEW to \in Steps, CmdFits(c, to),
           pc' = [pc EXCEPT ![p] = to], cmd' = [cmd EXCEPT ![p] = c]
    PROVE  /\ pc' \in [Procs -> Steps]
           /\ cmd' \in [Procs -> CmdTypes]
           /\ CmdOK'
<1>1. pc \in [Procs -> Steps] /\ cmd \in [Procs -> CmdTypes]
  BY DEF TypeInv, TypeOK, CmdTypes
<1> QED
  BY <1>1 DEF TypeInv, CmdOK

\* The start of a command.
LEMMA StartTypes ==
    ASSUME TypeInv, NEW p \in Procs, NEW c \in CmdTypes, NEW first \in Steps,
           CmdFits(c, first), Start(p, c, first)
    PROVE  /\ pc' \in [Procs -> Steps]
           /\ cmd' \in [Procs -> CmdTypes]
           /\ used' \in [commands : Nat, faults : Nat, resets : Nat, torn : Nat]
           /\ CmdOK'
<1>1. pc' = [pc EXCEPT ![p] = first] /\ cmd' = [cmd EXCEPT ![p] = c]
  BY DEF Start, Goto
<1>2. used' \in [commands : Nat, faults : Nat, resets : Nat, torn : Nat]
  <2>1. used \in [commands : Nat, faults : Nat, resets : Nat, torn : Nat]
    BY DEF TypeInv, TypeOK
  <2>2. used' = [used EXCEPT !.commands = @ + 1]
    BY DEF Start
  <2> QED
    BY <2>1, <2>2, SMT, Z3
<1> QED
  BY <1>1, <1>2, MoveTypes

\* A step that keeps the command.
LEMMA GotoTypes ==
    ASSUME TypeInv, NEW p \in Procs, NEW from, NEW to \in Steps, CmdFits(cmd[p], to),
           Goto(p, from, to), UNCHANGED cmd
    PROVE  /\ pc' \in [Procs -> Steps]
           /\ CmdOK'
BY DEF Goto, TypeInv, TypeOK, CmdOK

\* The end of a process.
LEMMA LeaveTypes ==
    ASSUME TypeInv, NEW p \in Procs, Leave(p)
    PROVE  /\ pc' \in [Procs -> Steps]
           /\ cmd' \in [Procs -> CmdTypes]
           /\ loc' \in [Procs -> LocTypes]
           /\ lock' \in [Locks -> Procs \cup {None}]
           /\ CmdOK'
<1>1. NoCmd \in CmdTypes /\ NoLocals \in LocTypes
  BY EmptyTypes DEF NoCmd, Cmd, CmdTypes, NoLocals, LocTypes
<1>2. CmdOK'
  BY SMT, Z3 DEF TypeInv, TypeOK, CmdOK, CmdFits, Leave, NoCmd, Cmd, Issuing
<1> QED
  BY <1>1, <1>2 DEF TypeInv, TypeOK, Leave, CmdTypes, LocTypes, Steps

\* A write to the tables.
LEMMA WriteTypes ==
    ASSUME TypeInv, NEW p \in Procs, NEW d \in Databases, Write(p, d)
    PROVE  db' \in Databases /\ version' \in Nat /\ loc' \in [Procs -> LocTypes]
<1>1. version \in Nat /\ loc \in [Procs -> LocTypes]
  BY DEF TypeInv, TypeOK, LocTypes
<1>2. version + 1 \in Nat
  BY <1>1, SMT, Z3
<1>3. [loc[p] EXCEPT !.wrote = version + 1] \in LocTypes
  BY <1>1, <1>2 DEF LocTypes
<1>4. loc' = [loc EXCEPT ![p] = [loc[p] EXCEPT !.wrote = version + 1]]
  BY <1>1 DEF Write
<1> QED
  BY <1>1, <1>2, <1>3, <1>4 DEF Write

\* Every command and request starts in a well-typed state.
LEMMA InvokeTypes ==
    ASSUME TypeInv, NEW p \in Procs, Invoke(p)
    PROVE  TypeInv'
<1> USE MasterAssumption DEF CmdTypes
<1>a. \A ip \in IPs : Identity(ip) \in Subjects
  BY DEF Subjects
<1>b. Targets \subseteq Subjects
  BY DEF Subjects
<1>1. ASSUME NEW s \in Serials, RunRevokeCert(p, s)
      PROVE  TypeInv'
  <2>1. Cmd("revoke", None, None, s) \in CmdTypes /\ "RevokeCert" \in Steps
    BY DEF Cmd, Operations, Steps
  <2>f. CmdFits(Cmd("revoke", None, None, s), "RevokeCert")
    BY <1>a, <1>b DEF CmdFits, Cmd, Issuing, Handlers
  <2> QED
    BY <1>1, <2>1, <2>f, StartTypes DEF RunRevokeCert, TypeInv, TypeOK, files, CmdTypes
<1>2. ASSUME NEW t \in Targets, NEW s \in Serials, RunReissueCert(p, t, s)
      PROVE  TypeInv'
  <2>1. Cmd("reissue", None, t, s) \in CmdTypes /\ "lockIssuance" \in Steps
    BY <1>b DEF Cmd, Operations, Steps
  <2>f. CmdFits(Cmd("reissue", None, t, s), "lockIssuance")
    BY <1>a, <1>b DEF CmdFits, Cmd, Issuing, Handlers
  <2> QED
    BY <1>2, <1>b, <2>1, <2>f, StartTypes DEF RunReissueCert, Mint, TypeInv, TypeOK, files, CmdTypes
<1>3. ASSUME NEW t \in Targets, NEW s \in Serials, RunIssueCLI(p, t, s)
      PROVE  TypeInv'
  <2>1. Cmd("issue", None, t, s) \in CmdTypes /\ "lockIssuance" \in Steps
    BY <1>b DEF Cmd, Operations, Steps
  <2>f. CmdFits(Cmd("issue", None, t, s), "lockIssuance")
    BY <1>a, <1>b DEF CmdFits, Cmd, Issuing, Handlers
  <2> QED
    BY <1>3, <1>b, <2>1, <2>f, StartTypes DEF RunIssueCLI, Mint, TypeInv, TypeOK, files, CmdTypes
<1>4. ASSUME NEW ip \in IPs, RunDeregisterClient(p, ip)
      PROVE  TypeInv'
  <2>1. Cmd("deregister", ip, None, None) \in CmdTypes /\ "RemoveClient" \in Steps
    BY DEF Cmd, Operations, Steps
  <2>f. CmdFits(Cmd("deregister", ip, None, None), "RemoveClient")
    BY <1>a, <1>b DEF CmdFits, Cmd, Issuing, Handlers
  <2> QED
    BY <1>4, <2>1, <2>f, StartTypes DEF RunDeregisterClient, TypeInv, TypeOK, files, CmdTypes
<1>5. ASSUME NEW ip \in IPs, RunBlockClient(p, ip)
      PROVE  TypeInv'
  <2>1. Cmd("block", ip, None, None) \in CmdTypes /\ "RemoveClient" \in Steps
    BY DEF Cmd, Operations, Steps
  <2>f. CmdFits(Cmd("block", ip, None, None), "RemoveClient")
    BY <1>a, <1>b DEF CmdFits, Cmd, Issuing, Handlers
  <2>2. BlockIP(db, ip) \in Databases
    BY StoreTypes DEF TypeInv, TypeOK
  <2>3. db' \in Databases /\ version' \in Nat /\ loc' \in [Procs -> LocTypes]
    BY <1>5, <2>2, WriteTypes DEF RunBlockClient
  <2> QED
    BY <1>5, <2>1, <2>f, <2>3, StartTypes DEF RunBlockClient, TypeInv, TypeOK, files, CmdTypes, LocTypes
<1>6. ASSUME NEW ip \in IPs, RunUnblockClient(p, ip)
      PROVE  TypeInv'
  <2>1. Cmd("unblock", ip, None, None) \in CmdTypes /\ "UnblockIP" \in Steps
    BY DEF Cmd, Operations, Steps
  <2>f. CmdFits(Cmd("unblock", ip, None, None), "UnblockIP")
    BY <1>a, <1>b DEF CmdFits, Cmd, Issuing, Handlers
  <2> QED
    BY <1>6, <2>1, <2>f, StartTypes DEF RunUnblockClient, TypeInv, TypeOK, files, CmdTypes
<1>7. ASSUME RunMaster(p)
      PROVE  TypeInv'
  <2>1. Cmd("master", None, None, None) \in CmdTypes /\ "lockCRL" \in Steps
    BY DEF Cmd, Operations, Steps
  <2>f. CmdFits(Cmd("master", None, None, None), "lockCRL")
    BY <1>a, <1>b DEF CmdFits, Cmd, Issuing, Handlers
  <2> QED
    BY <1>7, <2>1, <2>f, StartTypes DEF RunMaster, TypeInv, TypeOK, files, CmdTypes
<1>8. ASSUME RunMasterOnEmptyDB(p)
      PROVE  TypeInv'
  <2>1. Cmd("master", None, None, None) \in CmdTypes /\ "lockCRL" \in Steps
    BY DEF Cmd, Operations, Steps
  <2>f. CmdFits(Cmd("master", None, None, None), "lockCRL")
    BY <1>a, <1>b DEF CmdFits, Cmd, Issuing, Handlers
  <2>2. db' \in Databases /\ version' \in Nat /\ loc' \in [Procs -> LocTypes]
    BY <1>8, EmptyTypes, WriteTypes DEF RunMasterOnEmptyDB
  <2>u. used \in [commands : Nat, faults : Nat, resets : Nat, torn : Nat]
    BY DEF TypeInv, TypeOK
  <2>3. used' \in [commands : Nat, faults : Nat, resets : Nat, torn : Nat]
    <3> DEFINE commands == used.commands + 1
    <3>1. used' = [[used EXCEPT !.resets = @ + 1] EXCEPT !.commands = commands]
      BY <1>8, <2>u DEF RunMasterOnEmptyDB
    <3>2. [used EXCEPT !.resets = @ + 1] \in [commands : Nat, faults : Nat, resets : Nat, torn : Nat]
      BY <2>u, SMT, Z3
    <3>3. commands \in Nat
      BY <2>u, SMT, Z3
    <3> HIDE DEF commands
    <3> QED
      BY <3>1, <3>2, <3>3
  <2>4. pc' \in [Procs -> Steps] /\ cmd' \in [Procs -> CmdTypes] /\ CmdOK'
    BY <1>8, <2>1, <2>f, MoveTypes DEF RunMasterOnEmptyDB, Goto
  <2> QED
    BY <1>8, <2>2, <2>3, <2>4 DEF RunMasterOnEmptyDB, TypeInv, TypeOK, files, CmdTypes, LocTypes
<1>9. ASSUME NEW ip \in IPs, Register(p, ip)
      PROVE  TypeInv'
  <2>1. Cmd("register", ip, None, None) \in CmdTypes /\ "registerClient" \in Steps
    BY DEF Cmd, Operations, Handlers, Steps
  <2>f. CmdFits(Cmd("register", ip, None, None), "registerClient")
    BY <1>a, <1>b DEF CmdFits, Cmd, Issuing, Handlers
  <2> QED
    BY <1>9, <2>1, <2>f, StartTypes DEF Register, TypeInv, TypeOK, files, CmdTypes
<1>10. ASSUME NEW ip \in IPs, NEW s \in Serials, Enroll(p, ip, s)
       PROVE  TypeInv'
  <2>1. Cmd("enroll", ip, Identity(ip), s) \in CmdTypes /\ "AddCert" \in Steps
    BY <1>a DEF Cmd, Operations, Handlers, Steps
  <2>f. CmdFits(Cmd("enroll", ip, Identity(ip), s), "AddCert")
    BY <1>a, <1>b DEF CmdFits, Cmd, Issuing, Handlers
  <2> QED
    BY <1>10, <1>a, <2>1, <2>f, StartTypes DEF Enroll, Mint, TypeInv, TypeOK, files, CmdTypes
<1>11. ASSUME NEW op \in Handlers, NEW ip \in IPs, NEW s \in Serials, Control(p, op, ip, s)
       PROVE  TypeInv'
  <2>1. Cmd(op, ip, minted[s], s) \in CmdTypes /\ "IsRevoked" \in Steps
    BY DEF Cmd, Operations, Handlers, Steps, TypeInv, TypeOK
  <2>f. CmdFits(Cmd(op, ip, minted[s], s), "IsRevoked")
    BY <1>a, <1>b DEF CmdFits, Cmd, Issuing, Handlers
  <2> QED
    BY <1>11, <2>1, <2>f, StartTypes DEF Control, TypeInv, TypeOK, files, CmdTypes
<1> QED
  BY <1>1, <1>2, <1>3, <1>4, <1>5, <1>6, <1>7, <1>8, <1>9, <1>10, <1>11 DEF Invoke

\* So does every request that is being authorized.
LEMMA AuthorizeTypes ==
    ASSUME TypeInv, NEW p \in Procs, CheckRevoked(p) \/ CheckCert(p) \/ CheckClient(p)
    PROVE  TypeInv'
<1>1. ASSUME Refuse(p)
      PROVE  TypeInv'
  BY <1>1, LeaveTypes DEF Refuse, TypeInv, TypeOK, files, CmdTypes, LocTypes
<1>2. ASSUME NEW from, NEW to \in {"CertBySerial", "hasClient"}, pc[p] \in {"IsRevoked", "CertBySerial"},
             Goto(p, from, to),
             UNCHANGED <<db, files, lock, cmd, loc, minted, delivered, clock, online, version, acked, used>>
      PROVE  TypeInv'
  <2>1. CmdFits(cmd[p], pc[p])
    BY DEF TypeInv, CmdOK
  <2>2. CmdFits(cmd[p], to) /\ to \in Steps
    BY <1>2, <2>1 DEF CmdFits, Steps
  <2> QED
    BY <1>2, <2>2, GotoTypes DEF TypeInv, TypeOK, files
<1>3. CASE CheckRevoked(p)
  BY <1>1, <1>2, <1>3 DEF CheckRevoked, AuthorizeStep
<1>4. CASE CheckCert(p)
  BY <1>1, <1>2, <1>4 DEF CheckCert, AuthorizeStep
<1>5. CASE CheckClient(p)
  <2>0. CmdFits(cmd[p], "hasClient") /\ cmd[p] \in CmdTypes
    BY <1>5 DEF TypeInv, TypeOK, CmdOK, CheckClient, CmdTypes
  <2>1. CASE Refuse(p)
    BY <1>1, <2>1
  <2>2. ASSUME NEW s \in Serials, NEW t \in Loopback, Mint(s, t),
               cmd[p].op = "sign_csr",
               cmd' = [cmd EXCEPT ![p].serial = s, ![p].subject = t],
               Goto(p, "hasClient", "AddCert"),
               UNCHANGED <<db, files, lock, loc, delivered, clock, online, version, acked, used>>
        PROVE  TypeInv'
    <3> DEFINE c == [cmd[p] EXCEPT !.serial = s, !.subject = t]
    <3>1. t \in Subjects
      BY MasterAssumption DEF Subjects
    <3>2. c \in CmdTypes /\ c.op = "sign_csr" /\ c.serial = s /\ c.subject = t
      BY <2>0, <2>2, <3>1 DEF CmdTypes
    <3>3. cmd' = [cmd EXCEPT ![p] = c]
      BY <2>2 DEF TypeInv, TypeOK
    <3>4. CmdFits(c, "AddCert") /\ "AddCert" \in Steps
      BY <3>1, <3>2 DEF CmdFits, Steps, Issuing
    <3>5. pc' \in [Procs -> Steps] /\ cmd' \in [Procs -> CmdTypes] /\ CmdOK'
      <4> HIDE DEF c
      <4> QED
        BY <2>2, <3>2, <3>3, <3>4, MoveTypes DEF Goto
    <3> QED
      BY <2>2, <3>1, <3>5 DEF Mint, TypeInv, TypeOK, files, CmdTypes
  <2>3. ASSUME NEW to \in {"lockCRL", "return"}, Goto(p, "hasClient", to), UNCHANGED <<cmd, minted>>,
               UNCHANGED <<db, files, lock, loc, delivered, clock, online, version, acked, used>>
        PROVE  TypeInv'
    <3>1. CmdFits(cmd[p], to) /\ to \in Steps
      BY <2>0 DEF CmdFits, Steps
    <3> QED
      BY <2>3, <3>1, GotoTypes DEF TypeInv, TypeOK, files
  <2> QED
    BY <1>5, <2>1, <2>2, <2>3 DEF CheckClient, DenyCSR, SignCSR, refreshCRL, ServeFile
<1> QED
  BY <1>3, <1>4, <1>5

\* So does every step on the tables.
LEMMA TableTypes ==
    ASSUME TypeInv, NEW p \in Procs,
           \/ RecordRevocation(p) \/ RecordCert(p) \/ RecordClient(p)
           \/ DropClient(p) \/ LiftBlock(p) \/ ReplaceCert(p)
    PROVE  TypeInv'
<1> USE DEF Steps
<1>0. CmdFits(cmd[p], pc[p]) /\ db \in Databases
  BY DEF TypeInv, TypeOK, CmdOK
<1>b. Targets \subseteq Subjects
  BY DEF Subjects
<1>1. ASSUME NEW from, NEW to \in Steps, Goto(p, from, to), CmdFits(cmd[p], to),
             NEW d \in Databases, Write(p, d),
             UNCHANGED <<files, lock, cmd, minted, delivered, clock, online, acked, used>>
      PROVE  TypeInv'
  <2>1. pc' \in [Procs -> Steps] /\ CmdOK'
    BY <1>1, GotoTypes
  <2>2. db' \in Databases /\ version' \in Nat /\ loc' \in [Procs -> LocTypes]
    BY <1>1, WriteTypes
  <2> QED
    BY <1>1, <2>1, <2>2 DEF TypeInv, TypeOK, files, LocTypes
<1>2. CASE RecordRevocation(p)
  <2>1. CmdFits(cmd[p], "lockCRL")
    BY <1>0, <1>2 DEF RecordRevocation, Goto, CmdFits
  <2>2. RevokeCert(db, cmd[p].serial, "unspecified") \in Databases
    BY <1>0, <1>2, StoreTypes DEF RecordRevocation, Goto, CmdFits, Reasons
  <2> QED
    BY <1>1, <1>2, <2>1, <2>2 DEF RecordRevocation
<1>3. CASE RecordCert(p)
  <2>1. CmdFits(cmd[p], "lockCache") /\ (cmd[p].op = "enroll" => CmdFits(cmd[p], "registerClient"))
    BY <1>0, <1>3 DEF RecordCert, Goto, CmdFits
  <2>2. AddCert(db, cmd[p].serial, cmd[p].subject) \in Databases
    BY <1>0, <1>3, StoreTypes DEF RecordCert, Goto, CmdFits
  <2> QED
    BY <1>1, <1>3, <2>1, <2>2 DEF RecordCert
<1>4. CASE RecordClient(p)
  <2>1. CmdFits(cmd[p], "lockCache")
    BY <1>0, <1>4 DEF RecordClient, Goto, CmdFits
  <2>2. registerClient(db, cmd[p].ip) \in Databases
    BY <1>0, <1>4, StoreTypes DEF RecordClient, Goto, CmdFits
  <2> QED
    BY <1>1, <1>4, <2>1, <2>2 DEF RecordClient
<1>5. CASE DropClient(p)
  <2>1. CmdFits(cmd[p], "lockCache")
    BY <1>0, <1>5 DEF DropClient, Goto, CmdFits
  <2>2. RemoveClient(db, cmd[p].ip) \in Databases
    BY <1>0, <1>5, StoreTypes DEF DropClient, Goto, CmdFits
  <2> QED
    BY <1>1, <1>5, <2>1, <2>2 DEF DropClient
<1>6. CASE LiftBlock(p)
  <2>1. CmdFits(cmd[p], "lockCache")
    BY <1>0, <1>6 DEF LiftBlock, Goto, CmdFits
  <2>2. UnblockIP(db, cmd[p].ip) \in Databases
    BY <1>0, <1>6, StoreTypes DEF LiftBlock, Goto, CmdFits
  <2> QED
    BY <1>1, <1>6, <2>1, <2>2 DEF LiftBlock
<1>7. CASE ReplaceCert(p)
  <2>1. CmdFits(cmd[p], "lockCRL")
    BY <1>0, <1>7 DEF ReplaceCert, Goto, CmdFits
  <2>2. replaceCertificate(db, cmd[p].serial, cmd[p].subject) \in Databases
    BY <1>0, <1>b, <1>7, StoreTypes DEF ReplaceCert, Goto, CmdFits
  <2> QED
    BY <1>1, <1>7, <2>1, <2>2 DEF ReplaceCert
<1> QED
  BY <1>2, <1>3, <1>4, <1>5, <1>6, <1>7

\* So does every step on the issued files.
LEMMA FileTypes ==
    ASSUME TypeInv, NEW p \in Procs,
           LockIssuance(p) \/ WriteKey(p) \/ WriteCrt(p) \/ RollbackKey(p)
    PROVE  TypeInv'
<1>0. CmdFits(cmd[p], pc[p])
  BY DEF TypeInv, CmdOK
<1>b. Targets \subseteq Subjects
  BY DEF Subjects
<1>f. pc[p] \in {"lockIssuance", "writeKey", "writeCrt"} => FileOf(p) \in Files
  BY <1>0, MasterAssumption DEF CmdFits, FileOf
<1>l. loc \in [Procs -> LocTypes] /\ issued \in [Files -> PairTypes]
  BY DEF TypeInv, TypeOK, LocTypes, PairTypes
<1>1. CASE LockIssuance(p)
  <2>1. CmdFits(cmd[p], "writeKey") /\ "writeKey" \in Steps
    BY <1>0, <1>1 DEF LockIssuance, Goto, CmdFits, Steps
  <2>2. lock' \in [Locks -> Procs \cup {None}]
    BY <1>1 DEF LockIssuance, lockFile, TypeInv, TypeOK
  <2> QED
    BY <1>1, <2>1, <2>2, GotoTypes DEF LockIssuance, TypeInv, TypeOK, files
<1>2. CASE WriteKey(p)
  <2>1. CmdFits(cmd[p], "writeCrt") /\ "writeCrt" \in Steps
    BY <1>0, <1>2 DEF WriteKey, Goto, CmdFits, Steps
  <2>2. FileOf(p) \in Files /\ cmd[p].serial \in Serials
    BY <1>0, <1>2, <1>f DEF WriteKey, Goto, CmdFits
  <2>3. issued' \in [Files -> PairTypes]
    BY <1>2, <1>l, <2>2 DEF WriteKey, PairTypes
  <2>k. issued[FileOf(p)].key \in Serials \cup {None}
    BY <1>l, <2>2 DEF PairTypes
  <2>4. loc' \in [Procs -> LocTypes]
    BY <1>2, <1>l, <2>k DEF WriteKey, LocTypes
  <2> QED
    BY <1>2, <2>1, <2>3, <2>4, GotoTypes DEF WriteKey, TypeInv, TypeOK, LocTypes, PairTypes
<1>3. CASE WriteCrt(p)
  <2>1. /\ CmdFits(cmd[p], "replaceCertificate") /\ "replaceCertificate" \in Steps
        /\ CmdFits(cmd[p], "AddCert") /\ "AddCert" \in Steps
    BY <1>0, <1>3, <1>b DEF WriteCrt, Goto, CmdFits, Steps
  <2>2. FileOf(p) \in Files /\ cmd[p].serial \in Serials
    BY <1>0, <1>3, <1>f DEF WriteCrt, Goto, CmdFits
  <2>3. issued' \in [Files -> PairTypes]
    BY <1>3, <1>l, <2>2 DEF WriteCrt, PairTypes
  <2>4. pc' \in [Procs -> Steps] /\ CmdOK'
    BY <1>3, <2>1, GotoTypes DEF WriteCrt
  <2> QED
    BY <1>3, <2>3, <2>4 DEF WriteCrt, TypeInv, TypeOK, PairTypes
<1>4. CASE RollbackKey(p)
  <2>2. FileOf(p) \in Files /\ loc[p].previousKey \in Serials \cup {None}
    BY <1>4, <1>f, <1>l DEF RollbackKey, LocTypes
  <2>3. issued' \in [Files -> PairTypes]
    BY <1>4, <1>l, <2>2, SMT, Z3 DEF RollbackKey, PairTypes
  <2>u. used \in [commands : Nat, faults : Nat, resets : Nat, torn : Nat]
    BY DEF TypeInv, TypeOK
  <2>4. used' \in [commands : Nat, faults : Nat, resets : Nat, torn : Nat]
    BY <1>4, <2>u, SMT, Z3 DEF RollbackKey
  <2> QED
    BY <1>4, <2>3, <2>4, LeaveTypes DEF RollbackKey, TypeInv, TypeOK, CmdTypes, LocTypes, PairTypes
<1> QED
  BY <1>1, <1>2, <1>3, <1>4

\* So does every step of WriteCRL.
LEMMA CRLTypes ==
    ASSUME TypeInv, NEW p \in Procs,
           LockCRL(p) \/ ListRevoked(p) \/ NumberCRL(p) \/ WriteCRL(p)
    PROVE  TypeInv'
<1>0. CmdFits(cmd[p], pc[p])
  BY DEF TypeInv, CmdOK
<1>l. loc \in [Procs -> LocTypes] /\ db \in Databases /\ version \in Nat /\ clock \in Nat
  BY DEF TypeInv, TypeOK, LocTypes
<1>k. lock \in [Locks -> Procs \cup {None}]
  BY DEF TypeInv, TypeOK
<1>1. CASE LockCRL(p)
  <2>1. CmdFits(cmd[p], "ListRevoked") /\ "ListRevoked" \in Steps
    BY <1>0, <1>1 DEF LockCRL, Goto, CmdFits, Steps
  <2>2. lock' \in [Locks -> Procs \cup {None}]
    BY <1>1, <1>k DEF LockCRL, lockFile
  <2> QED
    BY <1>1, <2>1, <2>2, GotoTypes DEF LockCRL, TypeInv, TypeOK, files
<1>2. CASE ListRevoked(p)
  <2>1. CmdFits(cmd[p], "nextCRLNumber") /\ "nextCRLNumber" \in Steps
    BY <1>0, <1>2 DEF ListRevoked, Goto, CmdFits, Steps
  <2>2. [number |-> 0, version |-> version, revoked |-> db.revoked] \in CRLs
    BY <1>l DEF CRLs, Databases
  <2>3. loc' \in [Procs -> LocTypes]
    BY <1>2, <1>l, <2>2 DEF ListRevoked, LocTypes
  <2> QED
    BY <1>2, <2>1, <2>3, GotoTypes DEF ListRevoked, TypeInv, TypeOK, files, LocTypes
<1>3. CASE NumberCRL(p)
  <2>1. CmdFits(cmd[p], "writeCRL") /\ "writeCRL" \in Steps
    BY <1>0, <1>3 DEF NumberCRL, Goto, CmdFits, Steps
  <2>2. PICK now \in Readings : /\ clock' = Larger(clock, now)
                                /\ db' = nextCRLNumber(db, now)
                                /\ loc' = [loc EXCEPT ![p].crl.number = db'.crlNumber]
    BY <1>3 DEF NumberCRL
  <2>3. now \in Nat
    BY <1>l, MasterAssumption, SMT, Z3 DEF Readings
  <2>n. clock' \in Nat
    BY <1>l, <2>2, <2>3 DEF Larger
  <2>4. db' \in Databases
    BY <1>l, <2>2, <2>3, StoreTypes
  <2>5. db'.crlNumber \in Nat
    BY <2>4 DEF Databases
  <2>6. loc' \in [Procs -> LocTypes]
    BY <1>l, <2>2, <2>5, NumberTypes
  <2> QED
    BY <1>3, <2>1, <2>n, <2>4, <2>6, GotoTypes DEF NumberCRL, TypeInv, TypeOK, files, LocTypes
<1>4. CASE WriteCRL(p)
  <2>1. /\ CmdFits(cmd[p], "return") /\ "return" \in Steps
        /\ CmdFits(cmd[p], "lockCache") /\ "lockCache" \in Steps
    BY <1>0, <1>4 DEF WriteCRL, Goto, CmdFits, Steps
  <2>2. pc' \in [Procs -> Steps] /\ CmdOK'
    BY <1>4, <2>1, GotoTypes DEF WriteCRL
  <2>3. crlFile' \in CRLs
    BY <1>4, <1>l DEF WriteCRL, LocTypes
  <2>4. lock' \in [Locks -> Procs \cup {None}]
    BY <1>4, <1>k DEF WriteCRL, unlock
  <2> QED
    BY <1>4, <2>2, <2>3, <2>4 DEF WriteCRL, TypeInv, TypeOK
<1> QED
  BY <1>1, <1>2, <1>3, <1>4

\* So does every step of RebuildEncryptedCache.
LEMMA CacheTypes ==
    ASSUME TypeInv, NEW p \in Procs,
           LockCache(p) \/ TakeSnapshot(p) \/ RaiseSequence(p) \/ NextSequence(p) \/ WriteCache(p)
    PROVE  TypeInv'
<1>0. CmdFits(cmd[p], pc[p])
  BY DEF TypeInv, CmdOK
<1>l. loc \in [Procs -> LocTypes] /\ db \in Databases /\ version \in Nat /\ cacheFile \in Caches
  BY DEF TypeInv, TypeOK, LocTypes
<1>k. lock \in [Locks -> Procs \cup {None}]
  BY DEF TypeInv, TypeOK
<1>1. CASE LockCache(p)
  <2>1. CmdFits(cmd[p], "BuildSnapshot") /\ "BuildSnapshot" \in Steps
    BY <1>0, <1>1 DEF LockCache, Goto, CmdFits, Steps
  <2>2. lock' \in [Locks -> Procs \cup {None}]
    BY <1>1, <1>k DEF LockCache, lockFile
  <2> QED
    BY <1>1, <2>1, <2>2, GotoTypes DEF LockCache, TypeInv, TypeOK, files
<1>2. CASE TakeSnapshot(p)
  <2>1. CmdFits(cmd[p], "raiseCacheSequence") /\ "raiseCacheSequence" \in Steps
    BY <1>0, <1>2 DEF TakeSnapshot, Goto, CmdFits, Steps
  <2>2. [seq |-> 0, version |-> version, data |-> BuildSnapshot(db)] \in Caches
    BY <1>l, StoreTypes DEF Caches
  <2>3. loc' \in [Procs -> LocTypes]
    BY <1>2, <1>l, <2>2 DEF TakeSnapshot, LocTypes
  <2> QED
    BY <1>2, <2>1, <2>3, GotoTypes DEF TakeSnapshot, TypeInv, TypeOK, files, LocTypes
<1>3. CASE RaiseSequence(p)
  <2>1. CmdFits(cmd[p], "nextCacheSequence") /\ "nextCacheSequence" \in Steps
    BY <1>0, <1>3 DEF RaiseSequence, Goto, CmdFits, Steps
  <2>2. cacheFile.seq \in Nat
    BY <1>l DEF Caches
  <2>3. db' \in Databases
    BY <1>3, <1>l, <2>2, StoreTypes DEF RaiseSequence
  <2> QED
    BY <1>3, <2>1, <2>3, GotoTypes DEF RaiseSequence, TypeInv, TypeOK, files
<1>4. CASE NextSequence(p)
  <2>1. CmdFits(cmd[p], "writeCache") /\ "writeCache" \in Steps
    BY <1>0, <1>4 DEF NextSequence, Goto, CmdFits, Steps
  <2>2. db' \in Databases
    BY <1>4, <1>l, StoreTypes DEF NextSequence
  <2>3. db'.cacheSequence \in Nat
    BY <2>2 DEF Databases
  <2>4. loc' \in [Procs -> LocTypes]
    BY <1>4, <1>l, <2>3, NumberTypes DEF NextSequence
  <2> QED
    BY <1>4, <2>1, <2>2, <2>4, GotoTypes DEF NextSequence, TypeInv, TypeOK, files, LocTypes
<1>5. CASE WriteCache(p)
  <2>1. CmdFits(cmd[p], "return") /\ "return" \in Steps
    BY <1>0, <1>5 DEF WriteCache, Goto, CmdFits, Steps
  <2>2. cacheFile' \in Caches
    BY <1>5, <1>l DEF WriteCache, LocTypes
  <2>3. lock' \in [Locks -> Procs \cup {None}]
    BY <1>5, <1>k DEF WriteCache, unlock
  <2> QED
    BY <1>5, <2>1, <2>2, <2>3, GotoTypes DEF WriteCache, TypeInv, TypeOK
<1> QED
  BY <1>1, <1>2, <1>3, <1>4, <1>5

\* So does the end of a process.
LEMMA EndTypes ==
    ASSUME TypeInv, NEW p \in Procs, Return(p) \/ Abort(p)
    PROVE  TypeInv'
<1>l. /\ loc \in [Procs -> LocTypes] /\ cmd \in [Procs -> CmdTypes]
      /\ acked \in [cache : Nat, crl : Nat]
      /\ used \in [commands : Nat, faults : Nat, resets : Nat, torn : Nat]
      /\ online \in BOOLEAN /\ delivered \in SUBSET Serials
  BY DEF TypeInv, TypeOK, LocTypes, CmdTypes
<1>1. CASE Return(p)
  <2>1. acked' \in [cache : Nat, crl : Nat]
    BY <1>1, <1>l DEF Return, Larger, LocTypes
  <2>2. delivered' \in SUBSET Serials
    <3>1. cmd[p].op \in Issuing => cmd[p].serial \in Serials
      BY DEF TypeInv, CmdOK, CmdFits
    <3> QED
      BY <1>1, <1>l, <3>1 DEF Return
  <2>3. online' \in BOOLEAN
    BY <1>1 DEF Return
  <2> QED
    BY <1>1, <2>1, <2>2, <2>3, LeaveTypes DEF Return, TypeInv, TypeOK, files, CmdTypes, LocTypes
<1>2. CASE Abort(p)
  <2>1. used' \in [commands : Nat, faults : Nat, resets : Nat, torn : Nat]
    <3> DEFINE torn == IF pc[p] = "writeCrt" THEN used.torn + 1 ELSE used.torn
    <3>1. used' = [[used EXCEPT !.faults = @ + 1] EXCEPT !.torn = torn]
      BY <1>2, <1>l DEF Abort
    <3>2. [used EXCEPT !.faults = @ + 1] \in [commands : Nat, faults : Nat, resets : Nat, torn : Nat]
      BY <1>l, SMT, Z3
    <3>3. torn \in Nat
      BY <1>l, SMT, Z3
    <3> HIDE DEF torn
    <3> QED
      BY <3>1, <3>2, <3>3
  <2> QED
    BY <1>2, <2>1, LeaveTypes DEF Abort, TypeInv, TypeOK, files, CmdTypes, LocTypes
<1> QED
  BY <1>1, <1>2

LEMMA StutterTypes == TypeInv /\ UNCHANGED vars => TypeInv'
BY SMT, Z3 DEF TypeInv, TypeOK, CmdOK, vars, files

LEMMA InitTypes == Init => TypeInv
<1> SUFFICES ASSUME Init PROVE TypeInv
  OBVIOUS
<1>1. NoCmd \in CmdTypes /\ NoLocals \in LocTypes
  BY EmptyTypes DEF NoCmd, Cmd, CmdTypes, NoLocals, LocTypes
<1>2. BootstrappedDB \in Databases
  BY EmptyTypes, MasterAssumption DEF BootstrappedDB, Databases
<1>3. cacheFile \in Caches /\ crlFile \in CRLs
  BY <1>2, StoreTypes DEF Init, Caches, CRLs
<1>4. CmdOK
  BY DEF Init, CmdOK, CmdFits, NoCmd, Cmd, Issuing
<1> QED
  BY <1>1, <1>2, <1>3, <1>4 DEF Init, TypeInv, TypeOK, CmdTypes, LocTypes, Steps

LEMMA NextTypes == TypeInv /\ [Next]_vars => TypeInv'
<1> SUFFICES ASSUME TypeInv, [Next]_vars PROVE TypeInv'
  OBVIOUS
<1>1. ASSUME NEW p \in Procs, Step(p) PROVE TypeInv'
  BY <1>1, AuthorizeTypes, TableTypes, FileTypes, CRLTypes, CacheTypes, EndTypes DEF Step
<1> QED
  BY <1>1, InvokeTypes, FileTypes, EndTypes, StutterTypes DEF Next, Quiescent

\* Every reachable state is well typed.  About the commands and handlers of
\* ca.go, admin.go and server.go reaching the store and the files with a
\* serial, a subject or an address exactly where the step needs one.
THEOREM TypeCorrect == Spec => []TypeOK
<1>1. Spec => []TypeInv
  BY InitTypes, NextTypes, PTL DEF Spec
<1>2. TypeInv => TypeOK
  BY DEF TypeInv
<1> QED
  BY <1>1, <1>2, PTL

-----------------------------------------------------------------------------
(***************************************************************************)
(* Publication.  The cache, the CRL and the acknowledgements implement     *)
(* Publication and cover every acknowledged write.                         *)
(*                                                                         *)
(* The argument.  A snapshot is taken, numbered and written under the lock *)
(* of the cache, so that the file cannot become newer than the snapshot a  *)
(* process holds (CacheView); a process takes its snapshot after its own   *)
(* write, so that the snapshot covers it.  The same for the CRL (CRLView). *)
(* Published is what then holds of the files themselves.                   *)
(***************************************************************************)

Authorizing == {"IsRevoked", "CertBySerial", "hasClient"}

HoldsCRL == {"ListRevoked", "nextCRLNumber", "writeCRL"}

HoldsCache == {"BuildSnapshot", "raiseCacheSequence", "nextCacheSequence", "writeCache"}

\* Which command can be at which step.
OpFits(op, step) ==
    /\ step = "idle" => op = "none"
    /\ step = "RevokeCert" => op = "revoke"
    /\ step \in {"lockIssuance", "writeKey", "writeCrt"} => op \in {"issue", "reissue"}
    /\ step = "replaceCertificate" => op = "reissue"
    /\ step = "AddCert" => op \in {"issue", "enroll", "sign_csr"}
    /\ step = "registerClient" => op \in {"register", "enroll"}
    /\ step = "RemoveClient" => op \in {"deregister", "block"}
    /\ step = "UnblockIP" => op = "unblock"
    /\ step \in Authorizing => op \in {"sign_csr", "sync_cache", "sync_crl"}
    /\ step \in {"lockCRL"} \cup HoldsCRL => op \in Revoking \cup {"sync_crl"}
    /\ step \in {"lockCache"} \cup HoldsCache => op \notin {"none", "sync_cache", "sync_crl"}

\* What a process has written, and that the requests which only read have
\* written nothing.
WroteView(p) ==
    /\ loc[p].wrote <= version
    /\ pc[p] \in {"idle"} \cup Authorizing => loc[p].wrote = 0
    /\ cmd[p].op \in {"sync_cache", "sync_crl"} => loc[p].wrote = 0

\* What a process on its way through RebuildEncryptedCache knows.
CacheView(p) ==
    /\ pc[p] \in HoldsCache => lock["cache"] = p
    /\ pc[p] \in HoldsCache \ {"BuildSnapshot"} =>
          /\ cacheFile.version <= loc[p].cache.version
          /\ loc[p].cache.version <= version
          /\ loc[p].wrote <= loc[p].cache.version
          /\ loc[p].cache.version = version => SameTables(loc[p].cache.data, db)
    /\ pc[p] = "nextCacheSequence" => cacheFile.seq <= db.cacheSequence
    /\ pc[p] = "writeCache" => cacheFile.seq < loc[p].cache.seq
    /\ pc[p] = "return" => loc[p].wrote <= cacheFile.version

\* What a process on its way through WriteCRL knows, and later.
CRLView(p) ==
    /\ pc[p] \in HoldsCRL => lock["crl"] = p
    /\ pc[p] \in HoldsCRL \ {"ListRevoked"} =>
          /\ crlFile.version <= loc[p].crl.version
          /\ loc[p].crl.version <= version
          /\ loc[p].wrote <= loc[p].crl.version
          /\ loc[p].crl.version = version => loc[p].crl.revoked = db.revoked
    /\ cmd[p].op \in Revoking /\ pc[p] \in {"lockCache", "return"} \cup HoldsCache =>
          loc[p].wrote <= crlFile.version

Published ==
    /\ cacheFile.version <= version
    /\ crlFile.version <= version
    /\ CacheCoversAcked
    /\ CRLCoversAcked

View(p) == OpFits(cmd[p].op, pc[p]) /\ WroteView(p) /\ CacheView(p) /\ CRLView(p)

PubInv == TypeInv /\ Published /\ \A p \in Procs : View(p)

-----------------------------------------------------------------------------
(***************************************************************************)
(* Frame: a step of p that leaves the published files alone.               *)
(***************************************************************************)

LEMMA PubTypes ==
    ASSUME TypeInv
    PROVE  /\ db \in Databases /\ db.cacheSequence \in Nat
           /\ version \in Nat
           /\ cacheFile.version \in Nat /\ cacheFile.seq \in Nat
           /\ crlFile.version \in Nat
           /\ acked \in [cache : Nat, crl : Nat]
           /\ pc \in [Procs -> Steps] /\ cmd \in [Procs -> CmdTypes]
           /\ loc \in [Procs -> LocTypes]
           /\ lock \in [Locks -> Procs \cup {None}]
           /\ "cache" \in Locks /\ "crl" \in Locks
           /\ \A p \in Procs : /\ loc[p].wrote \in Nat
                               /\ loc[p].cache.version \in Nat /\ loc[p].cache.seq \in Nat
                               /\ loc[p].crl.version \in Nat
BY DEF TypeInv, TypeOK, Databases, Caches, CRLs, LocTypes, CmdTypes, Locks

\* The other processes stay where they are and keep the locks they hold.
Others(p) ==
    \A q \in Procs \ {p} :
        /\ pc'[q] = pc[q] /\ cmd'[q] = cmd[q] /\ loc'[q] = loc[q]
        /\ lock["cache"] = q => lock'["cache"] = q
        /\ lock["crl"] = q => lock'["crl"] = q

\* The published files stay; the tables change only with the version.
Quiet(p) ==
    /\ UNCHANGED <<cacheFile, crlFile>>
    /\ version <= version'
    /\ version' = version => SameTables(db', db)
    /\ (\A q \in Procs \ {p} : pc[q] = "idle") \/ db.cacheSequence <= db'.cacheSequence
    /\ acked'.cache <= cacheFile.version
    /\ acked'.crl <= crlFile.version

\* The order of versions.
LEMMA Leq == /\ \A a, b, c \in Nat : a <= b /\ b <= c => a <= c
             /\ \A a, b, c \in Nat : a <= b /\ b <= c /\ a = c => b = c
  BY SMT, Z3

\* What p keeps for the others and for the files, it keeps for PubInv.
LEMMA Framed ==
    ASSUME PubInv, TypeInv', NEW p \in Procs, Others(p), Quiet(p), View(p)'
    PROVE  PubInv'
<1>t. TypeInv
  BY DEF PubInv
<1>u. version \in Nat /\ version' \in Nat /\ cacheFile.version \in Nat /\ crlFile.version \in Nat
  BY <1>t, PubTypes DEF TypeInv, TypeOK
<1>1. Published'
  <2>1. cacheFile.version <= version' /\ crlFile.version <= version'
    BY <1>u, Leq DEF Quiet, PubInv, Published
  <2>2. /\ cacheFile.version = version' => version' = version
        /\ crlFile.version = version' => version' = version
    BY <1>u, Leq DEF Quiet, PubInv, Published
  <2> QED
    BY <2>1, <2>2 DEF Quiet, PubInv, Published, CacheCoversAcked, CRLCoversAcked, SameTables
<1>2. ASSUME NEW q \in Procs, q # p
      PROVE  View(q)'
  <2>1. /\ pc'[q] = pc[q] /\ cmd'[q] = cmd[q] /\ loc'[q] = loc[q]
        /\ lock["cache"] = q => lock'["cache"] = q
        /\ lock["crl"] = q => lock'["crl"] = q
    BY <1>2 DEF Others
  <2>2. OpFits(cmd[q].op, pc[q]) /\ WroteView(q) /\ CacheView(q) /\ CRLView(q)
    BY DEF PubInv, View
  <2>3. /\ loc[q].wrote \in Nat /\ loc[q].cache.version \in Nat
        /\ loc[q].crl.version \in Nat /\ db.cacheSequence \in Nat /\ cacheFile.seq \in Nat
    BY <1>t, PubTypes
  <2>d. db'.cacheSequence \in Nat
    BY DEF TypeInv, TypeOK, Databases
  <2>4. WroteView(q)'
    BY <2>1, <2>2, <2>3, <1>u, SMT, Z3 DEF WroteView, Quiet
  <2>5. CacheView(q)'
    <3>1. pc[q] \in HoldsCache => lock'["cache"] = q
      BY <2>1, <2>2 DEF CacheView
    <3>2. pc[q] \in HoldsCache \ {"BuildSnapshot"} =>
            /\ cacheFile.version <= loc[q].cache.version
            /\ loc[q].cache.version <= version'
            /\ loc[q].wrote <= loc[q].cache.version
            /\ loc[q].cache.version = version' => SameTables(loc[q].cache.data, db')
      <4>1. ASSUME pc[q] \in HoldsCache \ {"BuildSnapshot"}, loc[q].cache.version = version'
            PROVE  version' = version
        <5>1. loc[q].cache.version <= version /\ version <= version'
          BY <4>1, <2>2 DEF CacheView, Quiet
        <5> QED
          BY <4>1, <5>1, <2>3, <1>u, Leq
      <4>2. pc[q] \in HoldsCache \ {"BuildSnapshot"} => loc[q].cache.version <= version'
        BY <2>2, <2>3, <1>u, Leq DEF CacheView, Quiet
      <4> QED
        BY <4>1, <4>2, <2>2 DEF CacheView, Quiet, SameTables
    <3>3. pc[q] = "nextCacheSequence" => cacheFile.seq <= db'.cacheSequence
      BY <1>2, <2>2, <2>3, <2>d, SMT, Z3 DEF CacheView, Quiet
    <3> QED
      BY <2>1, <2>2, <3>1, <3>2, <3>3 DEF CacheView, Quiet
  <2>6. CRLView(q)'
    <3>1. pc[q] \in HoldsCRL => lock'["crl"] = q
      BY <2>1, <2>2 DEF CRLView
    <3>2. pc[q] \in HoldsCRL \ {"ListRevoked"} =>
            /\ crlFile.version <= loc[q].crl.version
            /\ loc[q].crl.version <= version'
            /\ loc[q].wrote <= loc[q].crl.version
            /\ loc[q].crl.version = version' => loc[q].crl.revoked = db'.revoked
      <4>1. ASSUME pc[q] \in HoldsCRL \ {"ListRevoked"}, loc[q].crl.version = version'
            PROVE  version' = version
        <5>1. loc[q].crl.version <= version /\ version <= version'
          BY <4>1, <2>2 DEF CRLView, Quiet
        <5> QED
          BY <4>1, <5>1, <2>3, <1>u, Leq
      <4>2. pc[q] \in HoldsCRL \ {"ListRevoked"} => loc[q].crl.version <= version'
        BY <2>2, <2>3, <1>u, Leq DEF CRLView, Quiet
      <4> QED
        BY <4>1, <4>2, <2>2 DEF CRLView, Quiet, SameTables
    <3> QED
      BY <2>1, <2>2, <3>1, <3>2 DEF CRLView, Quiet
  <2> QED
    BY <2>1, <2>2, <2>4, <2>5, <2>6 DEF View
<1> QED
  BY <1>1, <1>2 DEF PubInv

-----------------------------------------------------------------------------
(***************************************************************************)
(* The kinds of steps that leave the published files alone.                *)
(***************************************************************************)

\* A step that changes neither tables nor files: it starts a command,
\* authorizes a request or writes an issued file.
LEMMA QuietStep ==
    ASSUME PubInv, TypeInv', NEW p \in Procs, NEW c, NEW to,
           pc' = [pc EXCEPT ![p] = to], cmd' = [cmd EXCEPT ![p] = c], OpFits(c.op, to),
           to \notin {"idle", "lockCache"} \cup HoldsCache \cup HoldsCRL,
           \A q \in Procs \ {p} : loc'[q] = loc[q],
           loc'[p].wrote = loc[p].wrote,
           to \in {"return"} \cup Authorizing \/ c.op \in {"sync_cache", "sync_crl"}
              => loc[p].wrote = 0,
           \A q \in Procs \ {p} : /\ lock["cache"] = q => lock'["cache"] = q
                                  /\ lock["crl"] = q => lock'["crl"] = q,
           UNCHANGED <<db, cacheFile, crlFile, version, acked>>
    PROVE  PubInv'
<1>t. TypeInv
  BY DEF PubInv
<1>1. Others(p)
  BY <1>t, PubTypes DEF Others
<1>2. Quiet(p)
  BY <1>t, PubTypes, SMT, Z3 DEF Quiet, SameTables, PubInv, Published, CacheCoversAcked, CRLCoversAcked
<1>3. pc'[p] = to /\ cmd'[p] = c
  BY <1>t, PubTypes
<1>4. loc'[p].wrote \in Nat /\ loc'[p].wrote <= version' /\ cacheFile'.version \in Nat
      /\ crlFile'.version \in Nat
  BY <1>t, PubTypes DEF PubInv, View, WroteView
<1>5. WroteView(p)'
  BY <1>3, <1>4 DEF WroteView
<1>6. CacheView(p)'
  BY <1>3, <1>4, SMT, Z3 DEF CacheView, HoldsCache
<1>7. CRLView(p)'
  BY <1>3, <1>4, SMT, Z3 DEF CRLView, HoldsCRL, HoldsCache
<1> QED
  BY <1>1, <1>2, <1>3, <1>5, <1>6, <1>7, Framed DEF View

\* A write to the tables.
LEMMA WriteStep ==
    ASSUME PubInv, TypeInv', NEW p \in Procs, NEW c, NEW d,
           NEW to \in {"RemoveClient", "registerClient", "lockCRL", "lockCache"},
           pc' = [pc EXCEPT ![p] = to], cmd' = [cmd EXCEPT ![p] = c], OpFits(c.op, to),
           c.op \notin {"sync_cache", "sync_crl"},
           to = "lockCache" => c.op \notin Revoking,
           Write(p, d),
           (\A q \in Procs \ {p} : pc[q] = "idle") \/ d.cacheSequence = db.cacheSequence,
           UNCHANGED <<cacheFile, crlFile, lock, acked>>
    PROVE  PubInv'
<1>t. TypeInv
  BY DEF PubInv
<1>1. Others(p)
  BY <1>t, PubTypes DEF Others, Write
<1>2. Quiet(p)
  BY <1>t, PubTypes, SMT, Z3 DEF Quiet, Write, PubInv, Published, CacheCoversAcked, CRLCoversAcked
<1>3. pc'[p] = to /\ cmd'[p] = c
  BY <1>t, PubTypes
<1>4. loc'[p].wrote = version' /\ version' \in Nat
  BY <1>t, PubTypes, SMT, Z3 DEF Write, LocTypes
<1>5. WroteView(p)'
  BY <1>3, <1>4, SMT, Z3 DEF WroteView, Authorizing
<1>6. CacheView(p)'
  BY <1>3, <1>4 DEF CacheView, HoldsCache
<1>7. CRLView(p)'
  BY <1>3, <1>4 DEF CRLView, HoldsCRL, HoldsCache
<1> QED
  BY <1>1, <1>2, <1>3, <1>5, <1>6, <1>7, Framed DEF View

\* The end of a process, with or without an acknowledgement.
LEMMA EndStep ==
    ASSUME PubInv, TypeInv', NEW p \in Procs, Leave(p),
           UNCHANGED <<db, cacheFile, crlFile, version>>,
           acked'.cache <= cacheFile.version, acked'.crl <= crlFile.version
    PROVE  PubInv'
<1>t. TypeInv
  BY DEF PubInv
<1>1. Others(p)
  BY <1>t, PubTypes, SMT, Z3 DEF Others, Leave
<1>2. Quiet(p)
  BY <1>t, PubTypes, SMT, Z3 DEF Quiet, SameTables
<1>3. pc'[p] = "idle" /\ cmd'[p].op = "none" /\ loc'[p].wrote = 0 /\ version' \in Nat
  BY <1>t, PubTypes DEF Leave, NoCmd, Cmd, NoLocals
<1>5. WroteView(p)'
  BY <1>3, SMT, Z3 DEF WroteView
<1>6. CacheView(p)'
  BY <1>3 DEF CacheView, HoldsCache
<1>7. CRLView(p)'
  BY <1>3 DEF CRLView, HoldsCRL, HoldsCache
<1>8. OpFits("none", "idle")
  BY DEF OpFits, Authorizing, HoldsCRL, HoldsCache
<1> QED
  BY <1>1, <1>2, <1>3, <1>5, <1>6, <1>7, <1>8, Framed DEF View

-----------------------------------------------------------------------------
(* WriteCRL *)

\* The steps of WriteCRL.
LEMMA CRLPub ==
    ASSUME PubInv, TypeInv', NEW p \in Procs,
           LockCRL(p) \/ ListRevoked(p) \/ NumberCRL(p) \/ WriteCRL(p)
    PROVE  PubInv'
<1>t. TypeInv /\ None \notin Procs
  BY MasterAssumption DEF PubInv
<1>v. OpFits(cmd[p].op, pc[p]) /\ WroteView(p) /\ CRLView(p)
  BY DEF PubInv, View
<1>p. Published
  BY DEF PubInv
<1>1. ASSUME NEW from \in {"lockCRL", "ListRevoked", "nextCRLNumber"},
             NEW to \in HoldsCRL, Goto(p, from, to),
             UNCHANGED <<cacheFile, crlFile, cmd, version, acked>>,
             loc'[p].wrote = loc[p].wrote, CRLView(p)', Others(p),
             SameTables(db', db), db'.cacheSequence = db.cacheSequence
      PROVE  PubInv'
  <2>1. pc[p] = from /\ pc'[p] = to
    BY <1>1, <1>t, PubTypes DEF Goto
  <2>2. OpFits(cmd[p].op, to)
    BY <1>1, <1>v, <2>1 DEF OpFits, Authorizing, HoldsCRL, HoldsCache
  <2>3. WroteView(p)'
    BY <1>1, <1>v, <2>1 DEF WroteView, Authorizing, HoldsCRL
  <2>4. CacheView(p)'
    BY <1>1, <2>1 DEF CacheView, HoldsCRL, HoldsCache
  <2>5. Quiet(p)
    BY <1>1, <1>t, <1>p, PubTypes, SMT, Z3 DEF Quiet, Published, CacheCoversAcked, CRLCoversAcked
  <2> QED
    BY <1>1, <2>1, <2>2, <2>3, <2>4, <2>5, Framed DEF View
<1>2. CASE LockCRL(p)
  <2>1. pc'[p] = "ListRevoked" /\ lock'["crl"] = p
    BY <1>2, <1>t, PubTypes DEF LockCRL, Goto, lockFile
  <2>2. CRLView(p)'
    BY <2>1 DEF CRLView, HoldsCRL, HoldsCache
  <2>3. Others(p)
    BY <1>2, <1>t, PubTypes DEF Others, LockCRL, Goto, lockFile
  <2> QED
    BY <1>1, <1>2, <2>2, <2>3 DEF LockCRL, files, SameTables, HoldsCRL
<1>3. CASE ListRevoked(p)
  <2>1. /\ pc'[p] = "nextCRLNumber" /\ pc[p] = "ListRevoked"
        /\ lock' = lock /\ db' = db /\ version' = version /\ crlFile' = crlFile
        /\ loc'[p].wrote = loc[p].wrote
        /\ loc'[p].crl = [number |-> 0, version |-> version, revoked |-> db.revoked]
    BY <1>3, <1>t, PubTypes, SMTT(30) DEF ListRevoked, Goto, files, LocTypes
  <2>2. CRLView(p)'
    BY <1>v, <1>p, <1>t, <2>1, PubTypes, SMT, Z3 DEF CRLView, WroteView, Published, HoldsCRL, HoldsCache
  <2>3. Others(p)
    BY <1>3, <1>t, PubTypes DEF Others, ListRevoked, Goto
  <2> QED
    BY <1>1, <1>3, <2>1, <2>2, <2>3 DEF ListRevoked, files, SameTables, HoldsCRL
<1>4. CASE NumberCRL(p)
  <2>1. PICK now \in Readings : /\ db' = nextCRLNumber(db, now)
                                /\ loc' = [loc EXCEPT ![p].crl.number = db'.crlNumber]
    BY <1>4 DEF NumberCRL
  <2>2. SameTables(db', db) /\ db'.cacheSequence = db.cacheSequence /\ db'.revoked = db.revoked
    BY <2>1, <1>t, PubTypes DEF nextCRLNumber, SameTables, Databases
  <2>3. /\ loc'[p].wrote = loc[p].wrote
        /\ loc'[p].crl.version = loc[p].crl.version
        /\ loc'[p].crl.revoked = loc[p].crl.revoked
    BY <2>1, <1>t, PubTypes, SMT, Z3 DEF LocTypes, CRLs
  <2>4. /\ pc'[p] = "writeCRL" /\ pc[p] = "nextCRLNumber"
        /\ UNCHANGED <<lock, cmd, version, crlFile>>
    BY <1>4, <1>t, PubTypes DEF NumberCRL, Goto, files
  <2>5. CRLView(p)'
    BY <1>v, <2>2, <2>3, <2>4 DEF CRLView, HoldsCRL, HoldsCache
  <2>6. Others(p)
    BY <1>4, <1>t, <2>1, PubTypes DEF Others, NumberCRL, Goto
  <2> QED
    BY <1>1, <1>4, <2>2, <2>3, <2>5, <2>6 DEF NumberCRL, files, HoldsCRL
<1>5. CASE WriteCRL(p)
  <2>1. /\ pc[p] = "writeCRL"
        /\ pc'[p] = IF cmd[p].op = "sync_crl" THEN "return" ELSE "lockCache"
        /\ crlFile' = loc[p].crl
        /\ UNCHANGED <<db, cacheFile, cmd, loc, version, acked>>
        /\ lock'["cache"] = lock["cache"]
        /\ \A q \in Procs \ {p} : pc'[q] = pc[q]
    BY <1>5, <1>t, PubTypes DEF WriteCRL, Goto, unlock
  <2>2. /\ crlFile.version <= loc[p].crl.version
        /\ loc[p].crl.version <= version
        /\ loc[p].wrote <= loc[p].crl.version
        /\ loc[p].crl.version = version => loc[p].crl.revoked = db.revoked
        /\ lock["crl"] = p
    BY <1>v, <2>1 DEF CRLView, HoldsCRL
  <2>3. /\ crlFile.version \in Nat /\ loc[p].crl.version \in Nat /\ version \in Nat
        /\ acked.crl \in Nat /\ \A q \in Procs : loc[q].wrote \in Nat
        /\ cacheFile.version \in Nat
    BY <1>t, PubTypes
  <2>4. Published'
    BY <1>p, <2>1, <2>2, <2>3, SMT, Z3 DEF Published, CacheCoversAcked, CRLCoversAcked, SameTables
  <2>5. View(p)'
    <3>1. OpFits(cmd[p].op, pc'[p])
      BY <1>v, <2>1 DEF OpFits, Authorizing, HoldsCRL, HoldsCache, Revoking
    <3>2. WroteView(p)'
      BY <1>v, <2>1 DEF WroteView, Authorizing
    <3>3. CacheView(p)'
      BY <1>v, <2>1, <2>3, SMT, Z3 DEF CacheView, WroteView, HoldsCache
    <3>4. CRLView(p)'
      BY <2>1, <2>2 DEF CRLView, HoldsCRL, HoldsCache
    <3> QED
      BY <2>1, <3>1, <3>2, <3>3, <3>4 DEF View
  <2>6. ASSUME NEW q \in Procs, q # p
        PROVE  View(q)'
    <3>1. OpFits(cmd[q].op, pc[q]) /\ WroteView(q) /\ CacheView(q) /\ CRLView(q)
      BY DEF PubInv, View
    <3>2. pc'[q] = pc[q]
      BY <2>1, <2>6
    <3>3. WroteView(q)' /\ CacheView(q)'
      BY <2>1, <3>1, <3>2 DEF WroteView, CacheView, SameTables
    <3>4. pc[q] \notin HoldsCRL
      BY <2>2, <2>6, <3>1 DEF CRLView
    <3>5. CRLView(q)'
      BY <2>1, <2>2, <2>3, <3>1, <3>2, <3>4, SMT, Z3 DEF CRLView
    <3> QED
      BY <2>1, <3>1, <3>2, <3>3, <3>5 DEF View
  <2> QED
    BY <2>4, <2>5, <2>6 DEF PubInv
<1> QED
  BY <1>2, <1>3, <1>4, <1>5

-----------------------------------------------------------------------------
(* RebuildEncryptedCache *)

\* The steps of RebuildEncryptedCache.
LEMMA CachePub ==
    ASSUME PubInv, TypeInv', NEW p \in Procs,
           LockCache(p) \/ TakeSnapshot(p) \/ RaiseSequence(p) \/ NextSequence(p) \/ WriteCache(p)
    PROVE  PubInv'
<1>t. TypeInv /\ None \notin Procs
  BY MasterAssumption DEF PubInv
<1>v. OpFits(cmd[p].op, pc[p]) /\ WroteView(p) /\ CacheView(p) /\ CRLView(p)
  BY DEF PubInv, View
<1>p. Published
  BY DEF PubInv
<1>1. ASSUME NEW from \in {"lockCache"} \cup HoldsCache,
             NEW to \in HoldsCache, Goto(p, from, to),
             UNCHANGED <<cacheFile, crlFile, cmd, version, acked>>,
             loc'[p].wrote = loc[p].wrote, CacheView(p)', Others(p),
             SameTables(db', db), db.cacheSequence <= db'.cacheSequence
      PROVE  PubInv'
  <2>1. pc[p] = from /\ pc'[p] = to
    BY <1>1, <1>t, PubTypes DEF Goto
  <2>2. OpFits(cmd[p].op, to)
    BY <1>1, <1>v, <2>1 DEF OpFits, Authorizing, HoldsCRL, HoldsCache
  <2>3. WroteView(p)'
    BY <1>1, <1>v, <2>1 DEF WroteView, Authorizing, HoldsCache
  <2>4. CRLView(p)'
    BY <1>1, <1>v, <2>1 DEF CRLView, HoldsCRL, HoldsCache
  <2>5. Quiet(p)
    BY <1>1, <1>t, <1>p, PubTypes, SMT, Z3 DEF Quiet, Published, CacheCoversAcked, CRLCoversAcked
  <2> QED
    BY <1>1, <2>1, <2>2, <2>3, <2>4, <2>5, Framed DEF View
<1>2. CASE LockCache(p)
  <2>1. pc'[p] = "BuildSnapshot" /\ lock'["cache"] = p
    BY <1>2, <1>t, PubTypes DEF LockCache, Goto, lockFile
  <2>2. CacheView(p)'
    BY <2>1 DEF CacheView, HoldsCache
  <2>3. Others(p)
    BY <1>2, <1>t, PubTypes DEF Others, LockCache, Goto, lockFile
  <2>4. SameTables(db', db) /\ db.cacheSequence <= db'.cacheSequence
    BY <1>2, <1>t, PubTypes, SMT, Z3 DEF LockCache, SameTables
  <2> QED
    BY <1>1, <1>2, <2>2, <2>3, <2>4 DEF LockCache, files, HoldsCache
<1>3. CASE TakeSnapshot(p)
  <2>1. /\ pc'[p] = "raiseCacheSequence" /\ pc[p] = "BuildSnapshot"
        /\ UNCHANGED <<lock, db, version, cacheFile>>
        /\ loc'[p].wrote = loc[p].wrote
        /\ loc'[p].cache = [seq |-> 0, version |-> version, data |-> BuildSnapshot(db)]
    BY <1>3, <1>t, PubTypes, SMT, Z3 DEF TakeSnapshot, Goto, files, LocTypes
  <2>2. SameTables(BuildSnapshot(db), db)
    BY DEF SameTables, BuildSnapshot
  <2>3. CacheView(p)'
    BY <1>v, <1>p, <1>t, <2>1, <2>2, PubTypes, SMT, Z3 DEF CacheView, WroteView, Published, HoldsCache, SameTables
  <2>4. Others(p)
    BY <1>3, <1>t, PubTypes DEF Others, TakeSnapshot, Goto
  <2>5. SameTables(db', db) /\ db.cacheSequence <= db'.cacheSequence
    BY <2>1, <1>t, PubTypes, SMT, Z3 DEF SameTables
  <2> QED
    BY <1>1, <1>3, <2>1, <2>3, <2>4, <2>5 DEF TakeSnapshot, files, HoldsCache
<1>4. CASE RaiseSequence(p)
  <2>1. /\ pc'[p] = "nextCacheSequence" /\ pc[p] = "raiseCacheSequence"
        /\ UNCHANGED <<lock, loc, version, cacheFile>>
        /\ db' = raiseCacheSequence(db, cacheFile.seq)
    BY <1>4, <1>t, PubTypes DEF RaiseSequence, Goto, files
  <2>2. /\ SameTables(db', db)
        /\ db.cacheSequence <= db'.cacheSequence
        /\ cacheFile.seq <= db'.cacheSequence
    BY <2>1, <1>t, PubTypes, SMT, Z3 DEF raiseCacheSequence, Larger, SameTables, Databases
  <2>3. CacheView(p)'
    BY <1>v, <2>1, <2>2 DEF CacheView, HoldsCache, SameTables
  <2>4. Others(p)
    BY <1>4, <1>t, PubTypes DEF Others, RaiseSequence, Goto
  <2> QED
    BY <1>1, <1>4, <2>1, <2>2, <2>3, <2>4 DEF RaiseSequence, files, HoldsCache
<1>5. CASE NextSequence(p)
  <2>1. /\ pc'[p] = "writeCache" /\ pc[p] = "nextCacheSequence"
        /\ UNCHANGED <<lock, version, cacheFile>>
        /\ db' = nextCacheSequence(db)
        /\ loc' = [loc EXCEPT ![p].cache.seq = db'.cacheSequence]
    BY <1>5, <1>t, PubTypes DEF NextSequence, Goto, files
  <2>2. SameTables(db', db) /\ db'.cacheSequence = db.cacheSequence + 1
    BY <2>1, <1>t, PubTypes DEF nextCacheSequence, SameTables, Databases
  <2>3. /\ loc'[p].wrote = loc[p].wrote
        /\ loc'[p].cache.version = loc[p].cache.version
        /\ loc'[p].cache.data = loc[p].cache.data
        /\ loc'[p].cache.seq = db'.cacheSequence
    BY <2>1, <1>t, PubTypes, SMT, Z3 DEF LocTypes, Caches
  <2>n. cacheFile.seq \in Nat /\ db.cacheSequence \in Nat
    BY <1>t, PubTypes
  <2>4. CacheView(p)'
    <3>1. cacheFile.seq <= db.cacheSequence => cacheFile.seq < db.cacheSequence + 1
      BY <2>n, SMT, Z3
    <3> QED
      BY <1>v, <2>1, <2>2, <2>3, <3>1 DEF CacheView, HoldsCache, SameTables
  <2>5. Others(p)
    BY <1>5, <1>t, <2>1, PubTypes DEF Others, NextSequence, Goto
  <2>6. db.cacheSequence <= db'.cacheSequence
    BY <2>2, <2>n, SMT, Z3
  <2> QED
    BY <1>1, <1>5, <2>2, <2>3, <2>4, <2>5, <2>6 DEF NextSequence, files, HoldsCache
<1>6. CASE WriteCache(p)
  <2>1. /\ pc[p] = "writeCache" /\ pc'[p] = "return"
        /\ cacheFile' = loc[p].cache
        /\ UNCHANGED <<db, crlFile, cmd, loc, version, acked>>
        /\ lock'["crl"] = lock["crl"]
        /\ \A q \in Procs \ {p} : pc'[q] = pc[q]
    BY <1>6, <1>t, PubTypes DEF WriteCache, Goto, unlock
  <2>2. /\ cacheFile.version <= loc[p].cache.version
        /\ loc[p].cache.version <= version
        /\ loc[p].wrote <= loc[p].cache.version
        /\ loc[p].cache.version = version => SameTables(loc[p].cache.data, db)
        /\ lock["cache"] = p
    BY <1>v, <2>1 DEF CacheView, HoldsCache
  <2>3. /\ cacheFile.version \in Nat /\ loc[p].cache.version \in Nat /\ version \in Nat
        /\ acked.cache \in Nat /\ \A q \in Procs : loc[q].wrote \in Nat
    BY <1>t, PubTypes
  <2>4. Published'
    <3>1. acked.cache <= loc[p].cache.version
      BY <1>p, <2>2, <2>3, Leq DEF Published, CacheCoversAcked
    <3> QED
      BY <1>p, <2>1, <2>2, <3>1 DEF Published, CacheCoversAcked, CRLCoversAcked
  <2>5. View(p)'
    <3>1. OpFits(cmd[p].op, "return")
      BY DEF OpFits, Authorizing, HoldsCRL, HoldsCache
    <3>2. WroteView(p)'
      BY <1>v, <2>1 DEF WroteView, Authorizing
    <3>3. CacheView(p)'
      BY <2>1, <2>2 DEF CacheView, HoldsCache
    <3>4. CRLView(p)'
      BY <1>v, <2>1 DEF CRLView, HoldsCRL, HoldsCache
    <3> QED
      BY <2>1, <3>1, <3>2, <3>3, <3>4 DEF View
  <2>6. ASSUME NEW q \in Procs, q # p
        PROVE  View(q)'
    <3>1. OpFits(cmd[q].op, pc[q]) /\ WroteView(q) /\ CacheView(q) /\ CRLView(q)
      BY DEF PubInv, View
    <3>2. pc'[q] = pc[q]
      BY <2>1, <2>6
    <3>3. WroteView(q)' /\ CRLView(q)'
      BY <2>1, <3>1, <3>2 DEF WroteView, CRLView
    <3>4. pc[q] \notin HoldsCache
      BY <2>2, <2>6, <3>1 DEF CacheView
    <3>5. CacheView(q)'
      <4>1. pc[q] = "return" => loc[q].wrote <= loc[p].cache.version
        BY <2>2, <2>3, <3>1, Leq DEF CacheView
      <4> QED
        BY <2>1, <3>1, <3>2, <3>4, <4>1 DEF CacheView, HoldsCache
    <3> QED
      BY <2>1, <3>1, <3>2, <3>3, <3>5 DEF View
  <2> QED
    BY <2>4, <2>5, <2>6 DEF PubInv
<1> QED
  BY <1>2, <1>3, <1>4, <1>5, <1>6

-----------------------------------------------------------------------------
(* The steps that publish nothing *)

\* Commands and requests start with nothing written, or with a write.
LEMMA InvokePub ==
    ASSUME PubInv, TypeInv', NEW p \in Procs, Invoke(p)
    PROVE  PubInv'
<1> USE DEF OpFits, Authorizing, HoldsCRL, HoldsCache, Revoking, Cmd
<1>t. TypeInv
  BY DEF PubInv
<1>i. pc[p] = "idle" => loc[p].wrote = 0
  BY DEF PubInv, View, WroteView
<1>1. ASSUME NEW c, NEW first, Start(p, c, first), OpFits(c.op, first),
             first \notin {"idle", "lockCache", "return"} \cup HoldsCache \cup HoldsCRL,
             UNCHANGED <<db, cacheFile, crlFile, lock, loc, version, acked>>
      PROVE  PubInv'
  <2>1. pc[p] = "idle" /\ pc' = [pc EXCEPT ![p] = first] /\ cmd' = [cmd EXCEPT ![p] = c]
    BY <1>1 DEF Start, Goto
  <2> QED
    BY <1>1, <1>i, <2>1, QuietStep
<1>2. ASSUME NEW s \in Serials, RunRevokeCert(p, s)
      PROVE  PubInv'
  BY <1>1, <1>2 DEF RunRevokeCert, files
<1>3. ASSUME NEW t \in Targets, NEW s \in Serials, RunReissueCert(p, t, s)
      PROVE  PubInv'
  BY <1>1, <1>3 DEF RunReissueCert, files
<1>4. ASSUME NEW t \in Targets, NEW s \in Serials, RunIssueCLI(p, t, s)
      PROVE  PubInv'
  BY <1>1, <1>4 DEF RunIssueCLI, files
<1>5. ASSUME NEW ip \in IPs, RunDeregisterClient(p, ip)
      PROVE  PubInv'
  BY <1>1, <1>5 DEF RunDeregisterClient, files
<1>6. ASSUME NEW ip \in IPs, RunBlockClient(p, ip)
      PROVE  PubInv'
  <2>1. BlockIP(db, ip).cacheSequence = db.cacheSequence
    BY <1>t, PubTypes DEF BlockIP, Databases
  <2>2. /\ pc' = [pc EXCEPT ![p] = "RemoveClient"]
        /\ cmd' = [cmd EXCEPT ![p] = Cmd("block", ip, None, None)]
    BY <1>6 DEF RunBlockClient, Start, Goto
  <2>3. Write(p, BlockIP(db, ip)) /\ UNCHANGED <<cacheFile, crlFile, lock, acked>>
    BY <1>6 DEF RunBlockClient, files
  <2> QED
    BY <2>1, <2>2, <2>3, WriteStep
<1>7. ASSUME NEW ip \in IPs, RunUnblockClient(p, ip)
      PROVE  PubInv'
  BY <1>1, <1>7 DEF RunUnblockClient, files
<1>8. ASSUME RunMaster(p)
      PROVE  PubInv'
  BY <1>1, <1>8 DEF RunMaster, files
<1>9. ASSUME RunMasterOnEmptyDB(p)
      PROVE  PubInv'
  <2>2. /\ pc' = [pc EXCEPT ![p] = "lockCRL"]
        /\ cmd' = [cmd EXCEPT ![p] = Cmd("master", None, None, None)]
        /\ \A q \in Procs : pc[q] = "idle"
    BY <1>9 DEF RunMasterOnEmptyDB, Goto
  <2>3. Write(p, migrate) /\ UNCHANGED <<cacheFile, crlFile, lock, acked>>
    BY <1>9 DEF RunMasterOnEmptyDB, files
  <2> QED
    BY <2>2, <2>3, WriteStep
<1>10. ASSUME NEW ip \in IPs, Register(p, ip)
       PROVE  PubInv'
  BY <1>1, <1>10 DEF Register, files
<1>11. ASSUME NEW ip \in IPs, NEW s \in Serials, Enroll(p, ip, s)
       PROVE  PubInv'
  BY <1>1, <1>11 DEF Enroll, files
<1>12. ASSUME NEW op \in Handlers, NEW ip \in IPs, NEW s \in Serials, Control(p, op, ip, s)
       PROVE  PubInv'
  BY <1>1, <1>12 DEF Control, files
<1> QED
  BY <1>2, <1>3, <1>4, <1>5, <1>6, <1>7, <1>8, <1>9, <1>10, <1>11, <1>12 DEF Invoke

\* A request that is being authorized has written nothing.
LEMMA AuthorizePub ==
    ASSUME PubInv, TypeInv', NEW p \in Procs, CheckRevoked(p) \/ CheckCert(p) \/ CheckClient(p)
    PROVE  PubInv'
<1>t. TypeInv
  BY DEF PubInv
<1>c. cmd = [cmd EXCEPT ![p] = cmd[p]]
  BY <1>t, PubTypes
<1>o. OpFits(cmd[p].op, pc[p])
  BY DEF PubInv, View
<1>w. pc[p] \in Authorizing => loc[p].wrote = 0
  BY DEF PubInv, View, WroteView
<1>1. ASSUME Refuse(p)
      PROVE  PubInv'
  BY <1>1, EndStep DEF Refuse, files, PubInv, Published, CacheCoversAcked, CRLCoversAcked
<1>2. ASSUME NEW from, NEW to \in {"CertBySerial", "hasClient"}, pc[p] \in Authorizing,
             Goto(p, from, to),
             UNCHANGED <<db, files, lock, cmd, loc, minted, delivered, clock, online, version, acked, used>>
      PROVE  PubInv'
  <2>1. OpFits(cmd[p].op, to)
    BY <1>2, <1>o DEF OpFits, Authorizing, HoldsCRL, HoldsCache
  <2>2. /\ UNCHANGED <<db, cacheFile, crlFile, version, acked, lock, loc>>
        /\ cmd' = [cmd EXCEPT ![p] = cmd[p]] /\ pc' = [pc EXCEPT ![p] = to]
    BY <1>2, <1>c DEF Goto, files
  <2>3. to \notin {"idle", "lockCache"} \cup HoldsCache \cup HoldsCRL
    BY <1>2 DEF HoldsCRL, HoldsCache
  <2> QED
    BY <1>2, <1>w, <2>1, <2>2, <2>3, QuietStep
<1>3. CASE CheckRevoked(p)
  BY <1>1, <1>2, <1>3 DEF CheckRevoked, AuthorizeStep, Authorizing
<1>4. CASE CheckCert(p)
  BY <1>1, <1>2, <1>4 DEF CheckCert, AuthorizeStep, Authorizing
<1>5. CASE CheckClient(p)
  <2>w. loc[p].wrote = 0
    BY <1>5, <1>w DEF CheckClient, Authorizing
  <2>1. CASE Refuse(p)
    BY <1>1, <2>1
  <2>2. ASSUME NEW s \in Serials, NEW t \in Loopback, cmd[p].op = "sign_csr",
               cmd' = [cmd EXCEPT ![p].serial = s, ![p].subject = t],
               Goto(p, "hasClient", "AddCert"),
               UNCHANGED <<db, files, lock, loc, delivered, clock, online, version, acked, used>>
        PROVE  PubInv'
    <3> DEFINE c == [cmd[p] EXCEPT !.serial = s, !.subject = t]
    <3>1. c.op = "sign_csr"
      BY <2>2, <1>t, PubTypes DEF CmdTypes
    <3>2. cmd' = [cmd EXCEPT ![p] = c] /\ pc' = [pc EXCEPT ![p] = "AddCert"]
      BY <2>2, <1>t, PubTypes DEF Goto
    <3>3. UNCHANGED <<db, cacheFile, crlFile, version, acked, lock, loc>>
      BY <2>2 DEF files
    <3> HIDE DEF c
    <3> QED
      BY <2>w, <3>1, <3>2, <3>3, QuietStep DEF OpFits, Authorizing, HoldsCRL, HoldsCache
  <2>3. ASSUME NEW to \in {"lockCRL", "return"}, to = "lockCRL" => cmd[p].op = "sync_crl",
               Goto(p, "hasClient", to), UNCHANGED <<cmd, minted>>,
               UNCHANGED <<db, files, lock, loc, delivered, clock, online, version, acked, used>>
        PROVE  PubInv'
    <3>1. OpFits(cmd[p].op, to)
      BY <2>3 DEF OpFits, Authorizing, HoldsCRL, HoldsCache
    <3>2. /\ UNCHANGED <<db, cacheFile, crlFile, version, acked, lock, loc>>
          /\ cmd' = [cmd EXCEPT ![p] = cmd[p]] /\ pc' = [pc EXCEPT ![p] = to]
      BY <2>3, <1>c DEF Goto, files
    <3>3. to \notin {"idle", "lockCache"} \cup HoldsCache \cup HoldsCRL
      BY DEF HoldsCRL, HoldsCache
    <3> QED
      BY <2>w, <3>1, <3>2, <3>3, QuietStep
  <2> QED
    BY <1>5, <2>1, <2>2, <2>3 DEF CheckClient, DenyCSR, SignCSR, refreshCRL, ServeFile
<1> QED
  BY <1>3, <1>4, <1>5

\* The steps on the tables: only those of commands that revoke nothing skip
\* the CRL.
LEMMA TablePub ==
    ASSUME PubInv, TypeInv', NEW p \in Procs,
           \/ RecordRevocation(p) \/ RecordCert(p) \/ RecordClient(p)
           \/ DropClient(p) \/ LiftBlock(p) \/ ReplaceCert(p)
    PROVE  PubInv'
<1> USE DEF Authorizing, HoldsCRL, HoldsCache, Revoking
<1>t. TypeInv /\ db \in Databases
  BY PubTypes DEF PubInv
<1>c. cmd = [cmd EXCEPT ![p] = cmd[p]]
  BY <1>t, PubTypes
<1>o. OpFits(cmd[p].op, pc[p])
  BY DEF PubInv, View
<1>1. ASSUME NEW from, NEW to \in {"registerClient", "lockCRL", "lockCache"}, Goto(p, from, to),
             OpFits(cmd[p].op, to), cmd[p].op \notin {"sync_cache", "sync_crl"},
             to = "lockCache" => cmd[p].op \notin Revoking,
             NEW d, d.cacheSequence = db.cacheSequence, Write(p, d),
             UNCHANGED <<files, lock, cmd, minted, delivered, clock, online, acked, used>>
      PROVE  PubInv'
  <2>1. /\ UNCHANGED <<cacheFile, crlFile, lock, acked>>
        /\ cmd' = [cmd EXCEPT ![p] = cmd[p]] /\ pc' = [pc EXCEPT ![p] = to]
    BY <1>1, <1>c DEF Goto, files
  <2> QED
    BY <1>1, <2>1, WriteStep
<1>2. CASE RecordRevocation(p)
  <2>1. RevokeCert(db, cmd[p].serial, "unspecified").cacheSequence = db.cacheSequence
    BY <1>t DEF RevokeCert, Databases
  <2>2. cmd[p].op = "revoke"
    BY <1>2, <1>o DEF RecordRevocation, Goto, OpFits
  <2> QED
    BY <1>1, <1>2, <2>1, <2>2 DEF RecordRevocation, OpFits
<1>3. CASE RecordCert(p)
  <2>1. AddCert(db, cmd[p].serial, cmd[p].subject).cacheSequence = db.cacheSequence
    BY <1>t DEF AddCert, Databases
  <2>2. cmd[p].op \in {"issue", "enroll", "sign_csr"}
    BY <1>3, <1>o DEF RecordCert, Goto, OpFits
  <2>3. OpFits(cmd[p].op, "lockCache") /\ (cmd[p].op = "enroll" => OpFits(cmd[p].op, "registerClient"))
    BY <2>2 DEF OpFits
  <2> QED
    BY <1>1, <1>3, <2>1, <2>2, <2>3 DEF RecordCert
<1>4. CASE RecordClient(p)
  <2>1. registerClient(db, cmd[p].ip).cacheSequence = db.cacheSequence
    BY <1>t DEF registerClient, Databases
  <2>2. cmd[p].op \in {"register", "enroll"}
    BY <1>4, <1>o DEF RecordClient, Goto, OpFits
  <2> QED
    BY <1>1, <1>4, <2>1, <2>2 DEF RecordClient, OpFits
<1>5. CASE DropClient(p)
  <2>1. RemoveClient(db, cmd[p].ip).cacheSequence = db.cacheSequence
    BY <1>t DEF RemoveClient, Databases
  <2>2. cmd[p].op \in {"deregister", "block"}
    BY <1>5, <1>o DEF DropClient, Goto, OpFits
  <2> QED
    BY <1>1, <1>5, <2>1, <2>2 DEF DropClient, OpFits
<1>6. CASE LiftBlock(p)
  <2>1. UnblockIP(db, cmd[p].ip).cacheSequence = db.cacheSequence
    BY <1>t DEF UnblockIP, Databases
  <2>2. cmd[p].op = "unblock"
    BY <1>6, <1>o DEF LiftBlock, Goto, OpFits
  <2> QED
    BY <1>1, <1>6, <2>1, <2>2 DEF LiftBlock, OpFits
<1>7. CASE ReplaceCert(p)
  <2>1. replaceCertificate(db, cmd[p].serial, cmd[p].subject).cacheSequence = db.cacheSequence
    BY <1>t DEF replaceCertificate, AddCert, Databases
  <2>2. cmd[p].op = "reissue"
    BY <1>7, <1>o DEF ReplaceCert, Goto, OpFits
  <2> QED
    BY <1>1, <1>7, <2>1, <2>2 DEF ReplaceCert, OpFits
<1> QED
  BY <1>2, <1>3, <1>4, <1>5, <1>6, <1>7

\* The steps on the issued files.
LEMMA FilePub ==
    ASSUME PubInv, TypeInv', NEW p \in Procs,
           LockIssuance(p) \/ WriteKey(p) \/ WriteCrt(p) \/ RollbackKey(p)
    PROVE  PubInv'
<1>t. TypeInv /\ None \notin Procs
  BY MasterAssumption DEF PubInv
<1>c. cmd = [cmd EXCEPT ![p] = cmd[p]]
  BY <1>t, PubTypes
<1>o. OpFits(cmd[p].op, pc[p])
  BY DEF PubInv, View
<1>1. ASSUME NEW to \in {"writeKey", "writeCrt", "replaceCertificate", "AddCert"},
             pc' = [pc EXCEPT ![p] = to], OpFits(cmd[p].op, to), cmd[p].op \in {"issue", "reissue"},
             \A q \in Procs \ {p} : loc'[q] = loc[q], loc'[p].wrote = loc[p].wrote,
             \A q \in Procs \ {p} : /\ lock["cache"] = q => lock'["cache"] = q
                                    /\ lock["crl"] = q => lock'["crl"] = q,
             UNCHANGED <<db, cacheFile, crlFile, cmd, version, acked>>
      PROVE  PubInv'
  <2>1. cmd' = [cmd EXCEPT ![p] = cmd[p]]
    BY <1>1, <1>c
  <2>2. to \notin {"idle", "lockCache"} \cup HoldsCache \cup HoldsCRL
    BY DEF HoldsCRL, HoldsCache
  <2>3. /\ to \notin {"return"} \cup Authorizing
        /\ cmd[p].op \notin {"sync_cache", "sync_crl"}
    BY <1>1 DEF Authorizing
  <2> QED
    BY <1>1, <2>1, <2>2, <2>3, QuietStep
<1>2. CASE LockIssuance(p)
  <2>1. cmd[p].op \in {"issue", "reissue"}
    BY <1>2, <1>o DEF LockIssuance, Goto, OpFits
  <2>2. OpFits(cmd[p].op, "writeKey")
    BY <2>1 DEF OpFits, Authorizing, HoldsCRL, HoldsCache
  <2>3. \A q \in Procs \ {p} : /\ lock["cache"] = q => lock'["cache"] = q
                               /\ lock["crl"] = q => lock'["crl"] = q
    BY <1>2, <1>t, PubTypes DEF LockIssuance, lockFile
  <2> QED
    BY <1>1, <1>2, <2>1, <2>2, <2>3 DEF LockIssuance, Goto, files
<1>3. CASE WriteKey(p)
  <2>1. cmd[p].op \in {"issue", "reissue"}
    BY <1>3, <1>o DEF WriteKey, Goto, OpFits
  <2>2. OpFits(cmd[p].op, "writeCrt")
    BY <2>1 DEF OpFits, Authorizing, HoldsCRL, HoldsCache
  <2>3. /\ \A q \in Procs \ {p} : loc'[q] = loc[q]
        /\ loc'[p].wrote = loc[p].wrote
    BY <1>3, <1>t, PubTypes, SMT, Z3 DEF WriteKey, LocTypes
  <2> QED
    BY <1>1, <1>3, <2>1, <2>2, <2>3 DEF WriteKey, Goto
<1>4. CASE WriteCrt(p)
  <2>1. cmd[p].op \in {"issue", "reissue"}
    BY <1>4, <1>o DEF WriteCrt, Goto, OpFits
  <2>2. /\ cmd[p].op = "reissue" => OpFits(cmd[p].op, "replaceCertificate")
        /\ cmd[p].op = "issue" => OpFits(cmd[p].op, "AddCert")
    BY DEF OpFits, Authorizing, HoldsCRL, HoldsCache
  <2> QED
    BY <1>1, <1>4, <2>1, <2>2 DEF WriteCrt, Goto
<1>5. CASE RollbackKey(p)
  BY <1>5, EndStep DEF RollbackKey, PubInv, Published, CacheCoversAcked, CRLCoversAcked
<1> QED
  BY <1>2, <1>3, <1>4, <1>5

-----------------------------------------------------------------------------
(* The theorems *)

\* What a process acknowledges at its end is published.
LEMMA ReturnAcks ==
    ASSUME PubInv, NEW p \in Procs, Return(p)
    PROVE  /\ acked'.cache \in acked.cache .. cacheFile.version
           /\ acked'.crl \in acked.crl .. crlFile.version
<1>t. TypeInv
  BY DEF PubInv
<1>n. /\ acked.cache \in Nat /\ acked.crl \in Nat /\ cacheFile.version \in Nat
      /\ crlFile.version \in Nat /\ loc[p].wrote \in Nat
  BY <1>t, PubTypes
<1>1. pc[p] = "return" /\ CacheView(p) /\ CRLView(p)
  BY DEF PubInv, View, Return
<1>2. /\ loc[p].wrote <= cacheFile.version
      /\ cmd[p].op \in Revoking => loc[p].wrote <= crlFile.version
  BY <1>1 DEF CacheView, CRLView
<1>3. acked.cache <= cacheFile.version /\ acked.crl <= crlFile.version
  BY DEF PubInv, Published, CacheCoversAcked, CRLCoversAcked
<1>4. /\ acked'.cache = Larger(acked.cache, loc[p].wrote)
      /\ acked'.crl = IF cmd[p].op \in Revoking
                      THEN Larger(acked.crl, loc[p].wrote) ELSE acked.crl
  BY DEF Return
<1> QED
  BY <1>n, <1>2, <1>3, <1>4, SMT, Z3 DEF Larger

LEMMA EndPub ==
    ASSUME PubInv, TypeInv', NEW p \in Procs, Return(p) \/ Abort(p)
    PROVE  PubInv'
<1>1. CASE Return(p)
  <2>1. acked'.cache <= cacheFile.version /\ acked'.crl <= crlFile.version
    BY <1>1, ReturnAcks, PubTypes, SMT, Z3 DEF PubInv
  <2> QED
    BY <1>1, <2>1, EndStep DEF Return, files
<1>2. CASE Abort(p)
  BY <1>2, EndStep DEF Abort, files, PubInv, Published, CacheCoversAcked, CRLCoversAcked
<1> QED
  BY <1>1, <1>2

LEMMA StutterPub == PubInv /\ UNCHANGED vars => PubInv'
<1> SUFFICES ASSUME PubInv, UNCHANGED vars PROVE PubInv'
  OBVIOUS
<1>1. UNCHANGED <<db, cacheFile, crlFile, lock, pc, cmd, loc, version, acked>>
  BY DEF vars, files
<1>2. TypeInv'
  BY StutterTypes DEF PubInv
<1>3. Published'
  BY <1>1 DEF PubInv, Published, CacheCoversAcked, CRLCoversAcked, SameTables
<1>4. ASSUME NEW p \in Procs PROVE View(p)'
  <2>1. WroteView(p)' /\ OpFits(cmd[p].op, pc[p])'
    BY <1>1 DEF PubInv, View, WroteView
  <2>2. CacheView(p)'
    BY <1>1 DEF PubInv, View, CacheView, SameTables
  <2>3. CRLView(p)'
    BY <1>1 DEF PubInv, View, CRLView
  <2> QED
    BY <2>1, <2>2, <2>3 DEF View
<1> QED
  BY <1>2, <1>3, <1>4 DEF PubInv

LEMMA InitPub == Init => PubInv
<1> SUFFICES ASSUME Init PROVE PubInv
  OBVIOUS
<1>1. TypeInv
  BY InitTypes
<1>2. SameTables(BuildSnapshot(BootstrappedDB), BootstrappedDB) /\ BootstrappedDB.revoked = {}
  BY DEF SameTables, BuildSnapshot, BootstrappedDB, migrate
<1>3. Published
  <2>1. /\ version = 0 /\ acked.cache = 0 /\ acked.crl = 0
        /\ cacheFile.version = 0 /\ crlFile.version = 0
    BY DEF Init
  <2>2. SameTables(cacheFile.data, db)
    BY <1>2 DEF Init
  <2>3. crlFile.revoked = db.revoked
    BY <1>2 DEF Init
  <2>4. 0 <= 0
    BY SMT, Z3
  <2> QED
    BY <2>1, <2>2, <2>3, <2>4 DEF Published, CacheCoversAcked, CRLCoversAcked
<1>4. ASSUME NEW p \in Procs PROVE View(p)
  <2>1. pc[p] = "idle" /\ cmd[p].op = "none" /\ loc[p].wrote = 0 /\ version = 0
    BY DEF Init, NoCmd, Cmd, NoLocals
  <2> QED
    BY <2>1, SMT, Z3 DEF View, OpFits, WroteView, CacheView, CRLView, Authorizing, HoldsCRL, HoldsCache
<1> QED
  BY <1>1, <1>3, <1>4 DEF PubInv

LEMMA NextPub == PubInv /\ [Next]_vars => PubInv'
<1> SUFFICES ASSUME PubInv, [Next]_vars PROVE PubInv'
  OBVIOUS
<1>1. TypeInv'
  BY NextTypes DEF PubInv
<1>2. ASSUME NEW p \in Procs, Step(p) PROVE PubInv'
  BY <1>1, <1>2, AuthorizePub, TablePub, FilePub, CRLPub, CachePub, EndPub DEF Step
<1> QED
  BY <1>1, <1>2, InvokePub, FilePub, EndPub, StutterPub DEF Next, Quiescent

LEMMA PubInvariant == Spec => []PubInv
BY InitPub, NextPub, PTL DEF Spec

-----------------------------------------------------------------------------

\* A command that has reported success finds its change in the published
\* cache, and a cache that reflects the latest write is the tables: about
\* RebuildEncryptedCache taking its snapshot under the lock.
THEOREM CacheSafe == Spec => []CacheCoversAcked
<1>1. PubInv => CacheCoversAcked
  BY DEF PubInv, Published
<1> QED
  BY <1>1, PubInvariant, PTL

\* The same for the CRL and the commands that revoke: about WriteCRL in
\* RunRevokeCert, RunReissueCert and RunMaster.
THEOREM CRLSafe == Spec => []CRLCoversAcked
<1>1. PubInv => CRLCoversAcked
  BY DEF PubInv, Published
<1> QED
  BY <1>1, PubInvariant, PTL

\* Every step of the master is a step of Publication or changes nothing that
\* Publication sees.
LEMMA StepPublishes == PubInv /\ [Next]_vars => [Promise!Next]_(Promise!pubVars)
<1> SUFFICES ASSUME PubInv, [Next]_vars PROVE [Promise!Next]_(Promise!pubVars)
  OBVIOUS
<1> USE DEF Promise!Next, Promise!pubVars, Promise!ChangeTables, Promise!PublishCache,
            Promise!PublishCRL, Promise!Acknowledge
<1>t. TypeInv
  BY DEF PubInv
<1>1. ASSUME UNCHANGED <<cacheFile, crlFile, version, acked>>
      PROVE  [Promise!Next]_(Promise!pubVars)
  BY <1>1
<1>2. ASSUME NEW p \in Procs, NEW d, Write(p, d), UNCHANGED <<cacheFile, crlFile, acked>>
      PROVE  [Promise!Next]_(Promise!pubVars)
  BY <1>2 DEF Write
<1>3. ASSUME NEW p \in Procs, WriteCRL(p)
      PROVE  [Promise!Next]_(Promise!pubVars)
  <2>1. CRLView(p) /\ pc[p] = "writeCRL"
    BY <1>3 DEF PubInv, View, WriteCRL, Goto
  <2>2. crlFile'.version \in crlFile.version .. version
    BY <1>3, <1>t, <2>1, PubTypes, SMT, Z3 DEF CRLView, HoldsCRL, WriteCRL
  <2> QED
    BY <1>3, <2>2 DEF WriteCRL
<1>4. ASSUME NEW p \in Procs, WriteCache(p)
      PROVE  [Promise!Next]_(Promise!pubVars)
  <2>1. CacheView(p) /\ pc[p] = "writeCache"
    BY <1>4 DEF PubInv, View, WriteCache, Goto
  <2>2. cacheFile'.version \in cacheFile.version .. version /\ cacheFile'.seq > cacheFile.seq
    BY <1>4, <1>t, <2>1, PubTypes, SMT, Z3 DEF CacheView, HoldsCache, WriteCache
  <2> QED
    BY <1>4, <2>2 DEF WriteCache
<1>5. ASSUME NEW p \in Procs, Return(p)
      PROVE  [Promise!Next]_(Promise!pubVars)
  BY <1>5, ReturnAcks DEF Return, files
<1>6. ASSUME NEW p \in Procs, Invoke(p)
      PROVE  [Promise!Next]_(Promise!pubVars)
  <2>1. CASE \E ip \in IPs : RunBlockClient(p, ip)
    BY <1>2, <2>1 DEF RunBlockClient, files
  <2>2. CASE RunMasterOnEmptyDB(p)
    BY <1>2, <2>2 DEF RunMasterOnEmptyDB, files
  <2>3. CASE ~RunMasterOnEmptyDB(p) /\ \A ip \in IPs : ~RunBlockClient(p, ip)
    <3>1. UNCHANGED <<cacheFile, crlFile, version, acked>>
      BY <1>6, <2>3 DEF Invoke, RunRevokeCert, RunReissueCert, RunIssueCLI, RunDeregisterClient,
          RunUnblockClient, RunMaster, Register, Enroll, Control, files
    <3> QED
      BY <1>1, <3>1
  <2> QED
    BY <2>1, <2>2, <2>3
<1>7. ASSUME NEW p \in Procs, CheckRevoked(p) \/ CheckCert(p) \/ CheckClient(p)
      PROVE  [Promise!Next]_(Promise!pubVars)
  BY <1>1, <1>7 DEF CheckRevoked, CheckCert, CheckClient, DenyCSR, SignCSR, refreshCRL, ServeFile,
      AuthorizeStep, Refuse, files
<1>8. ASSUME NEW p \in Procs,
             \/ RecordRevocation(p) \/ RecordCert(p) \/ RecordClient(p)
             \/ DropClient(p) \/ LiftBlock(p) \/ ReplaceCert(p)
      PROVE  [Promise!Next]_(Promise!pubVars)
  BY <1>2, <1>8 DEF RecordRevocation, RecordCert, RecordClient, DropClient, LiftBlock, ReplaceCert, files
<1>9. ASSUME NEW p \in Procs,
             LockIssuance(p) \/ WriteKey(p) \/ WriteCrt(p) \/ RollbackKey(p) \/ Abort(p)
      PROVE  [Promise!Next]_(Promise!pubVars)
  BY <1>1, <1>9 DEF LockIssuance, WriteKey, WriteCrt, RollbackKey, Abort, files
<1>10. ASSUME NEW p \in Procs,
              \/ LockCRL(p) \/ ListRevoked(p) \/ NumberCRL(p)
              \/ LockCache(p) \/ TakeSnapshot(p) \/ RaiseSequence(p) \/ NextSequence(p)
       PROVE  [Promise!Next]_(Promise!pubVars)
  BY <1>1, <1>10 DEF LockCRL, ListRevoked, NumberCRL, LockCache, TakeSnapshot, RaiseSequence, NextSequence, files
<1>11. ASSUME UNCHANGED vars
       PROVE  [Promise!Next]_(Promise!pubVars)
  BY <1>1, <1>11 DEF vars, files
<1> HIDE DEF Promise!Next, Promise!pubVars
<1>12. ASSUME NEW p \in Procs, Step(p)
       PROVE  [Promise!Next]_(Promise!pubVars)
  BY <1>3, <1>4, <1>5, <1>7, <1>8, <1>9, <1>10, <1>12 DEF Step
<1> QED
  BY <1>6, <1>9, <1>11, <1>12 DEF Next, Quiescent

\* The master implements Publication: whatever commands and requests run
\* side by side and wherever they fail, the published cache and CRL move
\* forward only, the cache under a larger sequence number each time, and a
\* write is acknowledged only when the files show it.
THEOREM MasterPublishes == Spec => Publishes
<1>1. Init => Promise!Init
  BY SMT, Z3 DEF Init, Promise!Init
<1> QED
  BY <1>1, PubInvariant, StepPublishes, PTL DEF Spec, Publishes, Promise!Spec

-----------------------------------------------------------------------------
(***************************************************************************)
(* Issuance: what is on disk under issued/, what the tables say of a       *)
(* subject, what was handed out, and the numbers of the CRLs.              *)
(***************************************************************************)

-----------------------------------------------------------------------------
(* What the statements of the store leave alone *)

\* The tables of certificates and revocations.
KeepsCerts(e, d) == e.certs = d.certs /\ e.revoked = d.revoked

LEMMA StoreKeeps ==
    ASSUME NEW d \in Databases
    PROVE  /\ \A ip : /\ KeepsCerts(registerClient(d, ip), d) /\ KeepsCerts(RemoveClient(d, ip), d)
                      /\ KeepsCerts(BlockIP(d, ip), d) /\ KeepsCerts(UnblockIP(d, ip), d)
           /\ \A n : /\ KeepsCerts(raiseCacheSequence(d, n), d) /\ KeepsCerts(nextCRLNumber(d, n), d)
           /\ KeepsCerts(nextCacheSequence(d), d)
<1>1. \A ip : /\ KeepsCerts(registerClient(d, ip), d) /\ KeepsCerts(RemoveClient(d, ip), d)
              /\ KeepsCerts(BlockIP(d, ip), d) /\ KeepsCerts(UnblockIP(d, ip), d)
  BY DEF KeepsCerts, registerClient, RemoveClient, BlockIP, UnblockIP, Databases
<1>2. \A n : KeepsCerts(raiseCacheSequence(d, n), d) /\ KeepsCerts(nextCRLNumber(d, n), d)
  BY DEF KeepsCerts, raiseCacheSequence, nextCRLNumber, Databases
<1>3. KeepsCerts(nextCacheSequence(d), d)
  BY DEF KeepsCerts, nextCacheSequence, Databases
<1> QED
  BY <1>1, <1>2, <1>3

\* A revocation by hand never has the reason of a reissue.
Revokes(e, d) ==
    /\ e.certs = d.certs /\ e.crlNumber = d.crlNumber
    /\ d.revoked \subseteq e.revoked
    /\ \A r \in e.revoked : r.reason = "superseded" => r \in d.revoked

LEMMA RevokeKeeps ==
    ASSUME NEW d \in Databases, NEW s \in Serials
    PROVE  Revokes(RevokeCert(d, s, "unspecified"), d)
<1> DEFINE e == RevokeCert(d, s, "unspecified")
<1>1. /\ e.certs = d.certs /\ e.crlNumber = d.crlNumber
      /\ e.revoked \in {d.revoked, d.revoked \cup {[serial |-> s, reason |-> "unspecified"]}}
  BY DEF RevokeCert, Databases
<1>2. [serial |-> s, reason |-> "unspecified"].reason # "superseded"
  OBVIOUS
<1> HIDE DEF e
<1>3. /\ d.revoked \subseteq e.revoked
      /\ \A r \in e.revoked : r.reason = "superseded" => r \in d.revoked
  BY <1>1, <1>2
<1> QED
  BY <1>1, <1>3 DEF e, Revokes

\* A new certificate is inserted; no other has its serial.
Adds(e, d, s, b) ==
    /\ e.certs = d.certs \cup {[serial |-> s, subject |-> b]}
    /\ e.revoked = d.revoked
    /\ e.crlNumber = d.crlNumber

LEMMA AddKeeps ==
    ASSUME NEW d \in Databases, NEW s \in Serials, NEW b, \A c \in d.certs : c.serial # s
    PROVE  Adds(AddCert(d, s, b), d, s, b)
<1>1. {c \in d.certs : c.serial # s} = d.certs
  OBVIOUS
<1> QED
  BY <1>1 DEF AddCert, Databases, Adds

\* A reissue also revokes the other certificates of the subject.
Replaces(e, d, s, b) ==
    /\ e.certs = d.certs \cup {[serial |-> s, subject |-> b]}
    /\ e.crlNumber = d.crlNumber
    /\ d.revoked \subseteq e.revoked
    /\ \A r \in e.revoked : r \notin d.revoked =>
          \E c \in d.certs : c.subject = b /\ r.serial = c.serial

LEMMA ReplaceKeeps ==
    ASSUME NEW d \in Databases, NEW s \in Serials, NEW b, \A c \in d.certs : c.serial # s
    PROVE  Replaces(replaceCertificate(d, s, b), d, s, b)
<1> DEFINE a == AddCert(d, s, b)
           superseded == {c \in d.certs : c.subject = b /\ c.serial # s /\ ~IsRevoked(d, c.serial)}
           new == {[serial |-> c.serial, reason |-> "superseded"] : c \in superseded}
           e == replaceCertificate(d, s, b)
<1>1. /\ a.certs = d.certs \cup {[serial |-> s, subject |-> b]} /\ a.revoked = d.revoked
      /\ a.crlNumber = d.crlNumber
  BY AddKeeps DEF Adds
<1>2. \A f \in {"certs", "revoked", "crlNumber"} : f \in DOMAIN a
  BY DEF AddCert, Databases
<1>3. e = [a EXCEPT !.revoked = a.revoked \cup new]
  BY DEF replaceCertificate
<1>4. ASSUME NEW r \in new PROVE \E c \in d.certs : c.subject = b /\ r.serial = c.serial
  <2>1. PICK c \in superseded : r = [serial |-> c.serial, reason |-> "superseded"]
    OBVIOUS
  <2>2. r.serial = c.serial /\ c \in d.certs /\ c.subject = b
    BY <2>1
  <2> QED
    BY <2>2
<1> HIDE DEF a, new, e
<1>5. e.certs = a.certs /\ e.crlNumber = a.crlNumber /\ e.revoked = a.revoked \cup new
  BY <1>2, <1>3
<1>6. /\ e.certs = d.certs \cup {[serial |-> s, subject |-> b]}
      /\ e.crlNumber = d.crlNumber
      /\ d.revoked \subseteq e.revoked
      /\ \A r \in e.revoked : r \notin d.revoked =>
            \E c \in d.certs : c.subject = b /\ r.serial = c.serial
  BY <1>1, <1>4, <1>5
<1> QED
  BY <1>6 DEF e, Replaces

-----------------------------------------------------------------------------
(* What a step leaves alone *)

Acts(p) == Invoke(p) \/ Step(p) \/ RollbackKey(p) \/ Abort(p)

\* A step of p moves p alone, and takes no lock from another process.
Bystanders(p) ==
    \A q \in Procs \ {p} :
        /\ pc'[q] = pc[q] /\ cmd'[q] = cmd[q] /\ loc'[q] = loc[q]
        /\ \A l \in Locks : lock[l] = q => lock'[l] = q

LEMMA PcMoves ==
    ASSUME NEW p \in Procs, Acts(p)
    PROVE  \E to : pc' = [pc EXCEPT ![p] = to]
<1>1. CASE Invoke(p)
  BY <1>1 DEF Invoke, RunRevokeCert, RunReissueCert, RunIssueCLI, RunDeregisterClient, RunBlockClient,
      RunUnblockClient, RunMaster, RunMasterOnEmptyDB, Register, Enroll, Control, Start, Goto
<1>2. CASE CheckRevoked(p) \/ CheckCert(p) \/ CheckClient(p)
  BY <1>2 DEF CheckRevoked, CheckCert, CheckClient, AuthorizeStep, DenyCSR, SignCSR, refreshCRL,
      ServeFile, Refuse, Leave, Goto
<1>3. CASE Step(p) /\ ~(CheckRevoked(p) \/ CheckCert(p) \/ CheckClient(p))
  BY <1>3 DEF Step, RecordRevocation, RecordCert, RecordClient, DropClient, LiftBlock, ReplaceCert,
      LockIssuance, WriteKey, WriteCrt, LockCRL, ListRevoked, NumberCRL, WriteCRL, LockCache,
      TakeSnapshot, RaiseSequence, NextSequence, WriteCache, Return, Leave, Goto
<1>4. CASE RollbackKey(p) \/ Abort(p)
  BY <1>4 DEF RollbackKey, Abort, Leave
<1> QED
  BY <1>1, <1>2, <1>3, <1>4 DEF Acts

\* Where a command or a request starts.
LEMMA InvokeStarts ==
    ASSUME TypeInv, NEW p \in Procs, Invoke(p)
    PROVE  /\ pc[p] = "idle"
           /\ pc'[p] \in {"RevokeCert", "lockIssuance", "RemoveClient", "UnblockIP", "lockCRL",
                          "registerClient", "AddCert", "IsRevoked"}
<1>0. pc \in [Procs -> Steps]
  BY DEF TypeInv, TypeOK
<1>1. ASSUME NEW from, NEW to, Goto(p, from, to) PROVE pc[p] = from /\ pc'[p] = to
  BY <1>0, <1>1 DEF Goto
<1>2. CASE RunMaster(p) \/ RunMasterOnEmptyDB(p)
  BY <1>1, <1>2 DEF RunMaster, RunMasterOnEmptyDB, Start
<1>3. CASE \E s \in Serials : RunRevokeCert(p, s) \/ \E t \in Targets : RunReissueCert(p, t, s) \/ RunIssueCLI(p, t, s)
  BY <1>1, <1>3 DEF RunRevokeCert, RunReissueCert, RunIssueCLI, Start
<1>4. CASE \E ip \in IPs : RunDeregisterClient(p, ip) \/ RunBlockClient(p, ip) \/ RunUnblockClient(p, ip) \/ Register(p, ip)
  BY <1>1, <1>4 DEF RunDeregisterClient, RunBlockClient, RunUnblockClient, Register, Start
<1>5. CASE \E ip \in IPs, s \in Serials : Enroll(p, ip, s) \/ \E op \in Handlers : Control(p, op, ip, s)
  BY <1>1, <1>5 DEF Enroll, Control, Start
<1> QED
  BY <1>2, <1>3, <1>4, <1>5 DEF Invoke

LEMMA CmdMoves ==
    ASSUME TypeInv, NEW p \in Procs, Acts(p), NEW q \in Procs \ {p}
    PROVE  cmd'[q] = cmd[q]
<1>0. cmd \in [Procs -> CmdTypes]
  BY DEF TypeInv, TypeOK, CmdTypes
<1>1. CASE Invoke(p)
  BY <1>0, <1>1 DEF Invoke, RunRevokeCert, RunReissueCert, RunIssueCLI, RunDeregisterClient, RunBlockClient,
      RunUnblockClient, RunMaster, RunMasterOnEmptyDB, Register, Enroll, Control, Start
<1>2. CASE CheckRevoked(p) \/ CheckCert(p) \/ CheckClient(p)
  BY <1>0, <1>2 DEF CheckRevoked, CheckCert, CheckClient, AuthorizeStep, DenyCSR, SignCSR, refreshCRL,
      ServeFile, Refuse, Leave
<1>3. CASE Step(p) /\ ~(CheckRevoked(p) \/ CheckCert(p) \/ CheckClient(p))
  BY <1>0, <1>3 DEF Step, RecordRevocation, RecordCert, RecordClient, DropClient, LiftBlock, ReplaceCert,
      LockIssuance, WriteKey, WriteCrt, LockCRL, ListRevoked, NumberCRL, WriteCRL, LockCache,
      TakeSnapshot, RaiseSequence, NextSequence, WriteCache, Return, Leave
<1>4. CASE RollbackKey(p) \/ Abort(p)
  BY <1>0, <1>4 DEF RollbackKey, Abort, Leave
<1> QED
  BY <1>1, <1>2, <1>3, <1>4 DEF Acts

LEMMA LocMoves ==
    ASSUME TypeInv, NEW p \in Procs, Acts(p), NEW q \in Procs \ {p}
    PROVE  loc'[q] = loc[q]
<1>0. loc \in [Procs -> LocTypes]
  BY DEF TypeInv, TypeOK, LocTypes
<1>1. CASE Invoke(p)
  BY <1>0, <1>1 DEF Invoke, RunRevokeCert, RunReissueCert, RunIssueCLI, RunDeregisterClient, RunBlockClient,
      RunUnblockClient, RunMaster, RunMasterOnEmptyDB, Register, Enroll, Control, Write
<1>2. CASE CheckRevoked(p) \/ CheckCert(p) \/ CheckClient(p)
  BY <1>0, <1>2 DEF CheckRevoked, CheckCert, CheckClient, AuthorizeStep, DenyCSR, SignCSR, refreshCRL,
      ServeFile, Refuse, Leave
<1>3. CASE Step(p) /\ ~(CheckRevoked(p) \/ CheckCert(p) \/ CheckClient(p))
  BY <1>0, <1>3 DEF Step, RecordRevocation, RecordCert, RecordClient, DropClient, LiftBlock, ReplaceCert,
      LockIssuance, WriteKey, WriteCrt, LockCRL, ListRevoked, NumberCRL, WriteCRL, LockCache,
      TakeSnapshot, RaiseSequence, NextSequence, WriteCache, Return, Leave, Write
<1>4. CASE RollbackKey(p) \/ Abort(p)
  BY <1>0, <1>4 DEF RollbackKey, Abort, Leave
<1> QED
  BY <1>1, <1>2, <1>3, <1>4 DEF Acts

\* A lock is taken when it is free and given back by its holder.
LEMMA LockMoves ==
    ASSUME PubInv, NEW p \in Procs, Acts(p), NEW q \in Procs \ {p}, NEW l \in Locks, lock[l] = q
    PROVE  lock'[l] = q
<1>0. /\ lock \in [Locks -> Procs \cup {None}] /\ q # None
      /\ pc[p] = "writeCRL" => lock["crl"] = p
      /\ pc[p] = "writeCache" => lock["cache"] = p
  BY MasterAssumption DEF PubInv, TypeInv, TypeOK, View, CRLView, CacheView, HoldsCRL, HoldsCache
<1>1. CASE lock' = lock
  BY <1>1
<1>2. CASE \E name : lockFile(p, name)
  BY <1>0, <1>2 DEF lockFile
<1>3. CASE Leave(p)
  BY <1>3 DEF Leave
<1>4. CASE WriteCRL(p) \/ WriteCache(p)
  BY <1>0, <1>4 DEF WriteCRL, WriteCache, unlock, Goto
<1>5. CASE Invoke(p)
  BY <1>1, <1>5 DEF Invoke, RunRevokeCert, RunReissueCert, RunIssueCLI, RunDeregisterClient, RunBlockClient,
      RunUnblockClient, RunMaster, RunMasterOnEmptyDB, Register, Enroll, Control
<1>6. CASE CheckRevoked(p) \/ CheckCert(p) \/ CheckClient(p)
  BY <1>1, <1>3, <1>6 DEF CheckRevoked, CheckCert, CheckClient, AuthorizeStep, DenyCSR, SignCSR, refreshCRL,
      ServeFile, Refuse
<1>7. CASE Step(p) /\ ~(CheckRevoked(p) \/ CheckCert(p) \/ CheckClient(p))
  BY <1>1, <1>2, <1>3, <1>4, <1>7 DEF Step, RecordRevocation, RecordCert, RecordClient, DropClient,
      LiftBlock, ReplaceCert, LockIssuance, WriteKey, WriteCrt, LockCRL, ListRevoked, NumberCRL, LockCache,
      TakeSnapshot, RaiseSequence, NextSequence, Return
<1>8. CASE RollbackKey(p) \/ Abort(p)
  BY <1>3, <1>8 DEF RollbackKey, Abort
<1> QED
  BY <1>5, <1>6, <1>7, <1>8 DEF Acts

LEMMA StandBy ==
    ASSUME PubInv, NEW p \in Procs, Acts(p)
    PROVE  Bystanders(p)
<1>1. TypeInv /\ pc \in [Procs -> Steps]
  BY DEF PubInv, TypeInv, TypeOK
<1>2. \A q \in Procs \ {p} : pc'[q] = pc[q]
  BY <1>1, PcMoves
<1> QED
  BY <1>1, <1>2, CmdMoves, LocMoves, LockMoves DEF Bystanders

-----------------------------------------------------------------------------
(* The kinds of steps, as far as certificates are concerned *)

\* From its signing until its record is inserted a certificate is known to
\* one process only.
Unrecorded == {"lockIssuance", "writeKey", "writeCrt", "replaceCertificate", "AddCert"}

\* A certificate with a new serial is signed.
Signs(p) ==
    \E s \in Serials, b \in Subjects :
        /\ Mint(s, b)
        /\ cmd'[p].serial = s /\ cmd'[p].subject = b
        /\ pc'[p] \in {"lockIssuance", "AddCert"}
        /\ UNCHANGED <<db, issued>>

Elsewhere(p) ==
    /\ db'.certs = db.certs /\ db'.revoked = db.revoked
    /\ UNCHANGED <<issued, minted>>
    /\ pc'[p] \notin Unrecorded

LEMMA InvokeKinds ==
    ASSUME TypeInv, NEW p \in Procs, Invoke(p)
    PROVE  Signs(p) \/ Elsewhere(p) \/ RunMasterOnEmptyDB(p)
<1>0. /\ pc \in [Procs -> Steps] /\ cmd \in [Procs -> CmdTypes] /\ db \in Databases
      /\ Targets \subseteq Subjects /\ \A ip \in IPs : Identity(ip) \in Subjects
  BY DEF TypeInv, TypeOK, CmdTypes, Subjects
<1>1. ASSUME NEW s \in Serials, NEW t \in Targets, RunReissueCert(p, t, s) \/ RunIssueCLI(p, t, s)
      PROVE  Signs(p)
  <2>1. Mint(s, t) /\ db' = db /\ issued' = issued
    BY <1>1 DEF RunReissueCert, RunIssueCLI, files
  <2>2. pc'[p] = "lockIssuance"
    BY <1>0, <1>1 DEF RunReissueCert, RunIssueCLI, Start, Goto
  <2>3. cmd'[p].serial = s /\ cmd'[p].subject = t
    <3>1. PICK op : cmd' = [cmd EXCEPT ![p] = Cmd(op, None, t, s)]
      BY <1>1 DEF RunReissueCert, RunIssueCLI, Start
    <3>2. cmd'[p] = Cmd(op, None, t, s)
      BY <1>0, <3>1
    <3> QED
      BY <3>2, SMT, Z3 DEF Cmd
  <2> QED
    BY <1>0, <2>1, <2>2, <2>3 DEF Signs
<1>2. ASSUME NEW s \in Serials, NEW ip \in IPs, Enroll(p, ip, s)
      PROVE  Signs(p)
  BY <1>0, <1>2 DEF Enroll, Start, Goto, Cmd, Signs, files
<1>3. ASSUME NEW ip \in IPs, RunBlockClient(p, ip)
      PROVE  Elsewhere(p)
  <2>1. KeepsCerts(db', db)
    BY <1>0, <1>3, StoreKeeps DEF RunBlockClient, Write
  <2> QED
    BY <1>0, <1>3, <2>1 DEF RunBlockClient, Start, Goto, KeepsCerts, Elsewhere, Unrecorded, files
<1>4. CASE \E s \in Serials : RunRevokeCert(p, s)
  BY <1>0, <1>4 DEF RunRevokeCert, Start, Goto, Elsewhere, Unrecorded, files
<1>5. CASE \E ip \in IPs : RunDeregisterClient(p, ip) \/ RunUnblockClient(p, ip) \/ Register(p, ip)
  BY <1>0, <1>5 DEF RunDeregisterClient, RunUnblockClient, Register, Start, Goto, Elsewhere, Unrecorded, files
<1>6. CASE RunMaster(p)
  BY <1>0, <1>6 DEF RunMaster, Start, Goto, Elsewhere, Unrecorded, files
<1>7. CASE \E op \in Handlers, ip \in IPs, s \in Serials : Control(p, op, ip, s)
  BY <1>0, <1>7 DEF Control, Start, Goto, Elsewhere, Unrecorded, files
<1> QED
  BY <1>1, <1>2, <1>3, <1>4, <1>5, <1>6, <1>7 DEF Invoke

LEMMA StepKinds ==
    ASSUME TypeInv, NEW p \in Procs, Step(p) \/ Abort(p)
    PROVE  \/ Signs(p) \/ Elsewhere(p)
           \/ RecordRevocation(p) \/ RecordCert(p) \/ ReplaceCert(p)
           \/ LockIssuance(p) \/ WriteKey(p) \/ WriteCrt(p)
<1>0. /\ pc \in [Procs -> Steps] /\ cmd \in [Procs -> CmdTypes] /\ db \in Databases
      /\ Loopback \subseteq Subjects
  BY MasterAssumption DEF TypeInv, TypeOK, CmdTypes, Subjects
<1>1. CASE SignCSR(p)
  <2>1. PICK s \in Serials, t \in Loopback :
            /\ Mint(s, t)
            /\ cmd' = [cmd EXCEPT ![p].serial = s, ![p].subject = t]
    BY <1>1 DEF SignCSR
  <2>2. cmd'[p].serial = s /\ cmd'[p].subject = t
    BY <1>0, <2>1, SMT, Z3 DEF CmdTypes
  <2> QED
    BY <1>0, <1>1, <2>1, <2>2 DEF SignCSR, Goto, Signs, files
<1>2. CASE Refuse(p) \/ Return(p) \/ Abort(p)
  BY <1>0, <1>2 DEF Refuse, Return, Abort, Leave, Elsewhere, Unrecorded, files
<1>3. CASE CheckRevoked(p) \/ CheckCert(p) \/ CheckClient(p)
  <2>1. CASE refreshCRL(p) \/ ServeFile(p)
    BY <1>0, <2>1 DEF refreshCRL, ServeFile, Goto, Elsewhere, Unrecorded, files
  <2>2. CASE CheckRevoked(p) \/ CheckCert(p)
    BY <1>0, <1>2, <2>2 DEF CheckRevoked, CheckCert, AuthorizeStep, Goto, Elsewhere, Unrecorded, files
  <2> QED
    BY <1>1, <1>2, <1>3, <2>1, <2>2 DEF CheckClient, DenyCSR
<1>4. CASE RecordClient(p) \/ DropClient(p) \/ LiftBlock(p)
  <2>1. KeepsCerts(db', db)
    BY <1>0, <1>4, StoreKeeps DEF RecordClient, DropClient, LiftBlock, Write
  <2> QED
    BY <1>0, <1>4, <2>1 DEF RecordClient, DropClient, LiftBlock, Goto, KeepsCerts, Elsewhere, Unrecorded, files
<1>5. CASE LockCRL(p) \/ ListRevoked(p) \/ WriteCRL(p)
  BY <1>0, <1>5 DEF LockCRL, ListRevoked, WriteCRL, Goto, Elsewhere, Unrecorded, files
<1>6. CASE LockCache(p) \/ TakeSnapshot(p) \/ WriteCache(p)
  BY <1>0, <1>6 DEF LockCache, TakeSnapshot, WriteCache, Goto, Elsewhere, Unrecorded, files
<1>7. CASE NumberCRL(p) \/ RaiseSequence(p) \/ NextSequence(p)
  <2>1. KeepsCerts(db', db)
    BY <1>0, <1>7, StoreKeeps DEF NumberCRL, RaiseSequence, NextSequence
  <2> QED
    BY <1>0, <1>7, <2>1 DEF NumberCRL, RaiseSequence, NextSequence, Goto, KeepsCerts, Elsewhere, Unrecorded, files
<1> QED
  BY <1>2, <1>3, <1>4, <1>5, <1>6, <1>7 DEF Step

-----------------------------------------------------------------------------
(***************************************************************************)
(* The files and the tables.  A certificate is in one table row or one     *)
(* process, under the subject it was signed for; a process that writes an  *)
(* issued file holds its lock until the row is replaced.                   *)
(***************************************************************************)

Superseded(s) == [serial |-> s, reason |-> "superseded"]

SignedFor ==
    /\ \A c \in db.certs : minted[c.serial] = c.subject
    /\ \A f \in Files : issued[f].crt # None =>
          minted[issued[f].crt] \in Targets /\ sanitizeName[minted[issued[f].crt]] = f

\* What a process knows of a certificate it has not recorded yet.
IssueView(p) ==
    /\ pc[p] \in Unrecorded =>
          /\ minted[cmd[p].serial] = cmd[p].subject
          /\ \A c \in db.certs : c.serial # cmd[p].serial
          /\ Superseded(cmd[p].serial) \notin db.revoked
          /\ \A q \in Procs \ {p} : pc[q] \in Unrecorded => cmd[q].serial # cmd[p].serial
    /\ pc[p] \in {"writeKey", "writeCrt", "replaceCertificate"} => lock[FileOf(p)] = p
    /\ pc[p] = "replaceCertificate" => issued[FileOf(p)].crt = cmd[p].serial

IssueInv ==
    /\ SignedFor /\ OnDiskNotSuperseded /\ SubjectKeepsActiveCert
    /\ \A p \in Procs : IssueView(p)

LEMMA IssueTypes ==
    ASSUME TypeInv
    PROVE  /\ db \in Databases /\ pc \in [Procs -> Steps] /\ cmd \in [Procs -> CmdTypes]
           /\ issued \in [Files -> PairTypes] /\ lock \in [Locks -> Procs \cup {None}]
           /\ minted \in [Serials -> Subjects \cup {None}]
           /\ \A c \in db.certs : c.serial \in Serials /\ c.subject \in Subjects
           /\ \A r \in db.revoked : r.serial \in Serials /\ r = [serial |-> r.serial, reason |-> r.reason]
           /\ \A p \in Procs : /\ pc[p] \in Unrecorded => cmd[p].serial \in Serials /\ cmd[p].subject \in Subjects
                               /\ pc[p] \in Unrecorded \ {"AddCert"} => cmd[p].subject \in Targets /\ FileOf(p) \in Files
<1>1. /\ db \in Databases /\ pc \in [Procs -> Steps] /\ cmd \in [Procs -> CmdTypes]
      /\ issued \in [Files -> PairTypes] /\ lock \in [Locks -> Procs \cup {None}]
      /\ minted \in [Serials -> Subjects \cup {None}]
  BY DEF TypeInv, TypeOK, CmdTypes, PairTypes
<1>2. /\ \A c \in db.certs : c.serial \in Serials /\ c.subject \in Subjects
      /\ \A r \in db.revoked : r.serial \in Serials /\ r = [serial |-> r.serial, reason |-> r.reason]
  <2>1. db.certs \subseteq CertRecords /\ db.revoked \subseteq RevokedRecords
    BY <1>1 DEF Databases
  <2>2. \A c \in CertRecords : c.serial \in Serials /\ c.subject \in Subjects
    BY DEF CertRecords
  <2>3. \A r \in RevokedRecords : r.serial \in Serials /\ r = [serial |-> r.serial, reason |-> r.reason]
    BY SMT, Z3 DEF RevokedRecords
  <2> QED
    BY <2>1, <2>2, <2>3
<1>3. \A p \in Procs : /\ pc[p] \in Unrecorded => cmd[p].serial \in Serials
                       /\ pc[p] = "AddCert" => cmd[p].subject \in Subjects
                       /\ pc[p] \in Unrecorded \ {"AddCert"} => cmd[p].subject \in Targets
  BY DEF TypeInv, CmdOK, CmdFits, Unrecorded
<1>4. \A p \in Procs : cmd[p].subject \in Targets => FileOf(p) \in Files /\ cmd[p].subject \in Subjects
  BY MasterAssumption DEF FileOf, Subjects
<1> QED
  BY <1>1, <1>2, <1>3, <1>4 DEF Unrecorded

\* The locks that the writers of issued files hold.
LEMMA FileLocks ==
    ASSUME TypeInv, NEW q \in Procs, pc[q] \in Unrecorded \ {"AddCert"}
    PROVE  FileOf(q) \in Files /\ FileOf(q) \in Locks
  BY IssueTypes DEF Locks

\* A process keeps its view of the certificate it holds as long as nobody
\* else records, revokes or overwrites it.
LEMMA OthersIssue ==
    ASSUME TypeInv, IssueInv, NEW p \in Procs, NEW q \in Procs \ {p}, Bystanders(p), minted' = minted,
           pc'[p] \in Unrecorded => pc[p] \in Unrecorded /\ cmd'[p] = cmd[p],
           \A c \in db'.certs : c \in db.certs \/ (pc[p] \in Unrecorded /\ c.serial = cmd[p].serial),
           pc[q] \in Unrecorded => Superseded(cmd[q].serial) \notin db'.revoked,
           pc[q] = "replaceCertificate" => issued'[FileOf(q)].crt = issued[FileOf(q)].crt
    PROVE  IssueView(q)'
<1>1. pc'[q] = pc[q] /\ cmd'[q] = cmd[q] /\ FileOf(q)' = FileOf(q)
  BY DEF Bystanders, FileOf
<1>2. \A r \in Procs : pc'[r] \in Unrecorded => pc[r] \in Unrecorded /\ cmd'[r] = cmd[r]
  BY DEF Bystanders
<1>3. IssueView(q) /\ IssueView(p)
  BY DEF IssueInv
<1>4. ASSUME pc[q] \in {"writeKey", "writeCrt", "replaceCertificate"} PROVE lock'[FileOf(q)] = q
  <2>1. pc[q] \in Unrecorded \ {"AddCert"}
    BY <1>4 DEF Unrecorded
  <2>2. FileOf(q) \in Locks
    BY <2>1, FileLocks
  <2>3. lock[FileOf(q)] = q
    BY <1>3, <1>4 DEF IssueView
  <2> QED
    BY <2>2, <2>3 DEF Bystanders
<1>5. ASSUME pc[q] \in Unrecorded, NEW c \in db'.certs PROVE c.serial # cmd[q].serial
  <2>1. CASE c \in db.certs
    BY <1>3, <1>5, <2>1 DEF IssueView
  <2>2. CASE pc[p] \in Unrecorded /\ c.serial = cmd[p].serial
    <3>1. pc[q] \in Unrecorded /\ pc[p] \in Unrecorded /\ p \in Procs \ {q}
      BY <1>5, <2>2
    <3>2. cmd[p].serial # cmd[q].serial
      BY <1>3, <3>1 DEF IssueView
    <3> QED
      BY <2>2, <3>2
  <2> QED
    BY <2>1, <2>2
<1> QED
  BY <1>1, <1>2, <1>3, <1>4, <1>5 DEF IssueView

\* A step that neither signs nor writes a certificate leaves the others'
\* certificates to them.
LEMMA ElsewhereIssue ==
    ASSUME TypeInv, IssueInv, NEW p \in Procs, Bystanders(p), Elsewhere(p)
    PROVE  IssueInv'
<1>1. SignedFor' /\ OnDiskNotSuperseded'
  BY DEF IssueInv, SignedFor, OnDiskNotSuperseded, Elsewhere
<1>2. SubjectKeepsActiveCert'
  BY DEF IssueInv, SubjectKeepsActiveCert, Elsewhere
<1>3. IssueView(p)'
  BY DEF IssueView, Elsewhere, Unrecorded
<1>4. ASSUME NEW q \in Procs \ {p} PROVE IssueView(q)'
  <2>1. IssueView(q)
    BY DEF IssueInv
  <2>2. pc[q] \in Unrecorded => Superseded(cmd[q].serial) \notin db'.revoked
    BY <2>1 DEF IssueView, Elsewhere
  <2> QED
    BY <2>2, OthersIssue DEF Elsewhere
<1> QED
  BY <1>1, <1>2, <1>3, <1>4 DEF IssueInv

\* A new certificate: nobody has seen its serial.
LEMMA SignsIssue ==
    ASSUME TypeInv, TypeInv', IssueInv, NEW p \in Procs, Bystanders(p), Signs(p)
    PROVE  IssueInv'
<1>1. PICK s \in Serials, b \in Subjects :
          /\ Mint(s, b) /\ cmd'[p].serial = s /\ cmd'[p].subject = b
          /\ pc'[p] \in {"lockIssuance", "AddCert"} /\ db' = db /\ issued' = issued
  BY DEF Signs
<1>2. /\ minted[s] = None /\ ~IsRevoked(db, s) /\ \A q \in Procs : cmd[q].serial # s
      /\ minted' = [minted EXCEPT ![s] = b]
  BY <1>1 DEF Mint, Fresh
<1>3. minted'[s] = b /\ \A x \in Serials \ {s} : minted'[x] = minted[x]
  BY <1>2, IssueTypes
<1>4. None \notin Subjects /\ Targets \subseteq Subjects
  BY MasterAssumption DEF Subjects
<1>5. ASSUME NEW c \in db.certs PROVE c.serial # s
  <2>1. minted[c.serial] = c.subject
    BY DEF IssueInv, SignedFor
  <2>2. c.subject \in Subjects
    BY IssueTypes
  <2> QED
    BY <1>2, <1>4, <2>1, <2>2
<1>6. SignedFor'
  <2>1. \A c \in db.certs : minted'[c.serial] = c.subject
    BY <1>3, <1>5, IssueTypes DEF IssueInv, SignedFor
  <2>2. ASSUME NEW f \in Files, issued[f].crt # None
        PROVE  minted'[issued[f].crt] = minted[issued[f].crt]
    <3>1. issued[f].crt \in Serials
      BY <2>2, IssueTypes DEF PairTypes
    <3>2. minted[issued[f].crt] \in Targets
      BY <2>2 DEF IssueInv, SignedFor
    <3> QED
      BY <1>2, <1>3, <1>4, <3>1, <3>2
  <2> QED
    BY <1>1, <2>1, <2>2 DEF IssueInv, SignedFor
<1>7. OnDiskNotSuperseded' /\ SubjectKeepsActiveCert'
  BY <1>1 DEF IssueInv, OnDiskNotSuperseded, SubjectKeepsActiveCert
<1>8. ASSUME NEW q \in Procs PROVE IssueView(q)'
  <2>1. CASE q = p
    <3>1. Superseded(s) \notin db.revoked
      BY <1>2 DEF IsRevoked, Superseded
    <3>2. \A r \in Procs \ {p} : cmd'[r].serial # s
      BY <1>2 DEF Bystanders
    <3> QED
      BY <1>1, <1>3, <1>5, <2>1, <3>1, <3>2 DEF IssueView
  <2>2. CASE q # p
    <3>1. pc'[q] = pc[q] /\ cmd'[q] = cmd[q] /\ FileOf(q)' = FileOf(q)
      BY <2>2 DEF Bystanders, FileOf
    <3>2. pc[q] \in {"writeKey", "writeCrt", "replaceCertificate"} => lock'[FileOf(q)] = q
      <4>1. ASSUME pc[q] \in {"writeKey", "writeCrt", "replaceCertificate"} PROVE lock'[FileOf(q)] = q
        <5>1. pc[q] \in Unrecorded \ {"AddCert"}
          BY <4>1 DEF Unrecorded
        <5>2. FileOf(q) \in Locks
          BY <5>1, FileLocks
        <5>3. lock[FileOf(q)] = q
          BY <4>1 DEF IssueInv, IssueView
        <5> QED
          BY <2>2, <5>2, <5>3 DEF Bystanders
      <4> QED
        BY <4>1
    <3>3. IssueView(q)
      BY DEF IssueInv
    <3>4. pc[q] \in Unrecorded => minted'[cmd[q].serial] = minted[cmd[q].serial]
      BY <1>2, <1>3, IssueTypes
    <3>5. \A r \in Procs : pc'[r] \in Unrecorded =>
              \/ pc[r] \in Unrecorded /\ cmd'[r] = cmd[r]
              \/ cmd'[r].serial = s
      BY <1>1 DEF Bystanders
    <3>6. pc[q] \in Unrecorded =>
              \A r \in Procs \ {q} : pc'[r] \in Unrecorded => cmd'[r].serial # cmd[q].serial
      BY <1>2, <3>3, <3>5 DEF IssueView
    <3> QED
      BY <1>1, <3>1, <3>2, <3>3, <3>4, <3>6 DEF IssueView
  <2> QED
    BY <2>1, <2>2
<1> QED
  BY <1>6, <1>7, <1>8 DEF IssueInv

\* A revocation by hand supersedes nothing.
LEMMA RevocationIssue ==
    ASSUME TypeInv, IssueInv, NEW p \in Procs, Bystanders(p), RecordRevocation(p)
    PROVE  IssueInv'
<1>1. /\ db' = RevokeCert(db, cmd[p].serial, "unspecified") /\ issued' = issued /\ minted' = minted
      /\ pc[p] = "RevokeCert" /\ pc'[p] = "lockCRL"
  BY IssueTypes DEF RecordRevocation, Write, Goto, files
<1>2. cmd[p].serial \in Serials /\ db \in Databases
  BY <1>1, IssueTypes DEF TypeInv, CmdOK, CmdFits
<1>r. Revokes(db', db)
  BY <1>1, <1>2, RevokeKeeps
<1>3. /\ db'.certs = db.certs
      /\ \A r \in db'.revoked : r.reason = "superseded" => r \in db.revoked
  BY <1>r DEF Revokes
<1>4. \A s : Superseded(s).reason = "superseded"
  BY DEF Superseded
<1>5. \A s : Superseded(s) \notin db.revoked => Superseded(s) \notin db'.revoked
  BY <1>3, <1>4
<1>6. SignedFor'
  BY <1>1, <1>3 DEF IssueInv, SignedFor
<1>7. OnDiskNotSuperseded'
  BY <1>1, <1>5 DEF IssueInv, OnDiskNotSuperseded, Superseded
<1>8. SubjectKeepsActiveCert'
  BY <1>3, <1>5 DEF IssueInv, SubjectKeepsActiveCert, Superseded
<1>9. IssueView(p)'
  BY <1>1 DEF IssueView, Unrecorded
<1>10. ASSUME NEW q \in Procs \ {p} PROVE IssueView(q)'
  <2>1. IssueView(q)
    BY DEF IssueInv
  <2>2. pc[q] \in Unrecorded => Superseded(cmd[q].serial) \notin db'.revoked
    BY <1>5, <2>1 DEF IssueView
  <2> QED
    BY <1>1, <1>3, <2>2, OthersIssue DEF Unrecorded
<1> QED
  BY <1>6, <1>7, <1>8, <1>9, <1>10 DEF IssueInv

\* A certificate is recorded under the subject it was signed for.
LEMMA RecordIssue ==
    ASSUME TypeInv, IssueInv, NEW p \in Procs, Bystanders(p), RecordCert(p)
    PROVE  IssueInv'
<1> DEFINE s == cmd[p].serial
           c0 == [serial |-> s, subject |-> cmd[p].subject]
<1>1. /\ db' = AddCert(db, s, cmd[p].subject) /\ issued' = issued /\ minted' = minted
      /\ pc[p] = "AddCert" /\ pc'[p] \in {"registerClient", "lockCache"}
  BY IssueTypes DEF RecordCert, Write, Goto, files
<1>2. /\ s \in Serials /\ db \in Databases
      /\ minted[s] = cmd[p].subject /\ Superseded(s) \notin db.revoked
      /\ \A c \in db.certs : c.serial # s
  BY <1>1, IssueTypes DEF IssueInv, IssueView, Unrecorded
<1>r. Adds(db', db, s, cmd[p].subject)
  BY <1>1, <1>2, AddKeeps
<1>3. db'.certs = db.certs \cup {c0} /\ db'.revoked = db.revoked
  BY <1>r DEF Adds
<1>4. c0.serial = s /\ c0.subject = cmd[p].subject
  OBVIOUS
<1> HIDE DEF c0
<1>5. SignedFor'
  BY <1>1, <1>2, <1>3, <1>4 DEF IssueInv, SignedFor
<1>6. OnDiskNotSuperseded'
  BY <1>1, <1>3 DEF IssueInv, OnDiskNotSuperseded
<1>7. SubjectKeepsActiveCert'
  <2>1. \A c \in db.certs : \E k \in db.certs : k.subject = c.subject /\ Superseded(k.serial) \notin db.revoked
    BY DEF IssueInv, SubjectKeepsActiveCert, Superseded
  <2>2. \A c \in db'.certs : \E k \in db'.certs : k.subject = c.subject /\ Superseded(k.serial) \notin db'.revoked
    BY <1>2, <1>3, <1>4, <2>1
  <2> QED
    BY <2>2 DEF SubjectKeepsActiveCert, Superseded
<1>8. IssueView(p)'
  BY <1>1 DEF IssueView, Unrecorded
<1>9. ASSUME NEW q \in Procs \ {p} PROVE IssueView(q)'
  <2>1. pc[q] \in Unrecorded => Superseded(cmd[q].serial) \notin db'.revoked
    BY <1>3 DEF IssueInv, IssueView
  <2>2. \A c \in db'.certs : c \in db.certs \/ (pc[p] \in Unrecorded /\ c.serial = cmd[p].serial)
    BY <1>1, <1>3, <1>4 DEF Unrecorded
  <2> QED
    BY <1>1, <2>1, <2>2, OthersIssue DEF Unrecorded
<1> QED
  BY <1>5, <1>6, <1>7, <1>8, <1>9 DEF IssueInv

\* A reissue supersedes the subject's other certificates, none of which is
\* on disk: the file of the subject holds the new one.
LEMMA ReplaceIssue ==
    ASSUME TypeInv, IssueInv, NEW p \in Procs, Bystanders(p), ReplaceCert(p)
    PROVE  IssueInv'
<1> DEFINE s == cmd[p].serial
           b == cmd[p].subject
           c0 == [serial |-> s, subject |-> b]
<1>1. /\ db' = replaceCertificate(db, s, b) /\ issued' = issued /\ minted' = minted
      /\ pc[p] = "replaceCertificate" /\ pc'[p] = "lockCRL"
  BY IssueTypes DEF ReplaceCert, Write, Goto, files
<1>2. IssueView(p) /\ pc[p] \in Unrecorded
  BY <1>1 DEF IssueInv, Unrecorded
<1>3. /\ s \in Serials /\ db \in Databases
      /\ minted[s] = b /\ Superseded(s) \notin db.revoked
      /\ \A c \in db.certs : c.serial # s
      /\ issued[sanitizeName[b]].crt = s
  BY <1>1, <1>2, IssueTypes DEF IssueView, FileOf
<1>r. Replaces(db', db, s, b)
  BY <1>1, <1>3, ReplaceKeeps
<1>4. /\ db'.certs = db.certs \cup {c0} /\ db.revoked \subseteq db'.revoked
      /\ \A r \in db'.revoked : r \notin db.revoked =>
            \E c \in db.certs : c.subject = b /\ r.serial = c.serial
  BY <1>r DEF Replaces
<1>5. c0.serial = s /\ c0.subject = b /\ \A x : Superseded(x).serial = x
  BY DEF Superseded
<1> HIDE DEF c0
<1>6. ASSUME NEW x, Superseded(x) \in db'.revoked, Superseded(x) \notin db.revoked
      PROVE  \E c \in db.certs : c.subject = b /\ c.serial = x /\ minted[x] = b /\ x # s
  <2>1. PICK c \in db.certs : c.subject = b /\ Superseded(x).serial = c.serial
    BY <1>4, <1>6
  <2>2. minted[c.serial] = b
    BY <2>1 DEF IssueInv, SignedFor
  <2> QED
    BY <1>3, <1>5, <2>1, <2>2
<1>7. SignedFor'
  BY <1>1, <1>3, <1>4, <1>5 DEF IssueInv, SignedFor
<1>8. OnDiskNotSuperseded'
  <2>1. ASSUME NEW f \in Files, Superseded(issued[f].crt) \in db'.revoked
        PROVE  FALSE
    <3>1. Superseded(issued[f].crt) \notin db.revoked
      BY DEF IssueInv, OnDiskNotSuperseded, Superseded
    <3>2. PICK c \in db.certs : c.serial = issued[f].crt /\ minted[issued[f].crt] = b /\ issued[f].crt # s
      BY <1>6, <2>1, <3>1
    <3>3. issued[f].crt # None
      <4>1. c.serial \in Serials
        BY IssueTypes
      <4> QED
        BY <3>2, <4>1, MasterAssumption
    <3>4. sanitizeName[b] = f
      BY <3>2, <3>3 DEF IssueInv, SignedFor
    <3> QED
      BY <1>3, <3>2, <3>4
  <2> QED
    BY <1>1, <2>1 DEF OnDiskNotSuperseded, Superseded
<1>9. SubjectKeepsActiveCert'
  <2>1. ASSUME NEW c \in db'.certs
        PROVE  \E k \in db'.certs : k.subject = c.subject /\ Superseded(k.serial) \notin db'.revoked
    <3>1. CASE c.subject = b
      <4>1. c0 \in db'.certs /\ Superseded(c0.serial) \notin db'.revoked
        BY <1>3, <1>4, <1>5, <1>6
      <4> QED
        BY <1>5, <3>1, <4>1
    <3>2. CASE c.subject # b
      <4>1. c \in db.certs
        BY <1>4, <1>5, <3>2
      <4>2. PICK k \in db.certs : k.subject = c.subject /\ Superseded(k.serial) \notin db.revoked
        BY <4>1 DEF IssueInv, SubjectKeepsActiveCert, Superseded
      <4>3. minted[k.serial] = c.subject
        BY <4>2 DEF IssueInv, SignedFor
      <4>4. Superseded(k.serial) \notin db'.revoked
        BY <1>6, <3>2, <4>2, <4>3
      <4> QED
        BY <1>4, <4>2, <4>4
    <3> QED
      BY <3>1, <3>2
  <2> QED
    BY <2>1 DEF SubjectKeepsActiveCert, Superseded
<1>10. IssueView(p)'
  BY <1>1 DEF IssueView, Unrecorded
<1>11. ASSUME NEW q \in Procs \ {p} PROVE IssueView(q)'
  <2>1. ASSUME pc[q] \in Unrecorded, Superseded(cmd[q].serial) \in db'.revoked
        PROVE  FALSE
    <3>1. /\ Superseded(cmd[q].serial) \notin db.revoked
          /\ \A c \in db.certs : c.serial # cmd[q].serial
      BY <2>1 DEF IssueInv, IssueView
    <3> QED
      BY <1>6, <2>1, <3>1
  <2>2. \A c \in db'.certs : c \in db.certs \/ (pc[p] \in Unrecorded /\ c.serial = cmd[p].serial)
    BY <1>2, <1>4, <1>5
  <2> QED
    BY <1>1, <2>1, <2>2, OthersIssue DEF Unrecorded
<1> QED
  BY <1>7, <1>8, <1>9, <1>10, <1>11 DEF IssueInv

\* An empty database records and revokes nothing.
LEMMA ResetIssue ==
    ASSUME TypeInv, IssueInv, NEW p \in Procs, RunMasterOnEmptyDB(p)
    PROVE  IssueInv'
<1>1. /\ db' = migrate /\ issued' = issued /\ minted' = minted
      /\ \A q \in Procs : pc'[q] \in {"idle", "lockCRL"}
  BY IssueTypes DEF RunMasterOnEmptyDB, Write, Goto, files
<1>2. db'.certs = {} /\ db'.revoked = {}
  BY <1>1 DEF migrate
<1> QED
  BY <1>1, <1>2 DEF IssueInv, SignedFor, OnDiskNotSuperseded, SubjectKeepsActiveCert, IssueView, Unrecorded

\* The steps that take the lock and write the key touch no certificate.
LEMMA FileIssue ==
    ASSUME TypeInv, IssueInv, NEW p \in Procs, Bystanders(p),
           LockIssuance(p) \/ WriteKey(p) \/ RollbackKey(p)
    PROVE  IssueInv'
<1>0. db' = db /\ minted' = minted /\ FileOf(p) \in Files /\ FileOf(p) \in Locks
  BY FileLocks DEF LockIssuance, WriteKey, RollbackKey, Goto, Unrecorded
<1>1. ASSUME NEW f \in Files PROVE issued'[f].crt = issued[f].crt
  <2>1. issued \in [Files -> PairTypes] /\ issued[f] \in PairTypes
    BY IssueTypes
  <2>2. \/ issued' = issued
        \/ \E k : issued' = [issued EXCEPT ![FileOf(p)].key = k]
    BY DEF LockIssuance, WriteKey, RollbackKey, files
  <2> QED
    BY <1>0, <2>1, <2>2, SMT, Z3 DEF PairTypes
<1>2. SignedFor'
  BY <1>0, <1>1 DEF IssueInv, SignedFor
<1>3. OnDiskNotSuperseded' /\ SubjectKeepsActiveCert'
  BY <1>0, <1>1 DEF IssueInv, OnDiskNotSuperseded, SubjectKeepsActiveCert
<1>4. pc'[p] \in Unrecorded =>
          /\ pc[p] \in Unrecorded /\ cmd'[p] = cmd[p] /\ FileOf(p)' = FileOf(p)
          /\ pc'[p] \in {"writeKey", "writeCrt"} /\ lock'[FileOf(p)] = p
  <2>1. CASE LockIssuance(p)
    BY <1>0, <2>1, IssueTypes DEF LockIssuance, Goto, lockFile, FileOf, Unrecorded
  <2>2. CASE WriteKey(p)
    BY <1>0, <2>2, IssueTypes DEF WriteKey, Goto, FileOf, Unrecorded, IssueInv, IssueView
  <2>3. CASE RollbackKey(p)
    BY <2>3, IssueTypes DEF RollbackKey, Leave, Unrecorded
  <2> QED
    BY <2>1, <2>2, <2>3
<1>5. IssueView(p)'
  <2>1. IssueView(p)
    BY DEF IssueInv
  <2>2. CASE pc'[p] \notin Unrecorded
    BY <2>2 DEF IssueView, Unrecorded
  <2>3. CASE pc'[p] \in Unrecorded
    <3>1. \A q \in Procs \ {p} : pc'[q] = pc[q] /\ cmd'[q] = cmd[q]
      BY DEF Bystanders
    <3> QED
      BY <1>0, <1>4, <2>1, <2>3, <3>1 DEF IssueView
  <2> QED
    BY <2>2, <2>3
<1>6. ASSUME NEW q \in Procs \ {p} PROVE IssueView(q)'
  <2>1. pc[q] \in Unrecorded => Superseded(cmd[q].serial) \notin db'.revoked
    BY <1>0 DEF IssueInv, IssueView
  <2>2. pc[q] = "replaceCertificate" => issued'[FileOf(q)].crt = issued[FileOf(q)].crt
    BY <1>1, FileLocks DEF Unrecorded
  <2> QED
    BY <1>0, <1>4, <2>1, <2>2, OthersIssue
<1> QED
  BY <1>2, <1>3, <1>5, <1>6 DEF IssueInv

\* The certificate that goes to disk was signed for the file's name and has
\* not been superseded; another process that finished a file had the lock of
\* another file.
LEMMA CrtIssue ==
    ASSUME TypeInv, IssueInv, NEW p \in Procs, Bystanders(p), WriteCrt(p)
    PROVE  IssueInv'
<1>1. /\ pc[p] = "writeCrt" /\ pc'[p] \in {"replaceCertificate", "AddCert"}
      /\ db' = db /\ minted' = minted /\ lock' = lock /\ cmd' = cmd
      /\ issued' = [issued EXCEPT ![FileOf(p)].crt = cmd[p].serial]
  BY IssueTypes DEF WriteCrt, Goto
<1>2. /\ pc[p] \in Unrecorded /\ pc'[p] \in Unrecorded /\ IssueView(p)
      /\ FileOf(p)' = FileOf(p) /\ FileOf(p) \in Files
  BY <1>1, FileLocks DEF IssueInv, Unrecorded, FileOf
<1>3. /\ minted[cmd[p].serial] = cmd[p].subject /\ cmd[p].subject \in Targets
      /\ Superseded(cmd[p].serial) \notin db.revoked /\ lock[FileOf(p)] = p
  BY <1>1, <1>2, IssueTypes DEF IssueView
<1>4. /\ issued'[FileOf(p)].crt = cmd[p].serial
      /\ \A f \in Files \ {FileOf(p)} : issued'[f].crt = issued[f].crt
  <2>1. issued \in [Files -> PairTypes]
    BY IssueTypes
  <2> QED
    BY <1>1, <1>2, <2>1, SMT, Z3 DEF PairTypes
<1>5. SignedFor'
  <2>1. \A c \in db'.certs : minted'[c.serial] = c.subject
    BY <1>1 DEF IssueInv, SignedFor
  <2>2. ASSUME NEW f \in Files, issued'[f].crt # None
        PROVE  minted[issued'[f].crt] \in Targets /\ sanitizeName[minted[issued'[f].crt]] = f
    <3>1. CASE f = FileOf(p)
      BY <1>3, <1>4, <3>1 DEF FileOf
    <3>2. CASE f # FileOf(p)
      BY <1>4, <2>2, <3>2 DEF IssueInv, SignedFor
    <3> QED
      BY <3>1, <3>2
  <2> QED
    BY <1>1, <2>1, <2>2 DEF SignedFor
<1>6. OnDiskNotSuperseded' /\ SubjectKeepsActiveCert'
  BY <1>1, <1>3, <1>4 DEF IssueInv, OnDiskNotSuperseded, SubjectKeepsActiveCert, Superseded
<1>7. IssueView(p)'
  <2>1. \A q \in Procs \ {p} : pc'[q] = pc[q] /\ cmd'[q] = cmd[q]
    BY DEF Bystanders
  <2> QED
    BY <1>1, <1>2, <1>3, <1>4, <2>1 DEF IssueView
<1>8. ASSUME NEW q \in Procs \ {p} PROVE IssueView(q)'
  <2>1. IssueView(q)
    BY DEF IssueInv
  <2>2. pc[q] \in Unrecorded => Superseded(cmd[q].serial) \notin db'.revoked
    BY <1>1, <2>1 DEF IssueView
  <2>3. pc[q] = "replaceCertificate" => issued'[FileOf(q)].crt = issued[FileOf(q)].crt
    BY <1>3, <1>4, <2>1, FileLocks DEF IssueView, Unrecorded
  <2> QED
    BY <1>1, <1>2, <2>2, <2>3, OthersIssue
<1> QED
  BY <1>5, <1>6, <1>7, <1>8 DEF IssueInv

LEMMA InitIssue ==
    ASSUME Init
    PROVE  IssueInv
<1>1. db.certs = {} /\ db.revoked = {}
  BY DEF Init, BootstrappedDB, migrate
<1>3. \A f \in Files : issued[f].crt = None
  BY DEF Init
<1>2. \A p \in Procs : pc[p] = "idle"
  BY DEF Init
<1> QED
  BY <1>1, <1>2, <1>3 DEF IssueInv, SignedFor, OnDiskNotSuperseded, SubjectKeepsActiveCert, IssueView, Unrecorded

LEMMA NextIssue ==
    ASSUME PubInv, TypeInv', IssueInv, [Next]_vars
    PROVE  IssueInv'
<1>0. TypeInv
  BY DEF PubInv
<1>1. ASSUME NEW p \in Procs, Acts(p) PROVE IssueInv'
  <2>1. Bystanders(p)
    BY <1>1, StandBy
  <2>2. \/ Signs(p) \/ Elsewhere(p) \/ RunMasterOnEmptyDB(p)
        \/ RecordRevocation(p) \/ RecordCert(p) \/ ReplaceCert(p)
        \/ LockIssuance(p) \/ WriteKey(p) \/ RollbackKey(p) \/ WriteCrt(p)
    BY <1>0, <1>1, InvokeKinds, StepKinds DEF Acts
  <2> QED
    BY <1>0, <2>1, <2>2, SignsIssue, ElsewhereIssue, ResetIssue, RevocationIssue, RecordIssue,
       ReplaceIssue, FileIssue, CrtIssue
<1>2. CASE UNCHANGED vars
  <2>1. db' = db /\ issued' = issued /\ lock' = lock /\ pc' = pc /\ cmd' = cmd /\ minted' = minted
    BY <1>2 DEF vars, files
  <2>2. SignedFor' /\ OnDiskNotSuperseded' /\ SubjectKeepsActiveCert'
    BY <2>1 DEF IssueInv, SignedFor, OnDiskNotSuperseded, SubjectKeepsActiveCert
  <2>3. ASSUME NEW p \in Procs PROVE IssueView(p)'
    <3>1. IssueView(p) /\ FileOf(p)' = FileOf(p)
      BY <2>1 DEF IssueInv, FileOf
    <3> QED
      BY <2>1, <3>1 DEF IssueView
  <2> QED
    BY <2>2, <2>3 DEF IssueInv
<1> QED
  BY <1>1, <1>2 DEF Next, Acts, Quiescent

LEMMA IssueInvariant == Spec => []IssueInv
<1>1. Init => IssueInv
  BY InitIssue
<1>2. PubInv /\ PubInv' /\ IssueInv /\ [Next]_vars => IssueInv'
  BY NextIssue DEF PubInv
<1> QED
  BY <1>1, <1>2, PubInvariant, PTL DEF Spec

\* The certificate on disk under issued/ is never one that a reissue has
\* superseded, whatever runs beside the reissue and wherever it fails: about
\* writeIssuedFiles coming before replaceCertificate, under one lock.
THEOREM DiskIsNotSuperseded == Spec => []OnDiskNotSuperseded
<1>1. IssueInv => OnDiskNotSuperseded
  BY DEF IssueInv
<1> QED
  BY <1>1, IssueInvariant, PTL

\* A subject with a certificate always has one that no reissue has
\* superseded: about replaceCertificate being one transaction.
THEOREM SubjectStaysCertified == Spec => []SubjectKeepsActiveCert
<1>1. IssueInv => SubjectKeepsActiveCert
  BY DEF IssueInv
<1> QED
  BY <1>1, IssueInvariant, PTL

-----------------------------------------------------------------------------
(***************************************************************************)
(* The pair on disk.  Only the holder of a file's lock may be between its  *)
(* two writes, and it remembers the key that goes with the certificate.    *)
(***************************************************************************)

Writing(f) == \E p \in Procs : pc[p] = "writeCrt" /\ FileOf(p) = f

PairView(p) ==
    pc[p] = "writeCrt" =>
        /\ loc[p].previousKey = issued[FileOf(p)].crt
        /\ issued[FileOf(p)].key = cmd[p].serial

PairsMatch ==
    /\ \A p \in Procs : PairView(p)
    /\ \A f \in Files : ~Writing(f) => issued[f].key = issued[f].crt

PairInv == used.torn = 0 => PairsMatch

\* A step that neither enters nor leaves the writing of a pair.
Aside(p) ==
    /\ pc[p] # "writeCrt" /\ pc'[p] # "writeCrt"
    /\ issued' = issued /\ used'.torn = used.torn

LEMMA PairKinds ==
    ASSUME TypeInv, NEW p \in Procs, Acts(p)
    PROVE  \/ Aside(p) \/ WriteKey(p)
           \/ WriteCrt(p) /\ used' = used
           \/ RollbackKey(p) /\ used'.torn = used.torn
           \/ Abort(p) /\ used'.torn # 0
<1>0. /\ pc \in [Procs -> Steps] /\ used.torn \in Nat
      /\ used \in [commands : Nat, faults : Nat, resets : Nat, torn : Nat]
  BY DEF TypeInv, TypeOK
<1>u. \A u : /\ used' = [used EXCEPT !.commands = u] => used'.torn = used.torn
             /\ used' = [used EXCEPT !.faults = u] => used'.torn = used.torn
             /\ \A v : used' = [used EXCEPT !.resets = u, !.commands = v] => used'.torn = used.torn
  BY <1>0
<1>1. CASE Invoke(p)
  <2>3. pc[p] = "idle" /\ pc'[p] # "writeCrt"
    BY <1>1, InvokeStarts
  <2>1. issued' = issued
    BY <1>1 DEF Invoke, RunRevokeCert, RunReissueCert, RunIssueCLI, RunDeregisterClient, RunBlockClient,
       RunUnblockClient, RunMaster, RunMasterOnEmptyDB, Register, Enroll, Control, files
  <2>2. used'.torn = used.torn
    BY <1>u, <1>1 DEF Invoke, RunRevokeCert, RunReissueCert, RunIssueCLI, RunDeregisterClient, RunBlockClient,
       RunUnblockClient, RunMaster, RunMasterOnEmptyDB, Register, Enroll, Control, Start
  <2> QED
    BY <2>1, <2>2, <2>3 DEF Aside
<1>2. CASE CheckRevoked(p) \/ CheckCert(p) \/ CheckClient(p)
  BY <1>0, <1>2 DEF CheckRevoked, CheckCert, CheckClient, AuthorizeStep, DenyCSR, SignCSR, refreshCRL,
      ServeFile, Refuse, Leave, Goto, files, Aside
<1>3. CASE Step(p) /\ ~(CheckRevoked(p) \/ CheckCert(p) \/ CheckClient(p) \/ WriteKey(p) \/ WriteCrt(p))
  <2>1. pc[p] # "writeCrt" /\ pc'[p] # "writeCrt"
    BY <1>0, <1>3 DEF Step, RecordRevocation, RecordCert, RecordClient, DropClient, LiftBlock, ReplaceCert,
      LockIssuance, LockCRL, ListRevoked, NumberCRL, WriteCRL, LockCache,
      TakeSnapshot, RaiseSequence, NextSequence, WriteCache, Return, Leave, Goto
  <2>2. issued' = issued /\ used' = used
    BY <1>3 DEF Step, RecordRevocation, RecordCert, RecordClient, DropClient, LiftBlock, ReplaceCert,
      LockIssuance, LockCRL, ListRevoked, NumberCRL, WriteCRL, LockCache,
      TakeSnapshot, RaiseSequence, NextSequence, WriteCache, Return, files
  <2> QED
    BY <2>1, <2>2 DEF Aside
<1>4. CASE RollbackKey(p)
  BY <1>u, <1>4 DEF RollbackKey
<1>5. CASE Abort(p)
  <2>1. pc'[p] = "idle" /\ issued' = issued
    BY <1>0, <1>5 DEF Abort, Leave, files
  <2>2. used'.torn = IF pc[p] = "writeCrt" THEN used.torn + 1 ELSE used.torn
    BY <1>0, <1>5, SMT, Z3 DEF Abort
  <2>3. used.torn + 1 # 0
    BY <1>0, SMT, Z3
  <2> QED
    BY <1>5, <2>1, <2>2, <2>3 DEF Aside
<1>6. CASE WriteCrt(p)
  BY <1>6 DEF WriteCrt
<1> QED
  BY <1>1, <1>2, <1>3, <1>4, <1>5, <1>6 DEF Acts, Step

\* Two processes between their writes are at two files.
LEMMA OneWriter ==
    ASSUME IssueInv, NEW p \in Procs, NEW q \in Procs \ {p},
           pc[p] \in {"writeKey", "writeCrt"}, pc[q] = "writeCrt"
    PROVE  FileOf(q) # FileOf(p)
<1>1. lock[FileOf(p)] = p /\ lock[FileOf(q)] = q
  BY DEF IssueInv, IssueView
<1> QED
  BY <1>1

LEMMA AsidePair ==
    ASSUME TypeInv, PairInv, NEW p \in Procs, Bystanders(p), Aside(p)
    PROVE  PairInv'
<1> SUFFICES ASSUME used'.torn = 0 PROVE PairsMatch'
  BY DEF PairInv
<1>0. PairsMatch
  BY DEF PairInv, Aside
<1>1. \A q \in Procs : /\ (pc'[q] = "writeCrt") <=> (pc[q] = "writeCrt")
                       /\ pc[q] = "writeCrt" => cmd'[q] = cmd[q] /\ loc'[q] = loc[q] /\ FileOf(q)' = FileOf(q)
  BY DEF Aside, Bystanders, FileOf
<1>2. \A q \in Procs : PairView(q)'
  BY <1>0, <1>1 DEF PairsMatch, PairView, Aside
<1>3. \A f \in Files : Writing(f) <=> Writing(f)'
  BY <1>1 DEF Writing
<1> QED
  BY <1>0, <1>2, <1>3 DEF PairsMatch, Aside

\* What the steps on p's own file leave the others.
LEMMA OtherPairs ==
    ASSUME IssueInv, PairsMatch, NEW p \in Procs, NEW q \in Procs \ {p}, Bystanders(p),
           pc[p] \in {"writeKey", "writeCrt"},
           pc[q] = "writeCrt" => FileOf(q) \in Files,
           \A f \in Files \ {FileOf(p)} : issued'[f] = issued[f]
    PROVE  PairView(q)'
<1>1. pc'[q] = pc[q] /\ cmd'[q] = cmd[q] /\ loc'[q] = loc[q] /\ FileOf(q)' = FileOf(q)
  BY DEF Bystanders, FileOf
<1>2. pc[q] = "writeCrt" => issued'[FileOf(q)] = issued[FileOf(q)]
  BY OneWriter
<1>3. PairView(q)
  BY DEF PairsMatch
<1> QED
  BY <1>1, <1>2, <1>3 DEF PairView

\* Before the key is replaced it is the key of the certificate.
LEMMA KeyPair ==
    ASSUME TypeInv, IssueInv, PairInv, NEW p \in Procs, Bystanders(p), WriteKey(p)
    PROVE  PairInv'
<1> DEFINE f == FileOf(p)
<1>1. /\ pc[p] = "writeKey" /\ pc'[p] = "writeCrt" /\ cmd' = cmd /\ used' = used
      /\ loc' = [loc EXCEPT ![p].previousKey = issued[f].key]
      /\ issued' = [issued EXCEPT ![f].key = cmd[p].serial]
      /\ FileOf(p)' = f
  BY IssueTypes DEF WriteKey, Goto, FileOf
<1> SUFFICES ASSUME used'.torn = 0 PROVE PairsMatch'
  BY DEF PairInv
<1>0. PairsMatch
  BY <1>1 DEF PairInv
<1>2. f \in Files /\ \A q \in Procs : pc[q] = "writeCrt" => FileOf(q) \in Files
  BY <1>1, FileLocks DEF Unrecorded
<1>3. ~Writing(f)
  BY <1>1, OneWriter DEF Writing
<1>4. issued[f].key = issued[f].crt
  BY <1>0, <1>2, <1>3 DEF PairsMatch
<1>5. /\ issued'[f].key = cmd[p].serial /\ issued'[f].crt = issued[f].crt
      /\ \A g \in Files \ {f} : issued'[g] = issued[g]
  <2>1. issued \in [Files -> PairTypes]
    BY IssueTypes
  <2> QED
    BY <1>1, <1>2, <2>1, SMT, Z3 DEF PairTypes
<1>6. loc'[p].previousKey = issued[f].key
  <2>1. loc \in [Procs -> LocTypes]
    BY DEF TypeInv, TypeOK, LocTypes
  <2> QED
    BY <1>1, <2>1, SMT, Z3 DEF LocTypes
<1>7. PairView(p)'
  BY <1>1, <1>4, <1>5, <1>6 DEF PairView
<1>8. ASSUME NEW q \in Procs \ {p} PROVE PairView(q)'
  BY <1>0, <1>1, <1>2, <1>5, OtherPairs
<1>9. ASSUME NEW g \in Files, ~Writing(g)' PROVE issued'[g].key = issued'[g].crt
  <2>1. g # f
    BY <1>1, <1>9 DEF Writing
  <2>2. \A q \in Procs \ {p} : pc'[q] = pc[q] /\ FileOf(q)' = FileOf(q)
    BY DEF Bystanders, FileOf
  <2>3. ~Writing(g)
    BY <1>1, <1>9, <2>2 DEF Writing
  <2> QED
    BY <1>0, <1>5, <2>1, <2>3 DEF PairsMatch
<1> QED
  BY <1>7, <1>8, <1>9 DEF PairsMatch

\* The certificate goes to disk, or the previous key goes back.
LEMMA CrtPair ==
    ASSUME TypeInv, IssueInv, PairInv, NEW p \in Procs, Bystanders(p),
           WriteCrt(p) \/ RollbackKey(p), used'.torn = used.torn
    PROVE  PairInv'
<1> DEFINE f == FileOf(p)
<1>1. pc[p] = "writeCrt" /\ pc'[p] # "writeCrt"
  BY IssueTypes DEF WriteCrt, RollbackKey, Goto, Leave
<1> SUFFICES ASSUME used'.torn = 0 PROVE PairsMatch'
  BY DEF PairInv
<1>0. PairsMatch
  BY DEF PairInv
<1>2. f \in Files /\ \A q \in Procs : pc[q] = "writeCrt" => FileOf(q) \in Files
  BY <1>1, FileLocks DEF Unrecorded
<1>3. loc[p].previousKey = issued[f].crt /\ issued[f].key = cmd[p].serial
  BY <1>0, <1>1 DEF PairsMatch, PairView
<1>5. issued'[f].key = issued'[f].crt /\ \A g \in Files \ {f} : issued'[g] = issued[g]
  <2>1. issued \in [Files -> PairTypes]
    BY IssueTypes
  <2>2. \/ issued' = [issued EXCEPT ![f].key = issued[f].crt]
        \/ issued' = [issued EXCEPT ![f].crt = issued[f].key]
    BY <1>3 DEF WriteCrt, RollbackKey
  <2> QED
    BY <1>2, <2>1, <2>2, SMT, Z3 DEF PairTypes
<1>7. PairView(p)'
  BY <1>1 DEF PairView
<1>8. ASSUME NEW q \in Procs \ {p} PROVE PairView(q)'
  BY <1>0, <1>1, <1>2, <1>5, OtherPairs
<1>9. ASSUME NEW g \in Files, ~Writing(g)' PROVE issued'[g].key = issued'[g].crt
  <2>1. CASE g = f
    BY <1>5, <2>1
  <2>2. CASE g # f
    <3>1. \A q \in Procs \ {p} : pc'[q] = pc[q] /\ FileOf(q)' = FileOf(q)
      BY DEF Bystanders, FileOf
    <3>2. ~Writing(g)
      BY <1>9, <2>2, <3>1 DEF Writing
    <3> QED
      BY <1>0, <1>5, <2>2, <3>2 DEF PairsMatch
  <2> QED
    BY <2>1, <2>2
<1> QED
  BY <1>7, <1>8, <1>9 DEF PairsMatch

LEMMA NextPair ==
    ASSUME PubInv, IssueInv, PairInv, [Next]_vars
    PROVE  PairInv'
<1>0. TypeInv
  BY DEF PubInv
<1>1. ASSUME NEW p \in Procs, Acts(p) PROVE PairInv'
  <2>1. Bystanders(p)
    BY <1>1, StandBy
  <2>2. CASE used'.torn # 0
    BY <2>2 DEF PairInv
  <2> QED
    BY <1>0, <1>1, <2>1, <2>2, PairKinds, AsidePair, KeyPair, CrtPair
<1>2. CASE UNCHANGED vars
  BY <1>2 DEF vars, files, PairInv, PairsMatch, PairView, Writing, FileOf
<1> QED
  BY <1>1, <1>2 DEF Next, Acts, Quiescent

LEMMA PairInvariant == Spec => []PairInv
<1>1. ASSUME Init PROVE PairInv
  <2>1. /\ \A p \in Procs : pc[p] = "idle"
        /\ \A f \in Files : issued[f].key = issued[f].crt
    BY <1>1 DEF Init
  <2> QED
    BY <2>1 DEF PairInv, PairsMatch, PairView
<1>2. PubInv /\ IssueInv /\ PairInv /\ [Next]_vars => PairInv'
  BY NextPair
<1> QED
  BY <1>1, <1>2, PubInvariant, IssueInvariant, PTL DEF Spec

\* Between commands the key and the certificate on disk belong together
\* unless a process died between the two renames: about writeIssuedFiles
\* putting the previous key back under the issuance lock.
THEOREM DiskPairsMatch == Spec => []OnDiskPairMatches
<1>1. PubInv /\ IssueInv /\ PairInv => OnDiskPairMatches
  <2> SUFFICES ASSUME PubInv, IssueInv, PairInv, used.torn = 0, NEW f \in Files, lock[f] = None
               PROVE  issued[f].key = issued[f].crt
    BY DEF OnDiskPairMatches
  <2>1. ASSUME NEW p \in Procs, pc[p] = "writeCrt", FileOf(p) = f PROVE FALSE
    <3>1. lock[f] = p
      BY <2>1 DEF IssueInv, IssueView
    <3> QED
      BY <3>1, MasterAssumption
  <2>2. ~Writing(f)
    BY <2>1 DEF Writing
  <2> QED
    BY <2>2 DEF PairInv, PairsMatch
<1> QED
  BY <1>1, PubInvariant, IssueInvariant, PairInvariant, PTL

-----------------------------------------------------------------------------
(***************************************************************************)
(* The numbers and the contents of the CRLs.  The CRL a process is about   *)
(* to write has a number above the file's and lists what the file lists,   *)
(* because both were taken under the lock of the CRL.                      *)
(***************************************************************************)

Listed == {"nextCRLNumber", "writeCRL"}

\* While the clock never goes back, it bounds every number.
ClockInv ==
    ~ClockSteps =>
        /\ db.crlNumber <= clock /\ crlFile.number <= clock
        /\ \A p \in Procs : pc[p] = "writeCRL" =>
              crlFile.number < loc[p].crl.number /\ loc[p].crl.number <= clock

\* While the database is not lost, its counter does, and its table of
\* revocations is the largest.
ListView(p) ==
    /\ pc[p] = "writeCRL" =>
          crlFile.number < loc[p].crl.number /\ loc[p].crl.number <= db.crlNumber
    /\ pc[p] \in Listed =>
          crlFile.revoked \subseteq loc[p].crl.revoked /\ loc[p].crl.revoked \subseteq db.revoked

Counted ==
    /\ crlFile.number <= db.crlNumber
    /\ crlFile.revoked \subseteq db.revoked
    /\ \A p \in Procs : ListView(p)

CounterInv == used.resets = 0 => Counted

\* A step that neither lists nor numbers nor writes a CRL.
Steady(p) ==
    /\ crlFile' = crlFile /\ clock' = clock
    /\ db'.crlNumber = db.crlNumber /\ db.revoked \subseteq db'.revoked
    /\ pc'[p] \notin Listed
    /\ used'.resets = used.resets

\* Only the loss of the database takes a row out of the two tables.
LEMMA TablesGrow ==
    ASSUME TypeInv, IssueInv, NEW p \in Procs, Acts(p), ~RunMasterOnEmptyDB(p)
    PROVE  db.certs \subseteq db'.certs /\ db.revoked \subseteq db'.revoked
<1>0. pc[p] \in Unrecorded => cmd[p].serial \in Serials /\ \A c \in db.certs : c.serial # cmd[p].serial
  BY IssueTypes DEF IssueInv, IssueView
<1>d. db \in Databases
  BY IssueTypes
<1>1. CASE RecordRevocation(p)
  <2>1. db' = RevokeCert(db, cmd[p].serial, "unspecified") /\ pc[p] = "RevokeCert"
    BY <1>1 DEF RecordRevocation, Write, Goto
  <2>3. cmd[p].serial \in Serials
    BY <2>1 DEF TypeInv, CmdOK, CmdFits
  <2>2. Revokes(db', db)
    BY <1>d, <2>1, <2>3, RevokeKeeps
  <2> QED
    BY <2>2 DEF Revokes
<1>2. CASE RecordCert(p)
  <2>1. db' = AddCert(db, cmd[p].serial, cmd[p].subject) /\ pc[p] \in Unrecorded
    BY <1>2 DEF RecordCert, Write, Goto, Unrecorded
  <2>2. Adds(db', db, cmd[p].serial, cmd[p].subject)
    BY <1>0, <1>d, <2>1, AddKeeps
  <2> QED
    BY <2>2 DEF Adds
<1>3. CASE ReplaceCert(p)
  <2>1. db' = replaceCertificate(db, cmd[p].serial, cmd[p].subject) /\ pc[p] \in Unrecorded
    BY <1>3 DEF ReplaceCert, Write, Goto, Unrecorded
  <2>2. Replaces(db', db, cmd[p].serial, cmd[p].subject)
    BY <1>0, <1>d, <2>1, ReplaceKeeps
  <2> QED
    BY <2>2 DEF Replaces
<1>4. CASE Signs(p) \/ Elsewhere(p)
  BY <1>4 DEF Signs, Elsewhere
<1>5. CASE LockIssuance(p) \/ WriteKey(p) \/ RollbackKey(p) \/ WriteCrt(p)
  BY <1>5 DEF LockIssuance, WriteKey, RollbackKey, WriteCrt
<1> QED
  BY <1>1, <1>2, <1>3, <1>4, <1>5, InvokeKinds, StepKinds DEF Acts

\* Only nextCRLNumber and the loss of the database move the counter.
LEMMA CounterStays ==
    ASSUME TypeInv, IssueInv, NEW p \in Procs, Acts(p), ~RunMasterOnEmptyDB(p), ~NumberCRL(p)
    PROVE  db'.crlNumber = db.crlNumber
<1>d. db \in Databases
  BY IssueTypes
<1>0. /\ pc[p] \in Unrecorded => cmd[p].serial \in Serials /\ \A c \in db.certs : c.serial # cmd[p].serial
      /\ pc[p] = "RevokeCert" => cmd[p].serial \in Serials
  BY IssueTypes DEF IssueInv, IssueView, TypeInv, CmdOK, CmdFits
<1>1. CASE db' = db
  BY <1>1
<1>2. CASE \/ \E ip : db' \in {registerClient(db, ip), RemoveClient(db, ip), BlockIP(db, ip), UnblockIP(db, ip)}
           \/ \E n : db' = raiseCacheSequence(db, n)
           \/ db' = nextCacheSequence(db)
  BY <1>d, <1>2 DEF registerClient, RemoveClient, BlockIP, UnblockIP, raiseCacheSequence, nextCacheSequence, Databases
<1>3. CASE RecordRevocation(p)
  <2>1. Revokes(db', db)
    BY <1>d, <1>0, <1>3, RevokeKeeps DEF RecordRevocation, Write, Goto
  <2> QED
    BY <2>1 DEF Revokes
<1>4. CASE RecordCert(p)
  <2>1. Adds(db', db, cmd[p].serial, cmd[p].subject)
    BY <1>d, <1>0, <1>4, AddKeeps DEF RecordCert, Write, Goto, Unrecorded
  <2> QED
    BY <2>1 DEF Adds
<1>5. CASE ReplaceCert(p)
  <2>1. Replaces(db', db, cmd[p].serial, cmd[p].subject)
    BY <1>d, <1>0, <1>5, ReplaceKeeps DEF ReplaceCert, Write, Goto, Unrecorded
  <2> QED
    BY <2>1 DEF Replaces
<1>6. CASE Invoke(p)
  BY <1>1, <1>2, <1>6 DEF Invoke, RunRevokeCert, RunReissueCert, RunIssueCLI, RunDeregisterClient, RunBlockClient,
      RunUnblockClient, RunMaster, Register, Enroll, Control, Write
<1>7. CASE CheckRevoked(p) \/ CheckCert(p) \/ CheckClient(p)
  BY <1>1, <1>7 DEF CheckRevoked, CheckCert, CheckClient, AuthorizeStep, DenyCSR, SignCSR, refreshCRL,
      ServeFile, Refuse
<1>8. CASE RecordClient(p) \/ DropClient(p) \/ LiftBlock(p) \/ RaiseSequence(p) \/ NextSequence(p)
  BY <1>2, <1>8 DEF RecordClient, DropClient, LiftBlock, RaiseSequence, NextSequence, Write
<1>9. CASE \/ LockIssuance(p) \/ WriteKey(p) \/ WriteCrt(p) \/ LockCRL(p) \/ ListRevoked(p) \/ WriteCRL(p)
           \/ LockCache(p) \/ TakeSnapshot(p) \/ WriteCache(p) \/ Return(p) \/ RollbackKey(p) \/ Abort(p)
  BY <1>1, <1>9 DEF LockIssuance, WriteKey, WriteCrt, LockCRL, ListRevoked, WriteCRL, LockCache,
      TakeSnapshot, WriteCache, Return, RollbackKey, Abort
<1> QED
  BY <1>3, <1>4, <1>5, <1>6, <1>7, <1>8, <1>9 DEF Acts, Step

LEMMA NumberKinds ==
    ASSUME TypeInv, IssueInv, NEW p \in Procs, Acts(p)
    PROVE  Steady(p) \/ ListRevoked(p) \/ NumberCRL(p) \/ WriteCRL(p) \/ RunMasterOnEmptyDB(p)
<1> SUFFICES ASSUME ~ListRevoked(p), ~NumberCRL(p), ~WriteCRL(p), ~RunMasterOnEmptyDB(p)
             PROVE  Steady(p)
  OBVIOUS
<1>0. /\ pc \in [Procs -> Steps]
      /\ used \in [commands : Nat, faults : Nat, resets : Nat, torn : Nat]
  BY DEF TypeInv, TypeOK
<1>u. \A u : /\ used' = [used EXCEPT !.commands = u] => used'.resets = used.resets
             /\ used' = [used EXCEPT !.faults = u] => used'.resets = used.resets
             /\ \A v : used' = [used EXCEPT !.faults = u, !.torn = v] => used'.resets = used.resets
  BY <1>0
<1>1. db'.crlNumber = db.crlNumber /\ db.revoked \subseteq db'.revoked
  BY TablesGrow, CounterStays
<1>2. CASE Invoke(p)
  <2>1. crlFile' = crlFile /\ clock' = clock
    BY <1>2 DEF Invoke, RunRevokeCert, RunReissueCert, RunIssueCLI, RunDeregisterClient, RunBlockClient,
       RunUnblockClient, RunMaster, Register, Enroll, Control, files
  <2>2. pc'[p] \notin Listed
    BY <1>2, InvokeStarts DEF Listed
  <2>3. used'.resets = used.resets
    BY <1>u, <1>2 DEF Invoke, RunRevokeCert, RunReissueCert, RunIssueCLI, RunDeregisterClient, RunBlockClient,
       RunUnblockClient, RunMaster, Register, Enroll, Control, Start
  <2> QED
    BY <1>1, <2>1, <2>2, <2>3 DEF Steady
<1>3. CASE CheckRevoked(p) \/ CheckCert(p) \/ CheckClient(p)
  BY <1>0, <1>1, <1>3 DEF CheckRevoked, CheckCert, CheckClient, AuthorizeStep, DenyCSR, SignCSR, refreshCRL,
      ServeFile, Refuse, Leave, Goto, files, Listed, Steady
<1>4. CASE Step(p) /\ ~(CheckRevoked(p) \/ CheckCert(p) \/ CheckClient(p))
  <2>1. crlFile' = crlFile /\ clock' = clock /\ used' = used
    BY <1>4 DEF Step, RecordRevocation, RecordCert, RecordClient, DropClient, LiftBlock, ReplaceCert,
      LockIssuance, WriteKey, WriteCrt, LockCRL, LockCache, TakeSnapshot, RaiseSequence, NextSequence,
      WriteCache, Return, files
  <2>2. pc'[p] \notin Listed
    BY <1>0, <1>4 DEF Step, RecordRevocation, RecordCert, RecordClient, DropClient, LiftBlock, ReplaceCert,
      LockIssuance, WriteKey, WriteCrt, LockCRL, LockCache, TakeSnapshot, RaiseSequence, NextSequence,
      WriteCache, Return, Leave, Goto, Listed
  <2> QED
    BY <1>1, <2>1, <2>2 DEF Steady
<1>5. CASE RollbackKey(p) \/ Abort(p)
  BY <1>0, <1>1, <1>u, <1>5 DEF RollbackKey, Abort, Leave, files, Listed, Steady
<1> QED
  BY <1>2, <1>3, <1>4, <1>5 DEF Acts

LEMMA NumberTyped ==
    ASSUME TypeInv
    PROVE  /\ db.crlNumber \in Nat /\ crlFile.number \in Nat /\ clock \in Nat /\ used.resets \in Nat
           /\ pc \in [Procs -> Steps] /\ loc \in [Procs -> LocTypes]
           /\ \A p \in Procs : loc[p].crl.number \in Nat
  BY DEF TypeInv, TypeOK, Databases, CRLs, LocTypes

LEMMA ResetCounts ==
    ASSUME TypeInv, NEW p \in Procs, RunMasterOnEmptyDB(p)
    PROVE  used'.resets # 0
<1>1. used \in [commands : Nat, faults : Nat, resets : Nat, torn : Nat] /\ used.resets \in Nat
  BY DEF TypeInv, TypeOK
<1>2. used'.resets = used.resets + 1
  BY <1>1 DEF RunMasterOnEmptyDB
<1>3. \A n \in Nat : n + 1 # 0
  BY SMT, Z3
<1> QED
  BY <1>1, <1>2, <1>3

\* The one process with a CRL in hand.
LEMMA OneLister ==
    ASSUME PubInv, NEW p \in Procs, NEW q \in Procs \ {p}, pc[p] = "writeCRL"
    PROVE  pc[q] \notin Listed
  BY DEF PubInv, View, CRLView, HoldsCRL, Listed

\* The number a CRL gets, against the counter and against the clock.
LEMMA NumberMoves ==
    ASSUME TypeInv, NEW p \in Procs, NumberCRL(p)
    PROVE  /\ pc[p] = "nextCRLNumber" /\ pc'[p] = "writeCRL"
           /\ crlFile' = crlFile /\ used' = used /\ db'.revoked = db.revoked
           /\ db'.crlNumber \in Nat /\ clock' \in Nat
           /\ db.crlNumber < db'.crlNumber
           /\ ~ClockSteps /\ db.crlNumber <= clock => clock < db'.crlNumber /\ db'.crlNumber <= clock'
           /\ loc'[p].crl.number = db'.crlNumber /\ loc'[p].crl.revoked = loc[p].crl.revoked
<1>1. /\ pc[p] = "nextCRLNumber" /\ pc'[p] = "writeCRL" /\ crlFile' = crlFile /\ used' = used
  BY NumberTyped DEF NumberCRL, Goto, files
<1>2. PICK now \in Readings : /\ clock' = Larger(clock, now)
                              /\ db' = nextCRLNumber(db, now)
                              /\ loc' = [loc EXCEPT ![p].crl.number = db'.crlNumber]
  BY DEF NumberCRL
<1>3. db \in Databases
  BY IssueTypes
<1>4. db'.revoked = db.revoked /\ db'.crlNumber = Larger(db.crlNumber + 1, now)
  BY <1>2, <1>3 DEF nextCRLNumber, Databases
<1>5. now \in Nat /\ (~ClockSteps => clock < now)
  <2>1. clock \in Nat /\ MaxTick \in Nat
    BY NumberTyped, MasterAssumption
  <2> QED
    BY <2>1, SMT, Z3 DEF Readings
<1>6. /\ db'.crlNumber \in Nat /\ clock' \in Nat /\ db.crlNumber < db'.crlNumber
      /\ ~ClockSteps /\ db.crlNumber <= clock => clock < db'.crlNumber /\ db'.crlNumber <= clock'
  <2>1. clock \in Nat /\ db.crlNumber \in Nat
    BY NumberTyped
  <2> QED
    BY <1>2, <1>4, <1>5, <2>1, SMT, Z3 DEF Larger
<1>7. loc'[p].crl.number = db'.crlNumber /\ loc'[p].crl.revoked = loc[p].crl.revoked
  <2>1. loc \in [Procs -> LocTypes]
    BY NumberTyped
  <2> QED
    BY <1>2, <2>1, SMT, Z3 DEF LocTypes, CRLs
<1> QED
  BY <1>1, <1>4, <1>6, <1>7

\* The numbers, in order.
LEMMA Order ==
    ASSUME NEW a \in Nat, NEW b \in Nat, NEW c \in Nat
    PROVE  /\ a <= b /\ b <= c => a <= c
           /\ a <= b /\ b < c => a < c
           /\ a < b => a <= b
           /\ a <= a /\ 0 <= a
  BY SMT, Z3

LEMMA ClockStep ==
    ASSUME PubInv, TypeInv', IssueInv, ClockInv, NEW p \in Procs, Acts(p)
    PROVE  ClockInv'
<1> SUFFICES ASSUME ~ClockSteps PROVE ClockInv'
  BY DEF ClockInv
<1>t. TypeInv
  BY DEF PubInv
<1>b. \A q \in Procs \ {p} : pc'[q] = pc[q] /\ loc'[q] = loc[q]
  BY StandBy DEF Bystanders
<1>0. /\ db.crlNumber <= clock /\ crlFile.number <= clock
      /\ \A q \in Procs : pc[q] = "writeCRL" =>
            crlFile.number < loc[q].crl.number /\ loc[q].crl.number <= clock
  BY DEF ClockInv
<1>n. /\ db.crlNumber \in Nat /\ crlFile.number \in Nat /\ clock \in Nat
      /\ clock' \in Nat /\ \A q \in Procs : loc[q].crl.number \in Nat
  BY <1>t, NumberTyped DEF TypeInv, TypeOK
<1>1. CASE crlFile' = crlFile /\ clock' = clock /\ db'.crlNumber = db.crlNumber /\ pc'[p] # "writeCRL"
  BY <1>0, <1>1, <1>b DEF ClockInv
<1>2. CASE Steady(p) \/ ListRevoked(p)
  <2>1. crlFile' = crlFile /\ clock' = clock /\ db'.crlNumber = db.crlNumber /\ pc'[p] # "writeCRL"
    BY <1>t, <1>2, NumberTyped DEF Steady, ListRevoked, Goto, files, Listed
  <2> QED
    BY <1>1, <2>1
<1>3. CASE NumberCRL(p)
  <2>1. /\ crlFile' = crlFile /\ db'.crlNumber \in Nat
        /\ clock < db'.crlNumber /\ db'.crlNumber <= clock' /\ loc'[p].crl.number = db'.crlNumber
    BY <1>t, <1>0, <1>3, NumberMoves
  <2>2. clock <= clock' /\ crlFile.number <= clock' /\ crlFile.number < db'.crlNumber
    BY <1>0, <1>n, <2>1, Order
  <2>3. \A q \in Procs \ {p} : loc[q].crl.number <= clock => loc[q].crl.number <= clock'
    BY <1>n, <2>2, Order
  <2>4. ASSUME NEW q \in Procs, pc'[q] = "writeCRL"
        PROVE  crlFile.number < loc'[q].crl.number /\ loc'[q].crl.number <= clock'
    BY <1>0, <1>b, <2>1, <2>2, <2>3, <2>4
  <2> QED
    BY <2>1, <2>2, <2>4 DEF ClockInv
<1>4. CASE WriteCRL(p)
  <2>1. /\ pc[p] = "writeCRL" /\ pc'[p] # "writeCRL"
        /\ crlFile' = loc[p].crl /\ clock' = clock /\ db' = db
    BY <1>t, <1>4, NumberTyped DEF WriteCRL, Goto
  <2>2. \A q \in Procs : pc'[q] # "writeCRL"
    BY <1>b, <2>1, OneLister DEF Listed
  <2> QED
    BY <1>0, <2>1, <2>2 DEF ClockInv
<1>5. CASE RunMasterOnEmptyDB(p)
  <2>1. /\ crlFile' = crlFile /\ clock' = clock /\ db' = migrate
        /\ \A q \in Procs : pc'[q] # "writeCRL"
    BY <1>t, <1>5, NumberTyped DEF RunMasterOnEmptyDB, Write, Goto, files
  <2>2. db'.crlNumber = 0
    BY <2>1 DEF migrate
  <2>3. 0 <= clock
    BY <1>n, Order
  <2> QED
    BY <1>0, <2>1, <2>2, <2>3 DEF ClockInv
<1> QED
  BY <1>t, <1>2, <1>3, <1>4, <1>5, NumberKinds

LEMMA CounterStep ==
    ASSUME PubInv, TypeInv', IssueInv, CounterInv, NEW p \in Procs, Acts(p)
    PROVE  CounterInv'
<1> SUFFICES ASSUME used'.resets = 0 PROVE Counted'
  BY DEF CounterInv
<1>t. TypeInv
  BY DEF PubInv
<1>b. \A q \in Procs \ {p} : pc'[q] = pc[q] /\ loc'[q] = loc[q]
  BY StandBy DEF Bystanders
<1>n. /\ db.crlNumber \in Nat /\ crlFile.number \in Nat
      /\ \A q \in Procs : loc[q].crl.number \in Nat
  BY <1>t, NumberTyped
<1>k. /\ used'.resets = used.resets
      /\ Steady(p) \/ ListRevoked(p) \/ NumberCRL(p) \/ WriteCRL(p)
  <2>1. ~RunMasterOnEmptyDB(p)
    BY <1>t, ResetCounts
  <2> QED
    BY <1>t, <2>1, NumberKinds DEF Steady, ListRevoked, NumberCRL, WriteCRL
<1>0. /\ crlFile.number <= db.crlNumber /\ crlFile.revoked \subseteq db.revoked
      /\ \A q \in Procs : ListView(q)
  BY <1>k DEF CounterInv, Counted
<1>1. CASE Steady(p)
  <2>1. \A q \in Procs \ {p} : ListView(q)'
    BY <1>0, <1>1, <1>b DEF Steady, ListView
  <2>2. ListView(p)'
    BY <1>1 DEF Steady, ListView, Listed
  <2> QED
    BY <1>0, <1>1, <2>1, <2>2 DEF Steady, Counted
<1>2. CASE ListRevoked(p)
  <2>1. /\ crlFile' = crlFile /\ db' = db /\ pc'[p] = "nextCRLNumber"
        /\ loc' = [loc EXCEPT ![p].crl = [number |-> 0, version |-> version, revoked |-> db.revoked]]
    BY <1>t, <1>2, NumberTyped DEF ListRevoked, Goto, files
  <2>2. loc'[p].crl.revoked = db.revoked
    <3>1. loc \in [Procs -> LocTypes]
      BY <1>t, NumberTyped
    <3> QED
      BY <2>1, <3>1, SMT, Z3 DEF LocTypes
  <2>3. \A q \in Procs \ {p} : ListView(q)'
    BY <1>0, <1>b, <2>1 DEF ListView
  <2>4. ListView(p)'
    BY <1>0, <2>1, <2>2 DEF ListView
  <2> QED
    BY <1>0, <2>1, <2>3, <2>4 DEF Counted
<1>3. CASE NumberCRL(p)
  <2>1. /\ pc[p] = "nextCRLNumber" /\ crlFile' = crlFile /\ db'.revoked = db.revoked /\ db'.crlNumber \in Nat
        /\ db.crlNumber < db'.crlNumber
        /\ loc'[p].crl.number = db'.crlNumber /\ loc'[p].crl.revoked = loc[p].crl.revoked
    BY <1>t, <1>3, NumberMoves
  <2>2. /\ crlFile.number < db'.crlNumber /\ crlFile.number <= db'.crlNumber
        /\ db.crlNumber <= db'.crlNumber /\ db'.crlNumber <= db'.crlNumber
    <3>1. crlFile.number <= db.crlNumber
      BY <1>0 DEF Counted
    <3>2. crlFile.number < db'.crlNumber
      BY <1>n, <2>1, <3>1, Order
    <3>3. db.crlNumber <= db'.crlNumber /\ db'.crlNumber <= db'.crlNumber
      BY <1>n, <2>1, Order
    <3>4. crlFile.number <= db'.crlNumber
      BY <1>n, <2>1, <3>2, Order
    <3> QED
      BY <3>2, <3>3, <3>4
  <2>3. \A q \in Procs : loc[q].crl.number <= db.crlNumber => loc[q].crl.number <= db'.crlNumber
    BY <1>n, <2>1, <2>2, Order
  <2>4. \A q \in Procs \ {p} : ListView(q)'
    BY <1>0, <1>b, <2>1, <2>3 DEF ListView
  <2>5. ListView(p)'
    BY <1>0, <2>1, <2>2 DEF ListView, Listed
  <2> QED
    BY <1>0, <2>1, <2>2, <2>4, <2>5 DEF Counted
<1>4. CASE WriteCRL(p)
  <2>1. /\ pc[p] = "writeCRL" /\ pc'[p] \notin Listed
        /\ crlFile' = loc[p].crl /\ db' = db
    BY <1>t, <1>4, NumberTyped DEF WriteCRL, Goto, Listed
  <2>2. \A q \in Procs : pc'[q] \notin Listed
    BY <1>b, <2>1, OneLister
  <2>3. ListView(p) /\ pc[p] \in Listed
    BY <1>0, <2>1 DEF Listed
  <2> QED
    BY <2>1, <2>2, <2>3 DEF ListView, Counted, Listed
<1> QED
  BY <1>k, <1>1, <1>2, <1>3, <1>4

CRLInv == ClockInv /\ CounterInv

LEMMA CRLInvariant == Spec => []CRLInv
<1>1. ASSUME Init PROVE CRLInv
  <2>1. /\ db.crlNumber = 2 /\ crlFile.number = 2 /\ crlFile.revoked = {} /\ clock = 2
        /\ \A p \in Procs : pc[p] = "idle"
    BY <1>1 DEF Init, BootstrappedDB, migrate
  <2>2. 2 <= 2
    BY SMT, Z3
  <2> QED
    BY <2>1, <2>2 DEF CRLInv, ClockInv, CounterInv, Counted, ListView, Listed
<1>2. PubInv /\ PubInv' /\ IssueInv /\ CRLInv /\ [Next]_vars => CRLInv'
  <2> SUFFICES ASSUME PubInv, PubInv', IssueInv, CRLInv, [Next]_vars PROVE CRLInv'
    OBVIOUS
  <2>1. CASE UNCHANGED vars
    <3>1. /\ db' = db /\ crlFile' = crlFile /\ clock' = clock /\ pc' = pc /\ loc' = loc /\ used' = used
      BY <2>1 DEF vars, files
    <3> QED
      BY <3>1 DEF CRLInv, ClockInv, CounterInv, Counted, ListView
  <2>2. ASSUME NEW p \in Procs, Acts(p) PROVE CRLInv'
    BY <2>2, ClockStep, CounterStep DEF CRLInv, PubInv
  <2> QED
    BY <2>1, <2>2 DEF Next, Acts, Quiescent
<1> QED
  BY <1>1, <1>2, PubInvariant, IssueInvariant, PTL DEF Spec

\* A CRL is only ever replaced by one with a larger number, unless the
\* database was lost and the clock was set back, and, while the database is
\* not lost, by one that lists every revocation the last one listed: about
\* WriteCRL listing and numbering under its lock and nextCRLNumber taking
\* the larger of the counter and the clock.
THEOREM CRLsMoveForward == Spec => CRLMovesForward
<1>1. PubInv /\ IssueInv /\ CRLInv /\ [Next]_vars =>
          [/\ (used.resets = 0 \/ ~ClockSteps) => crlFile'.number > crlFile.number
           /\ used.resets = 0 => crlFile.revoked \subseteq crlFile'.revoked]_crlFile
  <2> SUFFICES ASSUME PubInv, IssueInv, CRLInv, [Next]_vars, crlFile' # crlFile
               PROVE  /\ (used.resets = 0 \/ ~ClockSteps) => crlFile'.number > crlFile.number
                      /\ used.resets = 0 => crlFile.revoked \subseteq crlFile'.revoked
    OBVIOUS
  <2>t. TypeInv
    BY DEF PubInv
  <2>1. PICK p \in Procs : Acts(p)
    BY DEF Next, Acts, Quiescent, vars, files
  <2>2. WriteCRL(p)
    BY <2>t, <2>1, NumberKinds DEF Steady, ListRevoked, NumberCRL, RunMasterOnEmptyDB, files
  <2>3. pc[p] = "writeCRL" /\ crlFile' = loc[p].crl
    BY <2>2 DEF WriteCRL, Goto
  <2>4. used.resets = 0 \/ ~ClockSteps => crlFile.number < loc[p].crl.number
    BY <2>3 DEF CRLInv, ClockInv, CounterInv, Counted, ListView
  <2>5. used.resets = 0 => crlFile.revoked \subseteq loc[p].crl.revoked
    BY <2>3 DEF CRLInv, CounterInv, Counted, ListView, Listed
  <2>6. crlFile.number \in Nat /\ loc[p].crl.number \in Nat
    BY <2>t, NumberTyped
  <2>7. crlFile.number < loc[p].crl.number => loc[p].crl.number > crlFile.number
    BY <2>6, SMT, Z3
  <2> QED
    BY <2>3, <2>4, <2>5, <2>7
<1> QED
  BY <1>1, PubInvariant, IssueInvariant, CRLInvariant, PTL DEF Spec, CRLMovesForward

-----------------------------------------------------------------------------
(***************************************************************************)
(* The certificates handed out.  While the database is not lost, the table *)
(* of certificates only grows, the snapshot a process holds lies between   *)
(* the published one and the table, and a process that has recorded a      *)
(* certificate takes its snapshot afterwards.                              *)
(***************************************************************************)

Holding == HoldsCache \ {"BuildSnapshot"}

Record(p) == [serial |-> cmd[p].serial, subject |-> minted[cmd[p].serial]]

Recorded(p) == cmd[p].op \in Issuing /\ pc[p] \notin Unrecorded \cup Authorizing

DeliverView(p) ==
    /\ pc[p] \in Holding =>
          /\ cacheFile.data.certs \subseteq loc[p].cache.data.certs
          /\ loc[p].cache.data.certs \subseteq db.certs
    /\ Recorded(p) =>
          /\ Record(p) \in db.certs
          /\ pc[p] \in Holding => Record(p) \in loc[p].cache.data.certs
          /\ pc[p] = "return" => Record(p) \in cacheFile.data.certs

Delivery ==
    /\ cacheFile.data.certs \subseteq db.certs
    /\ \A s \in delivered : [serial |-> s, subject |-> minted[s]] \in cacheFile.data.certs
    /\ \A p \in Procs : DeliverView(p)

DeliverInv == used.resets = 0 => Delivery

\* A step off the path through RebuildEncryptedCache and to the answer.
Calm(p) ==
    /\ cacheFile' = cacheFile /\ delivered' = delivered
    /\ pc'[p] \notin Holding
    /\ pc'[p] = "return" => cmd'[p].op \notin Issuing
    /\ Recorded(p)' => cmd'[p] = cmd[p] /\ (Recorded(p) \/ RecordCert(p) \/ ReplaceCert(p))

LEMMA InvokeCalm ==
    ASSUME TypeInv, NEW p \in Procs, Invoke(p)
    PROVE  Calm(p)
<1>0. pc \in [Procs -> Steps] /\ cmd \in [Procs -> CmdTypes]
  BY IssueTypes
<1>1. cacheFile' = cacheFile /\ delivered' = delivered
  BY DEF Invoke, RunRevokeCert, RunReissueCert, RunIssueCLI, RunDeregisterClient, RunBlockClient,
     RunUnblockClient, RunMaster, RunMasterOnEmptyDB, Register, Enroll, Control, files
<1>2. pc'[p] \notin Holding /\ pc'[p] # "return"
  BY InvokeStarts DEF Holding, HoldsCache
<1> DEFINE Goal == cmd'[p].op \in Issuing => pc'[p] \in Unrecorded \cup Authorizing
<1>3. ASSUME NEW op, NEW ip, NEW b, NEW s, NEW first, Start(p, Cmd(op, ip, b, s), first),
             op \in Issuing => first \in Unrecorded \cup Authorizing
      PROVE  Goal
  <2>1. cmd'[p] = Cmd(op, ip, b, s) /\ pc'[p] = first
    BY <1>0, <1>3 DEF Start, Goto
  <2>2. cmd'[p].op = op
    BY <2>1, SMT, Z3 DEF Cmd
  <2> QED
    BY <1>3, <2>1, <2>2
<1>4. ASSUME RunMasterOnEmptyDB(p) PROVE Goal
  <2>1. cmd'[p] = Cmd("master", None, None, None)
    BY <1>0, <1>4 DEF RunMasterOnEmptyDB
  <2>2. cmd'[p].op = "master"
    BY <2>1, SMT, Z3 DEF Cmd
  <2> QED
    BY <2>2 DEF Issuing
<1> HIDE DEF Goal
<1>5. ASSUME \/ \E s \in Serials : RunRevokeCert(p, s)
             \/ \E ip \in IPs : RunDeregisterClient(p, ip) \/ RunBlockClient(p, ip) \/ RunUnblockClient(p, ip)
             \/ RunMaster(p)
             \/ \E ip \in IPs : Register(p, ip)
      PROVE  Goal
  <2>1. {"revoke", "deregister", "block", "unblock", "master", "register"} \cap Issuing = {}
    BY DEF Issuing
  <2> QED
    BY <1>3, <1>5, <2>1 DEF RunRevokeCert, RunDeregisterClient, RunBlockClient, RunUnblockClient, RunMaster, Register
<1>6. ASSUME NEW t \in Targets, NEW s \in Serials, RunReissueCert(p, t, s) \/ RunIssueCLI(p, t, s)
      PROVE  Goal
  <2>1. "lockIssuance" \in Unrecorded \cup Authorizing
    BY DEF Unrecorded
  <2> QED
    BY <1>3, <1>6, <2>1 DEF RunReissueCert, RunIssueCLI
<1>7. ASSUME NEW ip \in IPs, NEW s \in Serials, Enroll(p, ip, s) \/ \E op \in Handlers : Control(p, op, ip, s)
      PROVE  Goal
  <2>1. "AddCert" \in Unrecorded \cup Authorizing /\ "IsRevoked" \in Unrecorded \cup Authorizing
    BY DEF Unrecorded, Authorizing
  <2> QED
    BY <1>3, <1>7, <2>1 DEF Enroll, Control
<1>8. Goal
  BY <1>4, <1>5, <1>6, <1>7 DEF Invoke
<1> QED
  BY <1>1, <1>2, <1>8 DEF Calm, Recorded, Goal

LEMMA DeliverKinds ==
    ASSUME PubInv, NEW p \in Procs, Acts(p)
    PROVE  \/ Calm(p) \/ TakeSnapshot(p) \/ RaiseSequence(p) \/ NextSequence(p)
           \/ WriteCache(p) \/ Return(p)
<1>t. TypeInv /\ OpFits(cmd[p].op, pc[p])
  BY DEF PubInv, View
<1>0. pc \in [Procs -> Steps] /\ cmd \in [Procs -> CmdTypes]
  BY <1>t, IssueTypes
<1>1. CASE Refuse(p) \/ RollbackKey(p) \/ Abort(p)
  <2>1. /\ cacheFile' = cacheFile /\ delivered' = delivered /\ pc'[p] = "idle" /\ cmd'[p] = NoCmd
    BY <1>0, <1>1 DEF Refuse, RollbackKey, Abort, Leave, files
  <2>2. NoCmd.op \notin Issuing
    BY DEF NoCmd, Cmd, Issuing
  <2> QED
    BY <2>1, <2>2 DEF Calm, Recorded, Holding, HoldsCache
<1>2. CASE SignCSR(p)
  BY <1>0, <1>2 DEF SignCSR, Goto, files, Calm, Recorded, Unrecorded, Holding, HoldsCache
<1>3. CASE refreshCRL(p) \/ ServeFile(p)
  <2>1. /\ cacheFile' = cacheFile /\ delivered' = delivered /\ pc'[p] \in {"lockCRL", "return"}
        /\ cmd' = cmd /\ cmd[p].op \notin Issuing
    BY <1>0, <1>3 DEF refreshCRL, ServeFile, Goto, files, Issuing
  <2> QED
    BY <2>1 DEF Calm, Recorded, Holding, HoldsCache
<1>4. CASE CheckRevoked(p) \/ CheckCert(p)
  BY <1>0, <1>1, <1>4 DEF CheckRevoked, CheckCert, AuthorizeStep, Goto, files, Calm, Recorded, Authorizing,
     Holding, HoldsCache
<1>5. CASE LockIssuance(p) \/ WriteKey(p) \/ WriteCrt(p)
  BY <1>0, <1>5 DEF LockIssuance, WriteKey, WriteCrt, Goto, files, Calm, Recorded, Unrecorded, Holding, HoldsCache
<1>6. CASE RecordCert(p) \/ ReplaceCert(p)
  BY <1>0, <1>6 DEF RecordCert, ReplaceCert, Goto, files, Calm, Holding, HoldsCache
<1>7. CASE \/ RecordRevocation(p) \/ RecordClient(p) \/ DropClient(p) \/ LiftBlock(p) \/ LockCache(p)
           \/ LockCRL(p) \/ ListRevoked(p) \/ NumberCRL(p) \/ WriteCRL(p)
  <2>1. cacheFile' = cacheFile /\ delivered' = delivered /\ cmd' = cmd
    BY <1>7 DEF RecordRevocation, RecordClient, DropClient, LiftBlock, LockCache, LockCRL, ListRevoked,
       NumberCRL, WriteCRL, files
  <2>2. pc'[p] \notin Holding /\ pc[p] \notin Unrecorded \cup Authorizing
    BY <1>0, <1>7 DEF RecordRevocation, RecordClient, DropClient, LiftBlock, LockCache, LockCRL, ListRevoked,
       NumberCRL, WriteCRL, Goto, Holding, HoldsCache, Unrecorded, Authorizing
  <2>3. pc'[p] = "return" => cmd[p].op = "sync_crl"
    BY <1>0, <1>7 DEF RecordRevocation, RecordClient, DropClient, LiftBlock, LockCache, LockCRL, ListRevoked,
       NumberCRL, WriteCRL, Goto
  <2> QED
    BY <2>1, <2>2, <2>3 DEF Calm, Recorded, Issuing
<1> QED
  BY <1>t, <1>1, <1>2, <1>3, <1>4, <1>5, <1>6, <1>7, InvokeCalm DEF Acts, Step, CheckClient, DenyCSR

\* A signed serial keeps its subject.
Stays == \A s \in Serials : minted[s] # None => minted'[s] = minted[s]

LEMMA MintedStays ==
    ASSUME TypeInv, NEW p \in Procs, Acts(p)
    PROVE  Stays
<1>1. CASE minted' = minted
  BY <1>1 DEF Stays
<1>2. CASE Signs(p)
  <2>1. PICK s \in Serials, b \in Subjects : Mint(s, b)
    BY <1>2 DEF Signs
  <2>2. minted[s] = None /\ minted' = [minted EXCEPT ![s] = b]
    BY <2>1 DEF Mint, Fresh
  <2> QED
    BY <2>2, IssueTypes DEF Stays
<1>3. CASE Elsewhere(p) \/ RunMasterOnEmptyDB(p) \/ RollbackKey(p)
  BY <1>1, <1>3 DEF Elsewhere, RunMasterOnEmptyDB, RollbackKey
<1>4. CASE \/ RecordRevocation(p) \/ RecordCert(p) \/ ReplaceCert(p)
           \/ LockIssuance(p) \/ WriteKey(p) \/ WriteCrt(p)
  BY <1>1, <1>4 DEF RecordRevocation, RecordCert, ReplaceCert, LockIssuance, WriteKey, WriteCrt
<1> QED
  BY <1>2, <1>3, <1>4, InvokeKinds, StepKinds DEF Acts

\* The record of a serial in the table is the same afterwards.
LEMMA RecordStays ==
    ASSUME TypeInv, Stays, NEW s, [serial |-> s, subject |-> minted[s]] \in db.certs
    PROVE  minted'[s] = minted[s]
<1> DEFINE c == [serial |-> s, subject |-> minted[s]]
<1>1. c.serial = s /\ c.subject = minted[s]
  OBVIOUS
<1> HIDE DEF c
<1>2. c.serial \in Serials /\ c.subject \in Subjects
  BY IssueTypes DEF c
<1> QED
  BY <1>1, <1>2, MasterAssumption DEF Stays

\* What the others have recorded and hold, they keep.
LEMMA OthersDeliver ==
    ASSUME TypeInv, Delivery, NEW p \in Procs, NEW q \in Procs \ {p}, Bystanders(p), Stays,
           db.certs \subseteq db'.certs,
           cacheFile.data.certs \subseteq cacheFile'.data.certs,
           pc[q] \in Holding => cacheFile' = cacheFile
    PROVE  DeliverView(q)'
<1>1. pc'[q] = pc[q] /\ cmd'[q] = cmd[q] /\ loc'[q] = loc[q] /\ (Recorded(q)' <=> Recorded(q))
  BY DEF Bystanders, Recorded
<1>2. DeliverView(q)
  BY DEF Delivery
<1>3. Recorded(q) => Record(q)' = Record(q)
  <2> SUFFICES ASSUME Recorded(q) PROVE Record(q)' = Record(q)
    OBVIOUS
  <2>1. Record(q) \in db.certs
    BY <1>2 DEF DeliverView
  <2>2. minted'[cmd[q].serial] = minted[cmd[q].serial]
    BY <2>1, RecordStays DEF Record
  <2> QED
    BY <1>1, <2>2 DEF Record
<1>4. pc[q] \in Holding =>
          /\ cacheFile'.data.certs \subseteq loc[q].cache.data.certs
          /\ loc[q].cache.data.certs \subseteq db'.certs
  BY <1>2 DEF DeliverView
<1>5. Recorded(q) =>
          /\ Record(q) \in db'.certs
          /\ pc[q] \in Holding => Record(q) \in loc[q].cache.data.certs
          /\ pc[q] = "return" => Record(q) \in cacheFile'.data.certs
  BY <1>2 DEF DeliverView
<1> QED
  BY <1>1, <1>3, <1>4, <1>5 DEF DeliverView

\* What was delivered stays published.
LEMMA DeliveredStays ==
    ASSUME TypeInv, Delivery, Stays, cacheFile.data.certs \subseteq cacheFile'.data.certs
    PROVE  \A s \in delivered : [serial |-> s, subject |-> minted'[s]] \in cacheFile'.data.certs
<1> SUFFICES ASSUME NEW s \in delivered
             PROVE  [serial |-> s, subject |-> minted'[s]] \in cacheFile'.data.certs
  OBVIOUS
<1>1. /\ [serial |-> s, subject |-> minted[s]] \in cacheFile.data.certs
      /\ [serial |-> s, subject |-> minted[s]] \in db.certs
  BY DEF Delivery
<1>2. minted'[s] = minted[s]
  BY <1>1, RecordStays
<1> QED
  BY <1>1, <1>2

\* A certificate is in the table when its process has recorded it.
LEMMA CalmDeliver ==
    ASSUME TypeInv, IssueInv, Delivery, NEW p \in Procs, Bystanders(p), Stays, Calm(p),
           db.certs \subseteq db'.certs
    PROVE  Delivery'
<1>1. cacheFile' = cacheFile /\ delivered' = delivered
  BY DEF Calm
<1>2. cacheFile'.data.certs \subseteq db'.certs
  BY <1>1 DEF Delivery
<1>3. \A s \in delivered' : [serial |-> s, subject |-> minted'[s]] \in cacheFile'.data.certs
  BY <1>1, DeliveredStays
<1>4. ASSUME NEW q \in Procs \ {p} PROVE DeliverView(q)'
  BY <1>1, OthersDeliver
<1>5. Recorded(p)' => Record(p)' \in db'.certs
  <2> SUFFICES ASSUME Recorded(p)' PROVE Record(p)' \in db'.certs
    OBVIOUS
  <2>0. cmd'[p] = cmd[p] /\ (Recorded(p) \/ RecordCert(p) \/ ReplaceCert(p))
    BY DEF Calm
  <2>1. CASE Recorded(p)
    <3>1. Record(p) \in db.certs
      BY <2>1 DEF Delivery, DeliverView
    <3>2. minted'[cmd[p].serial] = minted[cmd[p].serial]
      BY <3>1, RecordStays DEF Record
    <3> QED
      BY <2>0, <3>1, <3>2 DEF Record
  <2>2. CASE RecordCert(p) \/ ReplaceCert(p)
    <3>1. /\ pc[p] \in Unrecorded /\ minted' = minted
          /\ \/ db' = AddCert(db, cmd[p].serial, cmd[p].subject)
             \/ db' = replaceCertificate(db, cmd[p].serial, cmd[p].subject)
      BY <2>2 DEF RecordCert, ReplaceCert, Write, Goto, Unrecorded
    <3>2. /\ db \in Databases /\ cmd[p].serial \in Serials /\ minted[cmd[p].serial] = cmd[p].subject
          /\ \A c \in db.certs : c.serial # cmd[p].serial
      BY <3>1, IssueTypes DEF IssueInv, IssueView
    <3>3. db'.certs = db.certs \cup {[serial |-> cmd[p].serial, subject |-> cmd[p].subject]}
      <4>1. CASE db' = AddCert(db, cmd[p].serial, cmd[p].subject)
        <5>1. Adds(db', db, cmd[p].serial, cmd[p].subject)
          BY <3>2, <4>1, AddKeeps
        <5> QED
          BY <5>1 DEF Adds
      <4>2. CASE db' = replaceCertificate(db, cmd[p].serial, cmd[p].subject)
        <5>1. Replaces(db', db, cmd[p].serial, cmd[p].subject)
          BY <3>2, <4>2, ReplaceKeeps
        <5> QED
          BY <5>1 DEF Replaces
      <4> QED
        BY <3>1, <4>1, <4>2
    <3>4. Record(p)' = [serial |-> cmd[p].serial, subject |-> cmd[p].subject]
      BY <2>0, <3>1, <3>2 DEF Record
    <3> QED
      BY <3>3, <3>4
  <2> QED
    BY <2>0, <2>1, <2>2
<1>6. DeliverView(p)'
  BY <1>5 DEF DeliverView, Calm, Recorded
<1> QED
  BY <1>2, <1>3, <1>4, <1>6 DEF Delivery

\* The snapshot that is taken is the table.
LEMMA SnapshotDeliver ==
    ASSUME TypeInv, Delivery, NEW p \in Procs, Bystanders(p), Stays, TakeSnapshot(p)
    PROVE  Delivery'
<1>1. /\ pc[p] = "BuildSnapshot" /\ pc'[p] = "raiseCacheSequence" /\ cmd' = cmd /\ minted' = minted
      /\ cacheFile' = cacheFile /\ delivered' = delivered /\ db' = db
      /\ loc' = [loc EXCEPT ![p].cache = [seq |-> 0, version |-> version, data |-> BuildSnapshot(db)]]
  BY IssueTypes DEF TakeSnapshot, Goto, files
<1>2. loc'[p].cache.data.certs = db.certs
  <2>1. loc \in [Procs -> LocTypes]
    BY PubTypes
  <2>2. loc'[p].cache.data = BuildSnapshot(db)
    BY <1>1, <2>1, SMT, Z3 DEF LocTypes
  <2>3. BuildSnapshot(db).certs = db.certs
    BY DEF BuildSnapshot
  <2> QED
    BY <2>2, <2>3
<1>3. ASSUME NEW q \in Procs \ {p} PROVE DeliverView(q)'
  BY <1>1, OthersDeliver
<1>4. Recorded(p)' => Recorded(p) /\ Record(p)' = Record(p)
  BY <1>1 DEF Recorded, Record, Unrecorded, Authorizing
<1>5. Recorded(p) => Record(p) \in db.certs
  BY DEF Delivery, DeliverView
<1>6. cacheFile.data.certs \subseteq db.certs
  BY DEF Delivery
<1>7. DeliverView(p)'
  BY <1>1, <1>2, <1>4, <1>5, <1>6 DEF DeliverView
<1> QED
  BY <1>1, <1>3, <1>7 DEF Delivery

\* The snapshot is numbered.
LEMMA SequenceDeliver ==
    ASSUME TypeInv, Delivery, NEW p \in Procs, Bystanders(p), Stays, RaiseSequence(p) \/ NextSequence(p)
    PROVE  Delivery'
<1>1. /\ pc[p] \in Holding /\ pc'[p] \in Holding /\ pc'[p] # "return"
      /\ cmd' = cmd /\ minted' = minted
      /\ cacheFile' = cacheFile /\ delivered' = delivered
  BY IssueTypes DEF RaiseSequence, NextSequence, Goto, files, Holding, HoldsCache
<1>2. KeepsCerts(db', db)
  BY IssueTypes, StoreKeeps DEF RaiseSequence, NextSequence
<1>3. db'.certs = db.certs
  BY <1>2 DEF KeepsCerts
<1>4. loc'[p].cache.data = loc[p].cache.data
  <2>1. loc \in [Procs -> LocTypes]
    BY PubTypes
  <2>2. loc' = loc \/ \E n : loc' = [loc EXCEPT ![p].cache.seq = n]
    BY DEF RaiseSequence, NextSequence
  <2> QED
    BY <2>1, <2>2, SMT, Z3 DEF LocTypes, Caches
<1>5. ASSUME NEW q \in Procs \ {p} PROVE DeliverView(q)'
  BY <1>1, <1>3, OthersDeliver
<1>6. Recorded(p)' => Recorded(p) /\ Record(p)' = Record(p)
  BY <1>1 DEF Recorded, Record, Unrecorded, Authorizing, Holding, HoldsCache
<1>7. DeliverView(p)
  BY DEF Delivery
<1>8. DeliverView(p)'
  BY <1>1, <1>3, <1>4, <1>6, <1>7 DEF DeliverView
<1> QED
  BY <1>1, <1>3, <1>5, <1>8 DEF Delivery

\* The cache on disk is replaced by one that has all its certificates; no
\* other process holds a snapshot.
LEMMA CacheDeliver ==
    ASSUME PubInv, Delivery, NEW p \in Procs, Bystanders(p), Stays, WriteCache(p)
    PROVE  Delivery'
<1>t. TypeInv
  BY DEF PubInv
<1>1. /\ pc[p] = "writeCache" /\ pc'[p] = "return" /\ cmd' = cmd /\ minted' = minted
      /\ cacheFile' = loc[p].cache /\ delivered' = delivered /\ db' = db
  BY <1>t, IssueTypes DEF WriteCache, Goto
<1>2. DeliverView(p) /\ pc[p] \in Holding
  BY <1>1 DEF Delivery, Holding, HoldsCache
<1>3. /\ cacheFile.data.certs \subseteq cacheFile'.data.certs
      /\ cacheFile'.data.certs \subseteq db.certs
  BY <1>1, <1>2 DEF DeliverView
<1>4. ASSUME NEW q \in Procs \ {p} PROVE DeliverView(q)'
  <2>1. pc[q] \notin Holding
    BY <1>1 DEF PubInv, View, CacheView, Holding, HoldsCache
  <2> QED
    BY <1>t, <1>1, <1>3, <2>1, OthersDeliver
<1>5. Recorded(p)' => Recorded(p) /\ Record(p)' = Record(p)
  BY <1>1 DEF Recorded, Record, Unrecorded, Authorizing
<1>6. Recorded(p) => Record(p) \in db.certs /\ Record(p) \in cacheFile'.data.certs
  BY <1>1, <1>2 DEF DeliverView
<1>7. DeliverView(p)'
  BY <1>1, <1>5, <1>6 DEF DeliverView, Holding, HoldsCache
<1>8. \A s \in delivered' : [serial |-> s, subject |-> minted'[s]] \in cacheFile'.data.certs
  BY <1>t, <1>1, <1>3, DeliveredStays
<1> QED
  BY <1>1, <1>3, <1>4, <1>7, <1>8 DEF Delivery

\* The process that answers has its certificate in the published cache.
LEMMA ReturnDeliver ==
    ASSUME TypeInv, Delivery, NEW p \in Procs, Bystanders(p), Stays, Return(p)
    PROVE  Delivery'
<1>1. /\ pc[p] = "return" /\ pc'[p] = "idle" /\ cmd'[p] = NoCmd /\ minted' = minted
      /\ cacheFile' = cacheFile /\ db' = db
      /\ delivered' = IF cmd[p].op \in Issuing THEN delivered \cup {cmd[p].serial} ELSE delivered
  BY IssueTypes DEF Return, Leave, files
<1>2. NoCmd.op \notin Issuing
  BY DEF NoCmd, Cmd, Issuing
<1>3. DeliverView(p)'
  BY <1>1, <1>2 DEF DeliverView, Recorded, Holding, HoldsCache
<1>4. ASSUME NEW q \in Procs \ {p} PROVE DeliverView(q)'
  BY <1>1, OthersDeliver
<1>5. ASSUME NEW s \in delivered'
      PROVE  [serial |-> s, subject |-> minted[s]] \in cacheFile.data.certs
  <2>1. CASE s \in delivered
    BY <2>1 DEF Delivery
  <2>2. CASE s \notin delivered
    <3>1. s = cmd[p].serial /\ Recorded(p)
      BY <1>1, <1>5, <2>2 DEF Recorded, Unrecorded, Authorizing
    <3>2. Record(p) \in cacheFile.data.certs
      BY <1>1, <3>1 DEF Delivery, DeliverView
    <3> QED
      BY <3>1, <3>2 DEF Record
  <2> QED
    BY <2>1, <2>2
<1> QED
  BY <1>1, <1>3, <1>4, <1>5 DEF Delivery

LEMMA DeliverInvariant == Spec => []DeliverInv
<1>1. ASSUME Init PROVE DeliverInv
  <2>1. /\ delivered = {} /\ cacheFile.data = BuildSnapshot(BootstrappedDB) /\ db = BootstrappedDB
        /\ \A p \in Procs : pc[p] = "idle" /\ cmd[p] = NoCmd
    BY <1>1 DEF Init
  <2>4. BuildSnapshot(BootstrappedDB).certs = BootstrappedDB.certs
    BY DEF BuildSnapshot
  <2>2. cacheFile.data.certs = db.certs
    BY <2>1, <2>4
  <2>3. NoCmd.op \notin Issuing
    BY DEF NoCmd, Cmd, Issuing
  <2> QED
    BY <2>1, <2>2, <2>3 DEF DeliverInv, Delivery, DeliverView, Recorded, Holding, HoldsCache
<1>2. PubInv /\ IssueInv /\ DeliverInv /\ [Next]_vars => DeliverInv'
  <2> SUFFICES ASSUME PubInv, IssueInv, DeliverInv, [Next]_vars, used'.resets = 0 PROVE Delivery'
    BY DEF DeliverInv
  <2>t. TypeInv
    BY DEF PubInv
  <2>1. CASE UNCHANGED vars
    <3>1. /\ db' = db /\ cacheFile' = cacheFile /\ delivered' = delivered /\ minted' = minted
          /\ pc' = pc /\ cmd' = cmd /\ loc' = loc /\ used' = used
      BY <2>1 DEF vars, files
    <3> QED
      BY <3>1 DEF DeliverInv, Delivery, DeliverView, Recorded, Record
  <2>2. ASSUME NEW p \in Procs, Acts(p) PROVE Delivery'
    <3>1. Bystanders(p) /\ Stays
      BY <2>t, <2>2, StandBy, MintedStays
    <3>3. ~RunMasterOnEmptyDB(p)
      BY <2>t, ResetCounts
    <3>4. used'.resets = used.resets
      BY <2>t, <2>2, <3>3, NumberKinds DEF Steady, ListRevoked, NumberCRL, WriteCRL
    <3>5. Delivery /\ db.certs \subseteq db'.certs
      BY <2>t, <2>2, <3>3, <3>4, TablesGrow DEF DeliverInv
    <3> QED
      BY <2>t, <2>2, <3>1, <3>5, DeliverKinds, CalmDeliver, SnapshotDeliver, SequenceDeliver,
         CacheDeliver, ReturnDeliver
  <2> QED
    BY <2>1, <2>2 DEF Next, Acts, Quiescent
<1> QED
  BY <1>1, <1>2, PubInvariant, IssueInvariant, PTL DEF Spec

\* As long as the database is not lost, every certificate that somebody was
\* given is in the published cache under the subject it was signed for:
\* about the handlers answering and the commands reporting after AddCert and
\* RebuildEncryptedCache.
THEOREM DeliveredStaysPublished == Spec => []DeliveredIsPublished
<1>1. DeliverInv => DeliveredIsPublished
  BY DEF DeliverInv, Delivery, DeliveredIsPublished
<1> QED
  BY <1>1, DeliverInvariant, PTL

-----------------------------------------------------------------------------
(***************************************************************************)
(* Locks.  A lock is held exactly between lockFile and unlock, or the end  *)
(* of its holder: the holder of the cache's or of the CRL's lock is inside *)
(* the section the lock guards and waits for nothing, and the holder of an *)
(* issued file's lock has requested it before those two.                   *)
(***************************************************************************)

Holds(p) ==
    /\ lock["cache"] = p => pc[p] \in HoldsCache
    /\ lock["crl"] = p => pc[p] \in HoldsCRL
    /\ \A f \in Files : lock[f] = p => pc[p] \notin {"idle", "lockIssuance"}

LockInv == \A p \in Procs : Holds(p)

\* A step of p gives no lock to another process.
LEMMA LocksTaken ==
    ASSUME TypeInv, NEW p \in Procs, Acts(p), NEW q \in Procs \ {p}, NEW l \in Locks, lock'[l] = q
    PROVE  lock[l] = q
<1>0. lock \in [Locks -> Procs \cup {None}] /\ q # None
  BY MasterAssumption DEF TypeInv, TypeOK
<1>1. CASE lock' = lock
  BY <1>1
<1>2. CASE \E name : lockFile(p, name) \/ unlock(p, name)
  BY <1>0, <1>2 DEF lockFile, unlock
<1>3. CASE Leave(p)
  BY <1>0, <1>3 DEF Leave
<1>4. CASE Invoke(p)
  BY <1>1, <1>4 DEF Invoke, RunRevokeCert, RunReissueCert, RunIssueCLI, RunDeregisterClient, RunBlockClient,
      RunUnblockClient, RunMaster, RunMasterOnEmptyDB, Register, Enroll, Control
<1>5. CASE CheckRevoked(p) \/ CheckCert(p) \/ CheckClient(p)
  BY <1>1, <1>3, <1>5 DEF CheckRevoked, CheckCert, CheckClient, AuthorizeStep, DenyCSR, SignCSR, refreshCRL,
      ServeFile, Refuse
<1>6. CASE Step(p) /\ ~(CheckRevoked(p) \/ CheckCert(p) \/ CheckClient(p))
  BY <1>1, <1>2, <1>3, <1>6 DEF Step, RecordRevocation, RecordCert, RecordClient, DropClient,
      LiftBlock, ReplaceCert, LockIssuance, WriteKey, WriteCrt, LockCRL, ListRevoked, NumberCRL, WriteCRL,
      LockCache, TakeSnapshot, RaiseSequence, NextSequence, WriteCache, Return
<1>7. CASE RollbackKey(p) \/ Abort(p)
  BY <1>3, <1>7 DEF RollbackKey, Abort
<1> QED
  BY <1>4, <1>5, <1>6, <1>7 DEF Acts

\* A step outside the two sections, and one inside or out of them.
LEMMA HoldsOn ==
    ASSUME TypeInv, NEW p \in Procs, Holds(p), Acts(p)
    PROVE  Holds(p)'
<1>0. /\ lock \in [Locks -> Procs \cup {None}] /\ p # None /\ pc \in [Procs -> Steps]
      /\ "cache" \in Locks /\ "crl" \in Locks /\ "cache" \notin Files /\ "crl" \notin Files
      /\ Files \subseteq Locks
  BY MasterAssumption DEF TypeInv, TypeOK, Locks
<1> DEFINE Inside == HoldsCache \cup HoldsCRL
<1>1. CASE lock' = lock /\ pc[p] \notin Inside \cup {"idle", "lockIssuance"} /\ pc'[p] \notin {"idle", "lockIssuance"}
  BY <1>1 DEF Holds
<1>2. CASE Leave(p)
  BY <1>0, <1>2 DEF Leave, Holds
<1>3. CASE Invoke(p)
  <2>1. lock' = lock
    BY <1>3 DEF Invoke, RunRevokeCert, RunReissueCert, RunIssueCLI, RunDeregisterClient, RunBlockClient,
        RunUnblockClient, RunMaster, RunMasterOnEmptyDB, Register, Enroll, Control
  <2>2. pc[p] = "idle"
    BY <1>3, InvokeStarts
  <2>3. "idle" \notin HoldsCache /\ "idle" \notin HoldsCRL
    BY DEF HoldsCache, HoldsCRL
  <2> QED
    BY <2>1, <2>2, <2>3 DEF Holds
<1>4. CASE CheckRevoked(p) \/ CheckCert(p) \/ CheckClient(p)
  BY <1>0, <1>1, <1>2, <1>4 DEF CheckRevoked, CheckCert, CheckClient, AuthorizeStep, DenyCSR, SignCSR, refreshCRL,
      ServeFile, Refuse, Goto, HoldsCache, HoldsCRL
<1>5. CASE \/ RecordRevocation(p) \/ RecordCert(p) \/ RecordClient(p) \/ DropClient(p)
           \/ LiftBlock(p) \/ ReplaceCert(p) \/ WriteKey(p) \/ WriteCrt(p)
  BY <1>0, <1>1, <1>5 DEF RecordRevocation, RecordCert, RecordClient, DropClient, LiftBlock, ReplaceCert,
      WriteKey, WriteCrt, Goto, HoldsCache, HoldsCRL
<1>6. CASE LockIssuance(p)
  <2>1. /\ pc[p] = "lockIssuance" /\ pc'[p] = "writeKey"
        /\ lock' = [lock EXCEPT ![FileOf(p)] = p]
    BY <1>0, <1>6 DEF LockIssuance, lockFile, Goto
  <2>2. FileOf(p) \in Files
    BY <2>1, FileLocks DEF Unrecorded
  <2>3. lock'["cache"] = lock["cache"] /\ lock'["crl"] = lock["crl"]
    BY <1>0, <2>1, <2>2
  <2>4. "lockIssuance" \notin HoldsCache /\ "lockIssuance" \notin HoldsCRL
    BY DEF HoldsCache, HoldsCRL
  <2> QED
    BY <2>1, <2>3, <2>4 DEF Holds
<1>7. CASE LockCRL(p) \/ ListRevoked(p) \/ NumberCRL(p)
  <2>1. pc[p] \notin HoldsCache \cup {"idle", "lockIssuance"} /\ pc'[p] \in HoldsCRL
    BY <1>0, <1>7 DEF LockCRL, ListRevoked, NumberCRL, Goto, HoldsCache, HoldsCRL
  <2>2. lock' = lock \/ lock' = [lock EXCEPT !["crl"] = p]
    BY <1>7 DEF LockCRL, ListRevoked, NumberCRL, lockFile
  <2>3. lock'["cache"] = lock["cache"] /\ \A f \in Files : lock'[f] = lock[f]
    BY <1>0, <2>2
  <2>4. pc'[p] \notin {"idle", "lockIssuance"}
    BY <2>1 DEF HoldsCRL
  <2> QED
    BY <2>1, <2>3, <2>4 DEF Holds
<1>8. CASE LockCache(p) \/ TakeSnapshot(p) \/ RaiseSequence(p) \/ NextSequence(p)
  <2>1. pc[p] \notin HoldsCRL \cup {"idle", "lockIssuance"} /\ pc'[p] \in HoldsCache
    BY <1>0, <1>8 DEF LockCache, TakeSnapshot, RaiseSequence, NextSequence, Goto, HoldsCache, HoldsCRL
  <2>2. lock' = lock \/ lock' = [lock EXCEPT !["cache"] = p]
    BY <1>8 DEF LockCache, TakeSnapshot, RaiseSequence, NextSequence, lockFile
  <2>3. lock'["crl"] = lock["crl"] /\ \A f \in Files : lock'[f] = lock[f]
    BY <1>0, <2>2
  <2>4. pc'[p] \notin {"idle", "lockIssuance"}
    BY <2>1 DEF HoldsCache
  <2> QED
    BY <2>1, <2>3, <2>4 DEF Holds
<1>9. CASE WriteCRL(p) \/ WriteCache(p)
  <2>1. /\ \/ pc[p] = "writeCRL" /\ lock' = [lock EXCEPT !["crl"] = None]
           \/ pc[p] = "writeCache" /\ lock' = [lock EXCEPT !["cache"] = None]
        /\ pc'[p] \notin {"idle", "lockIssuance"}
    BY <1>0, <1>9 DEF WriteCRL, WriteCache, unlock, Goto
  <2>2. \A f \in Files : lock'[f] = lock[f]
    BY <1>0, <2>1
  <2>3. lock'["cache"] # p /\ lock'["crl"] # p
    <3>1. /\ pc[p] = "writeCRL" => lock["cache"] # p
          /\ pc[p] = "writeCache" => lock["crl"] # p
      BY DEF Holds, HoldsCache, HoldsCRL
    <3>2. CASE pc[p] = "writeCRL" /\ lock' = [lock EXCEPT !["crl"] = None]
      BY <1>0, <3>1, <3>2
    <3>3. CASE pc[p] = "writeCache" /\ lock' = [lock EXCEPT !["cache"] = None]
      BY <1>0, <3>1, <3>3
    <3> QED
      BY <2>1, <3>2, <3>3
  <2> QED
    BY <2>1, <2>2, <2>3 DEF Holds
<1> QED
  BY <1>2, <1>3, <1>4, <1>5, <1>6, <1>7, <1>8, <1>9 DEF Acts, Step, Return, RollbackKey, Abort

\* LockInv is an invariant, with PubInv.
LEMMA LockInvariant == Spec => []LockInv
<1>1. ASSUME Init PROVE LockInv
  <2>1. \A l \in Locks : lock[l] = None
    BY <1>1 DEF Init
  <2>2. "cache" \in Locks /\ "crl" \in Locks /\ Files \subseteq Locks /\ None \notin Procs
    BY MasterAssumption DEF Locks
  <2> QED
    BY <2>1, <2>2 DEF LockInv, Holds
<1>2. PubInv /\ LockInv /\ [Next]_vars => LockInv'
  <2> SUFFICES ASSUME PubInv, LockInv, [Next]_vars PROVE LockInv'
    OBVIOUS
  <2>t. TypeInv
    BY DEF PubInv
  <2>1. CASE UNCHANGED vars
    BY <2>1 DEF vars, LockInv, Holds
  <2>2. ASSUME NEW p \in Procs, Acts(p), NEW q \in Procs PROVE Holds(q)'
    <3>1. CASE q = p
      BY <2>t, <2>2, <3>1, HoldsOn DEF LockInv
    <3>2. CASE q # p
      <4>1. pc'[q] = pc[q]
        BY <2>2, <3>2, StandBy DEF Bystanders
      <4>2. \A l \in Locks : lock'[l] = q => lock[l] = q
        BY <2>t, <2>2, <3>2, LocksTaken
      <4>3. "cache" \in Locks /\ "crl" \in Locks /\ Files \subseteq Locks
        BY DEF Locks
      <4> QED
        BY <4>1, <4>2, <4>3 DEF LockInv, Holds
    <3> QED
      BY <3>1, <3>2
  <2> QED
    BY <2>1, <2>2 DEF Next, Acts, Quiescent, LockInv
<1> QED
  BY <1>1, <1>2, PubInvariant, PTL DEF Spec

\* As long as something is running, something can move: about the order in
\* which the three kinds of locks are requested (lockIssuance before the CRL
\* and the cache, and those one after the other) and about every end of a
\* process giving them back.
THEOREM NeverDeadlocked == Spec => []NoDeadlock
<1>1. ASSUME TypeInv, LockInv PROVE NoDeadlock
  <2> SUFFICES ASSUME NEW p \in Procs, pc[p] # "idle"
               PROVE  \E q \in Procs : pc[q] # "idle" /\ ~Waits(q)
    BY DEF NoDeadlock
  <2>0. /\ lock \in [Locks -> Procs \cup {None}] /\ "cache" \in Locks /\ "crl" \in Locks
        /\ Files \subseteq Locks
    BY <1>1 DEF TypeInv, TypeOK, Locks
  <2>1. ASSUME NEW q \in Procs, pc[q] \in HoldsCache \cup HoldsCRL PROVE pc[q] # "idle" /\ ~Waits(q)
    BY <2>1 DEF HoldsCache, HoldsCRL, Waits
  <2>2. ASSUME lock["cache"] # None \/ lock["crl"] # None
        PROVE  \E q \in Procs : pc[q] # "idle" /\ ~Waits(q)
    <3>1. \E q \in Procs : lock["cache"] = q \/ lock["crl"] = q
      BY <2>0, <2>2
    <3> QED
      BY <1>1, <2>1, <3>1 DEF LockInv, Holds
  <2>3. ASSUME lock["cache"] = None, lock["crl"] = None, Waits(p)
        PROVE  \E q \in Procs : pc[q] # "idle" /\ ~Waits(q)
    <3>1. pc[p] = "lockIssuance" /\ lock[FileOf(p)] # None
      BY <2>3 DEF Waits
    <3>2. FileOf(p) \in Files
      BY <1>1, <3>1, FileLocks DEF Unrecorded
    <3>3. PICK q \in Procs : lock[FileOf(p)] = q
      BY <2>0, <3>1, <3>2
    <3>4. pc[q] \notin {"idle", "lockIssuance"}
      BY <1>1, <3>2, <3>3 DEF LockInv, Holds
    <3>5. ~Waits(q)
      BY <2>3, <3>4 DEF Waits
    <3> QED
      BY <3>4, <3>5
  <2> QED
    BY <2>2, <2>3
<1>2. PubInv => TypeInv
  BY DEF PubInv
<1> QED
  BY <1>1, <1>2, PubInvariant, LockInvariant, PTL

-----------------------------------------------------------------------------
(***************************************************************************)
(* Settling.  As long as nothing has failed, the process that made the     *)
(* latest write is still on its way to the cache or the cache shows it;    *)
(* and either somebody is about to write a CRL that lists the revocations  *)
(* as they are, or the CRL lists them and nobody holds another list.       *)
(***************************************************************************)

CacheSettles ==
    \/ cacheFile.version = version
    \/ \E p \in Procs : pc[p] # "idle" /\ loc[p].wrote = version

WillShow(p) ==
    \/ pc[p] \in {"lockCRL", "ListRevoked"}
    \/ pc[p] \in Listed /\ loc[p].crl.revoked = db.revoked

CRLSettles ==
    \/ \E p \in Procs : WillShow(p)
    \/ /\ crlFile.revoked = db.revoked
       /\ \A p \in Procs : pc[p] \in Listed => loc[p].crl.revoked = db.revoked

SettleInv == used.faults = 0 => CacheSettles /\ CRLSettles

\* A write to the tables by a process that goes on.
Writes(p) == pc'[p] # "idle" /\ loc'[p].wrote = version'

\* A step that neither writes to the tables nor publishes, of a process that
\* goes on.
GoesOn(p) ==
    /\ version' = version /\ cacheFile' = cacheFile
    /\ pc'[p] # "idle" /\ loc'[p].wrote = loc[p].wrote

\* A write is dated with the new version.
LEMMA WriteDates ==
    ASSUME TypeInv, NEW p \in Procs, NEW d, Write(p, d)
    PROVE  loc'[p].wrote = version'
<1>1. loc \in [Procs -> LocTypes]
  BY PubTypes
<1> QED
  BY <1>1, SMT, Z3 DEF Write, LocTypes

\* How a step that does not fail moves the versions.
LEMMA VersionKinds ==
    ASSUME TypeInv, NEW p \in Procs, Invoke(p) \/ Step(p)
    PROVE  \/ Writes(p) \/ GoesOn(p) \/ WriteCache(p) \/ Return(p)
           \/ pc[p] \in Authorizing /\ Refuse(p)
<1>0. pc \in [Procs -> Steps] /\ loc \in [Procs -> LocTypes]
  BY PubTypes
<1>1. ASSUME NEW d, Write(p, d), pc'[p] # "idle" PROVE Writes(p)
  BY <1>1, WriteDates DEF Writes
<1>2. CASE Invoke(p)
  <2>1. pc'[p] # "idle"
    BY <1>2, InvokeStarts
  <2>2. CASE loc' = loc /\ version' = version /\ cacheFile' = cacheFile
    BY <2>1, <2>2 DEF GoesOn
  <2> QED
    BY <1>1, <1>2, <2>1, <2>2 DEF Invoke, RunRevokeCert, RunReissueCert, RunIssueCLI, RunDeregisterClient,
       RunBlockClient, RunUnblockClient, RunMaster, RunMasterOnEmptyDB, Register, Enroll, Control, files
<1>3. CASE CheckRevoked(p) \/ CheckCert(p) \/ CheckClient(p)
  <2>1. pc[p] \in Authorizing
    BY <1>3 DEF CheckRevoked, CheckCert, CheckClient, AuthorizeStep, Authorizing
  <2>2. CASE ~Refuse(p)
    BY <1>0, <1>3, <2>2 DEF CheckRevoked, CheckCert, CheckClient, AuthorizeStep, DenyCSR, SignCSR, refreshCRL,
       ServeFile, Goto, files, GoesOn
  <2> QED
    BY <2>1, <2>2
<1>4. CASE \/ RecordRevocation(p) \/ RecordCert(p) \/ RecordClient(p)
           \/ DropClient(p) \/ LiftBlock(p) \/ ReplaceCert(p)
  <2>1. pc'[p] # "idle"
    BY <1>0, <1>4 DEF RecordRevocation, RecordCert, RecordClient, DropClient, LiftBlock, ReplaceCert, Goto
  <2> QED
    BY <1>1, <1>4, <2>1 DEF RecordRevocation, RecordCert, RecordClient, DropClient, LiftBlock, ReplaceCert
<1>5. CASE \/ LockIssuance(p) \/ WriteCrt(p) \/ LockCRL(p) \/ WriteCRL(p) \/ LockCache(p) \/ RaiseSequence(p)
  BY <1>0, <1>5 DEF LockIssuance, WriteCrt, LockCRL, WriteCRL, LockCache, RaiseSequence, Goto, files, GoesOn
<1>6. CASE WriteKey(p) \/ ListRevoked(p) \/ NumberCRL(p) \/ TakeSnapshot(p) \/ NextSequence(p)
  <2>1. version' = version /\ cacheFile' = cacheFile /\ pc'[p] # "idle"
    BY <1>0, <1>6 DEF WriteKey, ListRevoked, NumberCRL, TakeSnapshot, NextSequence, Goto, files
  <2>2. loc'[p].wrote = loc[p].wrote
    BY <1>0, <1>6, SMT, Z3 DEF WriteKey, ListRevoked, NumberCRL, TakeSnapshot, NextSequence, LocTypes
  <2> QED
    BY <2>1, <2>2 DEF GoesOn
<1> QED
  BY <1>2, <1>3, <1>4, <1>5, <1>6 DEF Step

\* The latest write stays in the cache, or on its way to it.
LEMMA CacheStaysSettled ==
    ASSUME PubInv, CacheSettles, NEW p \in Procs, Invoke(p) \/ Step(p)
    PROVE  CacheSettles'
<1>t. TypeInv /\ View(p) /\ cacheFile.version <= version
  BY DEF PubInv, Published
<1>0. /\ pc \in [Procs -> Steps] /\ version \in Nat /\ cacheFile.version \in Nat
      /\ loc[p].wrote \in Nat /\ loc[p].cache.version \in Nat
  BY <1>t, PubTypes
<1>b. Bystanders(p)
  BY StandBy DEF Acts
<1>1. CASE Writes(p)
  BY <1>1 DEF Writes, CacheSettles
<1>2. CASE GoesOn(p)
  BY <1>b, <1>2 DEF GoesOn, CacheSettles, Bystanders
<1>3. CASE WriteCache(p)
  <2>1. /\ version' = version /\ cacheFile' = loc[p].cache /\ loc' = loc /\ pc'[p] = "return"
        /\ cacheFile.version <= loc[p].cache.version /\ loc[p].cache.version <= version
    BY <1>t, <1>0, <1>3 DEF WriteCache, Goto, View, CacheView, HoldsCache
  <2>2. cacheFile.version = version => cacheFile'.version = version'
    BY <1>0, <2>1, SMT, Z3
  <2> QED
    BY <1>b, <2>1, <2>2 DEF CacheSettles, Bystanders
<1>4. CASE Return(p) \/ (pc[p] \in Authorizing /\ Refuse(p))
  <2>1. version' = version /\ cacheFile' = cacheFile
    BY <1>4 DEF Return, Refuse, files
  <2>2. loc[p].wrote <= cacheFile.version
    <3>1. pc[p] = "return" => loc[p].wrote <= cacheFile.version
      BY <1>t DEF View, CacheView
    <3>2. pc[p] \in Authorizing => loc[p].wrote = 0
      BY <1>t DEF View, WroteView
    <3>3. 0 <= cacheFile.version
      BY <1>0, SMT, Z3
    <3> QED
      BY <1>4, <3>1, <3>2, <3>3 DEF Return
  <2>3. loc[p].wrote = version => cacheFile.version = version
    BY <1>t, <1>0, <2>2, SMT, Z3
  <2> QED
    BY <1>b, <2>1, <2>3 DEF CacheSettles, Bystanders
<1> QED
  BY <1>t, <1>1, <1>2, <1>3, <1>4, VersionKinds

\* A step off the path through WriteCRL.
OffCRL(p) ==
    /\ crlFile' = crlFile /\ db'.revoked = db.revoked
    /\ pc[p] \notin {"lockCRL", "ListRevoked"} \cup Listed
    /\ pc'[p] \notin Listed

\* Only a step that goes to WriteCRL changes the table of revocations.
LEMMA CRLKinds ==
    ASSUME TypeInv, NEW p \in Procs, Invoke(p) \/ Step(p)
    PROVE  \/ OffCRL(p) \/ pc'[p] \in {"lockCRL", "ListRevoked"}
           \/ ListRevoked(p) \/ NumberCRL(p) \/ WriteCRL(p)
<1>0. pc \in [Procs -> Steps] /\ db \in Databases
  BY PubTypes
<1>1. ASSUME KeepsCerts(db', db) \/ db' = db PROVE db'.revoked = db.revoked
  BY <1>1 DEF KeepsCerts
<1>2. CASE Invoke(p) /\ pc'[p] # "lockCRL"
  <2>1. /\ pc[p] \notin {"lockCRL", "ListRevoked"} \cup Listed /\ pc'[p] \notin Listed
    BY <1>2, InvokeStarts DEF Listed
  <2>2. ~RunMasterOnEmptyDB(p)
    BY <1>0, <1>2 DEF RunMasterOnEmptyDB, Goto
  <2>3. db'.revoked = db.revoked
    BY <1>2, <2>2, InvokeKinds DEF Signs, Elsewhere
  <2>4. crlFile' = crlFile
    BY <1>2, <2>2 DEF Invoke, RunRevokeCert, RunReissueCert, RunIssueCLI, RunDeregisterClient, RunBlockClient,
       RunUnblockClient, RunMaster, Register, Enroll, Control, files
  <2> QED
    BY <2>1, <2>3, <2>4 DEF OffCRL
<1>3. CASE CheckRevoked(p) \/ CheckCert(p) \/ CheckClient(p)
  BY <1>0, <1>3 DEF CheckRevoked, CheckCert, CheckClient, AuthorizeStep, DenyCSR, SignCSR, refreshCRL,
     ServeFile, Refuse, Leave, Goto, files, Listed, OffCRL
<1>4. CASE RecordRevocation(p) \/ ReplaceCert(p) \/ LockCRL(p)
  BY <1>0, <1>4 DEF RecordRevocation, ReplaceCert, LockCRL, Goto
<1>5. CASE RecordCert(p) \/ RecordClient(p) \/ DropClient(p) \/ LiftBlock(p)
  <2>1. /\ pc[p] \notin {"lockCRL", "ListRevoked"} \cup Listed /\ pc'[p] \notin Listed
        /\ crlFile' = crlFile
    BY <1>0, <1>5 DEF RecordCert, RecordClient, DropClient, LiftBlock, Goto, files, Listed
  <2>2. db'.revoked = db.revoked
    <3>1. CASE RecordCert(p)
      BY <1>0, <3>1 DEF RecordCert, Write, AddCert, Databases
    <3>2. CASE RecordClient(p) \/ DropClient(p) \/ LiftBlock(p)
      BY <1>0, <1>1, <3>2, StoreKeeps DEF RecordClient, DropClient, LiftBlock, Write
    <3> QED
      BY <1>5, <3>1, <3>2
  <2> QED
    BY <2>1, <2>2 DEF OffCRL
<1>6. CASE RaiseSequence(p) \/ NextSequence(p)
  <2>1. db'.revoked = db.revoked
    BY <1>0, <1>1, <1>6, StoreKeeps DEF RaiseSequence, NextSequence
  <2> QED
    BY <1>0, <1>6, <2>1 DEF RaiseSequence, NextSequence, Goto, files, Listed, OffCRL
<1>7. CASE LockIssuance(p) \/ WriteKey(p) \/ WriteCrt(p) \/ LockCache(p) \/ TakeSnapshot(p)
           \/ WriteCache(p) \/ Return(p)
  BY <1>0, <1>7 DEF LockIssuance, WriteKey, WriteCrt, LockCache, TakeSnapshot, WriteCache, Return,
     Leave, Goto, files, Listed, OffCRL
<1> QED
  BY <1>2, <1>3, <1>4, <1>5, <1>6, <1>7 DEF Step

\* The revocations stay in the CRL, or on their way to it.
LEMMA CRLStaysSettled ==
    ASSUME PubInv, CRLSettles, NEW p \in Procs, Invoke(p) \/ Step(p)
    PROVE  CRLSettles'
<1>t. TypeInv
  BY DEF PubInv
<1>0. pc \in [Procs -> Steps] /\ loc \in [Procs -> LocTypes]
  BY <1>t, PubTypes
<1>b. \A q \in Procs \ {p} : pc'[q] = pc[q] /\ loc'[q] = loc[q]
  BY StandBy DEF Acts, Bystanders
<1>1. CASE pc'[p] \in {"lockCRL", "ListRevoked"}
  BY <1>1 DEF CRLSettles, WillShow
<1>2. CASE OffCRL(p)
  <2>1. ASSUME NEW q \in Procs, WillShow(q) PROVE WillShow(q)'
    <3>1. q # p
      BY <1>2, <2>1 DEF OffCRL, WillShow
    <3> QED
      BY <1>b, <1>2, <2>1, <3>1 DEF OffCRL, WillShow
  <2>2. ASSUME crlFile.revoked = db.revoked,
               \A q \in Procs : pc[q] \in Listed => loc[q].crl.revoked = db.revoked,
               NEW q \in Procs, pc'[q] \in Listed
        PROVE  loc'[q].crl.revoked = db'.revoked
    <3>1. q # p
      BY <1>2, <2>2 DEF OffCRL
    <3> QED
      BY <1>b, <1>2, <2>2, <3>1 DEF OffCRL
  <2> QED
    BY <1>2, <2>1, <2>2 DEF CRLSettles, OffCRL
<1>3. CASE ListRevoked(p)
  <2>1. pc'[p] \in Listed /\ db' = db
    BY <1>0, <1>3 DEF ListRevoked, Goto, Listed
  <2>2. loc'[p].crl.revoked = db.revoked
    BY <1>0, <1>3, SMT, Z3 DEF ListRevoked, LocTypes
  <2> QED
    BY <2>1, <2>2 DEF CRLSettles, WillShow
<1>4. CASE NumberCRL(p)
  <2>1. /\ pc[p] \in Listed /\ pc'[p] \in Listed /\ pc[p] \notin {"lockCRL", "ListRevoked"}
        /\ crlFile' = crlFile /\ db'.revoked = db.revoked
        /\ loc'[p].crl.revoked = loc[p].crl.revoked
    BY <1>t, <1>4, NumberMoves DEF Listed
  <2>2. ASSUME NEW q \in Procs, WillShow(q) PROVE WillShow(q)'
    BY <1>b, <2>1, <2>2 DEF WillShow
  <2>3. ASSUME crlFile.revoked = db.revoked,
               \A q \in Procs : pc[q] \in Listed => loc[q].crl.revoked = db.revoked,
               NEW q \in Procs, pc'[q] \in Listed
        PROVE  loc'[q].crl.revoked = db'.revoked
    BY <1>b, <2>1, <2>3
  <2> QED
    BY <2>1, <2>2, <2>3 DEF CRLSettles
<1>5. CASE WriteCRL(p)
  <2>1. /\ pc[p] = "writeCRL" /\ pc'[p] \notin Listed
        /\ crlFile' = loc[p].crl /\ db' = db
    BY <1>0, <1>5 DEF WriteCRL, Goto, Listed
  <2>2. \A q \in Procs \ {p} : pc'[q] \notin Listed
    BY <1>b, <2>1, OneLister
  <2>3. CASE loc[p].crl.revoked = db.revoked
    BY <2>1, <2>2, <2>3 DEF CRLSettles
  <2>4. CASE loc[p].crl.revoked # db.revoked
    <3>1. pc[p] \in Listed /\ pc[p] \notin {"lockCRL", "ListRevoked"}
      BY <2>1 DEF Listed
    <3>2. PICK q \in Procs : WillShow(q)
      BY <2>4, <3>1 DEF CRLSettles
    <3>3. q # p
      BY <2>4, <3>1, <3>2 DEF WillShow
    <3>4. WillShow(q)'
      BY <1>b, <2>1, <3>2, <3>3 DEF WillShow
    <3> QED
      BY <3>4 DEF CRLSettles
  <2> QED
    BY <2>3, <2>4
<1> QED
  BY <1>t, <1>1, <1>2, <1>3, <1>4, <1>5, CRLKinds

\* A failure is counted for good.
LEMMA FaultsCount ==
    ASSUME TypeInv, NEW p \in Procs, Acts(p), used'.faults = 0
    PROVE  used.faults = 0 /\ (Invoke(p) \/ Step(p))
<1>0. used \in [commands : Nat, faults : Nat, resets : Nat, torn : Nat] /\ used.faults \in Nat
  BY DEF TypeInv, TypeOK
<1>1. ASSUME RollbackKey(p) \/ Abort(p) PROVE FALSE
  <2>1. used'.faults = used.faults + 1
    BY <1>0, <1>1 DEF RollbackKey, Abort
  <2> QED
    BY <1>0, <2>1, SMT, Z3
<1>2. CASE Invoke(p)
  <2>1. \A u, v : /\ used' = [used EXCEPT !.commands = u] => used'.faults = used.faults
                  /\ used' = [used EXCEPT !.resets = v, !.commands = u] => used'.faults = used.faults
    BY <1>0
  <2>2. used'.faults = used.faults
    BY <1>2, <2>1 DEF Invoke, RunRevokeCert, RunReissueCert, RunIssueCLI, RunDeregisterClient, RunBlockClient,
       RunUnblockClient, RunMaster, RunMasterOnEmptyDB, Register, Enroll, Control, Start
  <2> QED
    BY <1>2, <2>2
<1>3. CASE CheckRevoked(p) \/ CheckCert(p) \/ CheckClient(p)
  <2>1. used' = used
    BY <1>3 DEF CheckRevoked, CheckCert, CheckClient, AuthorizeStep, DenyCSR, SignCSR, refreshCRL,
       ServeFile, Refuse
  <2> QED
    BY <1>3, <2>1 DEF Step
<1>4. CASE Step(p) /\ ~(CheckRevoked(p) \/ CheckCert(p) \/ CheckClient(p))
  <2>1. used' = used
    BY <1>4 DEF Step, RecordRevocation, RecordCert, RecordClient, DropClient, LiftBlock, ReplaceCert,
       LockIssuance, WriteKey, WriteCrt, LockCRL, ListRevoked, NumberCRL, WriteCRL, LockCache,
       TakeSnapshot, RaiseSequence, NextSequence, WriteCache, Return
  <2> QED
    BY <1>4, <2>1
<1> QED
  BY <1>1, <1>2, <1>3, <1>4 DEF Acts

\* SettleInv is an invariant, with PubInv.
LEMMA SettleInvariant == Spec => []SettleInv
<1>1. ASSUME Init PROVE SettleInv
  <2>1. cacheFile.version = version /\ crlFile.revoked = db.revoked
    BY <1>1, SMT, Z3 DEF Init, BootstrappedDB, migrate
  <2>2. \A p \in Procs : pc[p] \notin Listed
    BY <1>1 DEF Init, Listed
  <2> QED
    BY <2>1, <2>2 DEF SettleInv, CacheSettles, CRLSettles
<1>2. PubInv /\ SettleInv /\ [Next]_vars => SettleInv'
  <2> SUFFICES ASSUME PubInv, SettleInv, [Next]_vars, used'.faults = 0
               PROVE  CacheSettles' /\ CRLSettles'
    BY DEF SettleInv
  <2>1. CASE UNCHANGED vars
    <3>1. /\ db' = db /\ cacheFile' = cacheFile /\ crlFile' = crlFile /\ pc' = pc /\ loc' = loc
          /\ version' = version /\ used' = used
      BY <2>1 DEF vars, files
    <3> QED
      BY <3>1 DEF SettleInv, CacheSettles, CRLSettles, WillShow
  <2>2. ASSUME NEW p \in Procs, Acts(p) PROVE CacheSettles' /\ CRLSettles'
    <3>1. used.faults = 0 /\ (Invoke(p) \/ Step(p))
      BY <2>2, FaultsCount DEF PubInv
    <3> QED
      BY <3>1, CacheStaysSettled, CRLStaysSettled DEF SettleInv
  <2> QED
    BY <2>1, <2>2 DEF Next, Acts, Quiescent
<1> QED
  BY <1>1, <1>2, PubInvariant, PTL DEF Spec

\* When everything that was started has ended and nothing failed, the cache
\* and the CRL show the tables as they are: about RebuildEncryptedCache after
\* every write and WriteCRL after every revocation, each under its lock.
THEOREM SettlesPublished == Spec => []SettledIsPublished
<1>1. ASSUME PubInv, SettleInv PROVE SettledIsPublished
  <2> SUFFICES ASSUME used.faults = 0, \A p \in Procs : pc[p] = "idle"
               PROVE  SameTables(cacheFile.data, db) /\ crlFile.revoked = db.revoked
    BY DEF SettledIsPublished
  <2>1. cacheFile.version = version
    BY <1>1 DEF SettleInv, CacheSettles
  <2>2. SameTables(cacheFile.data, db)
    BY <1>1, <2>1 DEF PubInv, Published, CacheCoversAcked
  <2>3. \A p \in Procs : ~WillShow(p)
    BY DEF WillShow, Listed
  <2>4. crlFile.revoked = db.revoked
    BY <1>1, <2>3 DEF SettleInv, CRLSettles
  <2> QED
    BY <2>2, <2>4
<1> QED
  BY <1>1, PubInvariant, SettleInvariant, PTL

=============================================================================
