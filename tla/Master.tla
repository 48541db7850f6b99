------------------------------- MODULE Master -------------------------------
(***************************************************************************)
(* One NATSSL master: its database, the three kinds of files it publishes  *)
(* (the encrypted cache, the CRL, the issued key pairs), and the processes *)
(* that change them at the same time: the administrator's commands, each a *)
(* process of its own, and the HTTP handlers of the running master.        *)
(*                                                                         *)
(* A process executes one database statement, one file operation or one    *)
(* lock operation per step; everything between two such steps is local to  *)
(* it.  The processes are kept apart only by the code's flock files, one   *)
(* for the cache, one for the CRL and one per issued file.                 *)
(*                                                                         *)
(* version counts the writes to the tables.  It is no state of the code:   *)
(* it dates a snapshot or a CRL by the writes it reflects, and acked by    *)
(* the latest write that a command which returned success had made.        *)
(***************************************************************************)
EXTENDS Store

CONSTANTS
    Procs,          \* command processes and handler goroutines
    Files,          \* base names under issued/
    sanitizeName,   \* the base name of each target
    Loopback,       \* the targets a client may ask for itself
    ConfigClients,  \* the clients listed in the configuration at bootstrap
    Commands,       \* the commands and requests that may be run
    None,
    MaxCommands,    \* bound: commands and requests started
    MaxFaults,      \* bound: crashed processes and failed operations
    MaxResets,      \* bound: losses of the database file
    MaxTick,        \* bound: how far the clock moves between two CRLs
    ClockSteps      \* may the clock be set back?

Handlers == {"register", "enroll", "sign_csr", "sync_cache", "sync_crl"}

Operations ==
    {"revoke", "reissue", "issue", "deregister", "block", "unblock", "master"}
        \cup Handlers

\* The operations that hand out a certificate, and those that write the CRL
\* after a write to the tables.
Issuing == {"reissue", "issue", "enroll", "sign_csr"}
Revoking == {"revoke", "reissue", "master"}

ASSUME MasterAssumption ==
    /\ sanitizeName \in [Targets -> Files]
    /\ Loopback \subseteq Targets
    /\ ConfigClients \subseteq IPs
    /\ Commands \subseteq Operations
    /\ None \notin Procs \cup IPs \cup Subjects \cup Serials
    /\ {"cache", "crl"} \cap Files = {}
    /\ MaxCommands \in Nat /\ MaxFaults \in Nat /\ MaxResets \in Nat
    /\ MaxTick \in Nat \ {0}
    /\ ClockSteps \in BOOLEAN

Locks == {"cache", "crl"} \cup Files

VARIABLES
    db,         \* the SQLite database
    cacheFile,  \* network-cache.enc: the signed envelope and the snapshot inside
    crlFile,    \* root-ca.crl
    issued,     \* issued/<name>.key and .crt, as the serial they belong to
    lock,       \* the holder of each flock
    pc,         \* the next step of each process
    cmd,        \* what each process was asked to do
    loc,        \* what each process holds in memory
    minted,     \* the subject the CA signed each serial for
    delivered,  \* the serials reported or sent to whoever asked for them
    clock,      \* the highest reading of the clock so far
    online,     \* the master listens
    version,    \* writes to the tables so far
    acked,      \* the latest write acknowledged
    used        \* the part of the bounds used up, and how many of the faults
                \* left a key without its certificate

files == <<cacheFile, crlFile, issued>>
vars == <<db, files, lock, pc, cmd, loc, minted, delivered, clock, online, version, acked, used>>

-----------------------------------------------------------------------------

CRLs == [number : Nat, version : Nat, revoked : SUBSET RevokedRecords]

Caches == [seq : Nat, version : Nat, data : Snapshots]

NoCRL == [number |-> 0, version |-> 0, revoked |-> {}]

NoCache == [seq |-> 0, version |-> 0, data |-> BuildSnapshot(migrate)]

Cmd(op, ip, subject, serial) ==
    [op |-> op, ip |-> ip, subject |-> subject, serial |-> serial]

NoCmd == Cmd("none", None, None, None)

NoLocals == [crl |-> NoCRL, cache |-> NoCache, previousKey |-> None, wrote |-> 0]

Steps ==
    {"idle", "RevokeCert", "lockIssuance", "writeKey", "writeCrt",
     "replaceCertificate", "AddCert", "registerClient", "RemoveClient",
     "UnblockIP", "IsRevoked", "CertBySerial", "hasClient",
     "lockCRL", "ListRevoked", "nextCRLNumber", "writeCRL",
     "lockCache", "BuildSnapshot", "raiseCacheSequence", "nextCacheSequence",
     "writeCache", "return"}

TypeOK ==
    /\ db \in Databases
    /\ cacheFile \in Caches
    /\ crlFile \in CRLs
    /\ issued \in [Files -> [key : Serials \cup {None}, crt : Serials \cup {None}]]
    /\ lock \in [Locks -> Procs \cup {None}]
    /\ pc \in [Procs -> Steps]
    /\ cmd \in [Procs -> [op : Operations \cup {"none"}, ip : IPs \cup {None},
                          subject : Subjects \cup {None}, serial : Serials \cup {None}]]
    /\ loc \in [Procs -> [crl : CRLs, cache : Caches,
                          previousKey : Serials \cup {None}, wrote : Nat]]
    /\ minted \in [Serials -> Subjects \cup {None}]
    /\ delivered \in SUBSET Serials
    /\ clock \in Nat
    /\ online \in BOOLEAN
    /\ version \in Nat
    /\ acked \in [cache : Nat, crl : Nat]
    /\ used \in [commands : Nat, faults : Nat, resets : Nat, torn : Nat]

\* A bootstrapped master that is up: the configured clients are registered,
\* and the CRL and the cache were written twice, by RunBootstrap and, before
\* it listened, by RunMaster.
BootstrappedDB ==
    [migrate EXCEPT !.clients = ConfigClients, !.cacheSequence = 2, !.crlNumber = 2]

Init ==
    /\ db = BootstrappedDB
    /\ cacheFile = [seq |-> 2, version |-> 0, data |-> BuildSnapshot(BootstrappedDB)]
    /\ crlFile = [number |-> 2, version |-> 0, revoked |-> {}]
    /\ issued = [f \in Files |-> [key |-> None, crt |-> None]]
    /\ lock = [l \in Locks |-> None]
    /\ pc = [p \in Procs |-> "idle"]
    /\ cmd = [p \in Procs |-> NoCmd]
    /\ loc = [p \in Procs |-> NoLocals]
    /\ minted = [s \in Serials |-> None]
    /\ delivered = {}
    /\ clock = 2
    /\ online = TRUE
    /\ version = 0
    /\ acked = [cache |-> 0, crl |-> 0]
    /\ used = [commands |-> 0, faults |-> 0, resets |-> 0, torn |-> 0]

-----------------------------------------------------------------------------
(* Helpers *)

Goto(p, from, to) ==
    /\ pc[p] = from
    /\ pc' = [pc EXCEPT ![p] = to]

\* A process starts on c with step first.
Start(p, c, first) ==
    /\ c.op \in Commands
    /\ used.commands < MaxCommands
    /\ used' = [used EXCEPT !.commands = @ + 1]
    /\ Goto(p, "idle", first)
    /\ cmd' = [cmd EXCEPT ![p] = c]

\* A write to the tables, dated in the process that makes it.
Write(p, d) ==
    /\ db' = d
    /\ version' = version + 1
    /\ loc' = [loc EXCEPT ![p].wrote = version + 1]

lockFile(p, name) ==
    /\ lock[name] = None
    /\ lock' = [lock EXCEPT ![name] = p]

unlock(p, name) == lock' = [lock EXCEPT ![name] = None]

\* Mutant: an error path that forgets to unlock.
Leave_KeepsLocks(p) ==
    /\ pc' = [pc EXCEPT ![p] = "idle"]
    /\ cmd' = [cmd EXCEPT ![p] = NoCmd]
    /\ loc' = [loc EXCEPT ![p] = NoLocals]
    /\ UNCHANGED lock

\* A process ends, one way or another: its flocks and its memory go.
Leave(p) ==
    /\ pc' = [pc EXCEPT ![p] = "idle"]
    /\ cmd' = [cmd EXCEPT ![p] = NoCmd]
    /\ loc' = [loc EXCEPT ![p] = NoLocals]
    /\ lock' = [l \in Locks |-> IF lock[l] = p THEN None ELSE lock[l]]

\* newSerial draws 128 random bits: a serial nobody has used or named.
Fresh(s) ==
    /\ minted[s] = None
    /\ ~IsRevoked(db, s)
    /\ \A q \in Procs : cmd[q].serial # s

Mint(s, subject) ==
    /\ Fresh(s)
    /\ minted' = [minted EXCEPT ![s] = subject]

-----------------------------------------------------------------------------
(* The administrator's commands.  A command that its first check refuses   *)
(* changes nothing and is not a step.                                      *)

RunRevokeCert(p, s) ==
    /\ ~IsRevoked(db, s)
    /\ Start(p, Cmd("revoke", None, None, s), "RevokeCert")
    /\ UNCHANGED <<db, files, lock, loc, minted, delivered, clock, online, version, acked>>

\* The certificate is signed before the lock is requested.
RunReissueCert(p, t, s) ==
    /\ Mint(s, t)
    /\ Start(p, Cmd("reissue", None, t, s), "lockIssuance")
    /\ UNCHANGED <<db, files, lock, loc, delivered, clock, online, version, acked>>

RunIssueCLI(p, t, s) ==
    /\ Mint(s, t)
    /\ Start(p, Cmd("issue", None, t, s), "lockIssuance")
    /\ UNCHANGED <<db, files, lock, loc, delivered, clock, online, version, acked>>

RunDeregisterClient(p, ip) ==
    /\ hasClient(db, ip)
    /\ Start(p, Cmd("deregister", ip, None, None), "RemoveClient")
    /\ UNCHANGED <<db, files, lock, loc, minted, delivered, clock, online, version, acked>>

RunBlockClient(p, ip) ==
    /\ Start(p, Cmd("block", ip, None, None), "RemoveClient")
    /\ Write(p, BlockIP(db, ip))
    /\ UNCHANGED <<files, lock, minted, delivered, clock, online, acked>>

RunUnblockClient(p, ip) ==
    /\ IsBlocked(db, ip)
    /\ Start(p, Cmd("unblock", ip, None, None), "UnblockIP")
    /\ UNCHANGED <<db, files, lock, loc, minted, delivered, clock, online, version, acked>>

\* The master starts and listens when it has published: after the previous
\* process and its handlers are gone, or beside it, and then it publishes all
\* the same before net.Listen fails.
MasterIsGone == \A q \in Procs : cmd[q].op \notin Handlers \cup {"master"}

RunMaster(p) ==
    /\ Start(p, Cmd("master", None, None, None), "lockCRL")
    /\ \/ MasterIsGone /\ online' = FALSE
       \/ UNCHANGED online
    /\ UNCHANGED <<db, files, lock, loc, minted, delivered, clock, version, acked>>

\* The database file is lost while nothing runs; the master is started and
\* OpenStore creates an empty one.
RunMasterOnEmptyDB(p) ==
    /\ \A q \in Procs : pc[q] = "idle"
    /\ used.resets < MaxResets
    /\ used' = [used EXCEPT !.resets = @ + 1, !.commands = @ + 1]
    /\ "master" \in Commands /\ used.commands < MaxCommands
    /\ Goto(p, "idle", "lockCRL")
    /\ cmd' = [cmd EXCEPT ![p] = Cmd("master", None, None, None)]
    /\ online' = FALSE
    /\ Write(p, migrate)
    /\ UNCHANGED <<files, lock, minted, delivered, clock, acked>>

-----------------------------------------------------------------------------
(* The requests.  Token, network and CSR checks refuse a request without   *)
(* reading the database, so a request here has passed them.                *)

\* POST /acme/register from a host that already holds an identity.
Register(p, ip) ==
    /\ online
    /\ ~IsBlocked(db, ip)
    /\ Start(p, Cmd("register", ip, None, None), "registerClient")
    /\ UNCHANGED <<db, files, lock, loc, minted, delivered, clock, online, version, acked>>

\* POST /acme/register with a CSR: the identity is signed, then recorded.
Enroll(p, ip, s) ==
    /\ online
    /\ ~IsBlocked(db, ip)
    /\ Mint(s, Identity(ip))
    /\ Start(p, Cmd("enroll", ip, Identity(ip), s), "AddCert")
    /\ UNCHANGED <<db, files, lock, loc, delivered, clock, online, version, acked>>

\* A request on the control port, presenting the identity with serial s.
\* authorizeClient makes four queries; the request is refused at the end if
\* one of the answers is wrong, which is the same as refusing it at once.
Control(p, op, ip, s) ==
    /\ online
    /\ op \in {"sign_csr", "sync_cache", "sync_crl"}
    /\ s \in delivered /\ minted[s] = Identity(ip)
    /\ ~IsBlocked(db, ip)
    /\ Start(p, Cmd(op, ip, minted[s], s), "IsRevoked")
    /\ UNCHANGED <<db, files, lock, loc, minted, delivered, clock, online, version, acked>>

Refuse(p) ==
    /\ Leave(p)
    /\ UNCHANGED <<db, files, minted, delivered, clock, online, version, acked, used>>

AuthorizeStep(p, from, answer, to) ==
    /\ pc[p] = from
    /\ \/ /\ answer
          /\ Goto(p, from, to)
          /\ UNCHANGED <<db, files, lock, cmd, loc, minted, delivered, clock, online, version, acked, used>>
       \/ ~answer /\ Refuse(p)

CheckRevoked(p) == AuthorizeStep(p, "IsRevoked", ~IsRevoked(db, cmd[p].serial), "CertBySerial")

CheckCert(p) ==
    AuthorizeStep(p, "CertBySerial", HasCert(db, cmd[p].serial, cmd[p].subject), "hasClient")

\* enforceLoopbackOnly, or SignCSR itself, turns a CSR down.
DenyCSR(p) == cmd[p].op = "sign_csr" /\ Refuse(p)

SignCSR(p) ==
    /\ cmd[p].op = "sign_csr"
    /\ \E s \in Serials, t \in Loopback :
          /\ Mint(s, t)
          /\ cmd' = [cmd EXCEPT ![p].serial = s, ![p].subject = t]
    /\ Goto(p, "hasClient", "AddCert")
    /\ UNCHANGED <<db, files, lock, loc, delivered, clock, online, version, acked, used>>

\* A CRL that is about to expire is written again before it is served.
refreshCRL(p) ==
    /\ cmd[p].op = "sync_crl"
    /\ Goto(p, "hasClient", "lockCRL")
    /\ UNCHANGED <<db, files, lock, cmd, loc, minted, delivered, clock, online, version, acked, used>>

ServeFile(p) ==
    /\ cmd[p].op \in {"sync_cache", "sync_crl"}
    /\ Goto(p, "hasClient", "return")
    /\ UNCHANGED <<db, files, lock, cmd, loc, minted, delivered, clock, online, version, acked, used>>

\* The last query; an authorized request is dispatched to its handler.
CheckClient(p) ==
    /\ pc[p] = "hasClient"
    /\ \/ ~hasClient(db, cmd[p].ip) /\ Refuse(p)
       \/ /\ hasClient(db, cmd[p].ip)
          /\ DenyCSR(p) \/ SignCSR(p) \/ refreshCRL(p) \/ ServeFile(p)

-----------------------------------------------------------------------------
(* Steps on the tables *)

\* Mutant: --revoke forgets the CRL.
RecordRevocation_NoCRL(p) ==
    /\ Goto(p, "RevokeCert", "lockCache")
    /\ Write(p, RevokeCert(db, cmd[p].serial, "unspecified"))
    /\ UNCHANGED <<files, lock, cmd, minted, delivered, clock, online, acked, used>>

RecordRevocation(p) ==
    /\ Goto(p, "RevokeCert", "lockCRL")
    /\ Write(p, RevokeCert(db, cmd[p].serial, "unspecified"))
    /\ UNCHANGED <<files, lock, cmd, minted, delivered, clock, online, acked, used>>

RecordCert(p) ==
    /\ Goto(p, "AddCert", IF cmd[p].op = "enroll" THEN "registerClient" ELSE "lockCache")
    /\ Write(p, AddCert(db, cmd[p].serial, cmd[p].subject))
    /\ UNCHANGED <<files, lock, cmd, minted, delivered, clock, online, acked, used>>

\* Mutant: an enrollment is answered without rebuilding the cache.
RecordClient_NoRebuild(p) ==
    /\ Goto(p, "registerClient", "return")
    /\ Write(p, registerClient(db, cmd[p].ip))
    /\ UNCHANGED <<files, lock, cmd, minted, delivered, clock, online, acked, used>>

RecordClient(p) ==
    /\ Goto(p, "registerClient", "lockCache")
    /\ Write(p, registerClient(db, cmd[p].ip))
    /\ UNCHANGED <<files, lock, cmd, minted, delivered, clock, online, acked, used>>

DropClient(p) ==
    /\ Goto(p, "RemoveClient", "lockCache")
    /\ Write(p, RemoveClient(db, cmd[p].ip))
    /\ UNCHANGED <<files, lock, cmd, minted, delivered, clock, online, acked, used>>

LiftBlock(p) ==
    /\ Goto(p, "UnblockIP", "lockCache")
    /\ Write(p, UnblockIP(db, cmd[p].ip))
    /\ UNCHANGED <<files, lock, cmd, minted, delivered, clock, online, acked, used>>

\* Mutant: --reissue forgets the CRL.
ReplaceCert_NoCRL(p) ==
    /\ Goto(p, "replaceCertificate", "lockCache")
    /\ Write(p, replaceCertificate(db, cmd[p].serial, cmd[p].subject))
    /\ UNCHANGED <<files, lock, cmd, minted, delivered, clock, online, acked, used>>

ReplaceCert(p) ==
    /\ Goto(p, "replaceCertificate", "lockCRL")
    /\ Write(p, replaceCertificate(db, cmd[p].serial, cmd[p].subject))
    /\ UNCHANGED <<files, lock, cmd, minted, delivered, clock, online, acked, used>>

-----------------------------------------------------------------------------
(* The issued files: lockIssuance, then the key, then the certificate      *)

FileOf(p) == sanitizeName[cmd[p].subject]

\* Mutant: the files are written without the issuance lock.
LockIssuance_Unlocked(p) ==
    /\ Goto(p, "lockIssuance", "writeKey")
    /\ UNCHANGED <<db, files, lock, cmd, loc, minted, delivered, clock, online, version, acked, used>>

LockIssuance(p) ==
    /\ Goto(p, "lockIssuance", "writeKey")
    /\ lockFile(p, FileOf(p))
    /\ UNCHANGED <<db, files, cmd, loc, minted, delivered, clock, online, version, acked, used>>

WriteKey(p) ==
    /\ Goto(p, "writeKey", "writeCrt")
    /\ loc' = [loc EXCEPT ![p].previousKey = issued[FileOf(p)].key]
    /\ issued' = [issued EXCEPT ![FileOf(p)].key = cmd[p].serial]
    /\ UNCHANGED <<db, cacheFile, crlFile, lock, cmd, minted, delivered, clock, online, version, acked, used>>

WriteCrt(p) ==
    /\ Goto(p, "writeCrt", IF cmd[p].op = "reissue" THEN "replaceCertificate" ELSE "AddCert")
    /\ issued' = [issued EXCEPT ![FileOf(p)].crt = cmd[p].serial]
    /\ UNCHANGED <<db, cacheFile, crlFile, lock, cmd, loc, minted, delivered, clock, online, version, acked, used>>

\* Mutant: the new key stays when the certificate cannot be written.
RollbackKey_KeepsKey(p) ==
    /\ pc[p] = "writeCrt"
    /\ used.faults < MaxFaults
    /\ used' = [used EXCEPT !.faults = @ + 1]
    /\ Leave(p)
    /\ UNCHANGED <<db, files, minted, delivered, clock, online, version, acked>>

\* Writing the certificate fails: the previous key is put back, or the new
\* one removed, and the command ends.
RollbackKey(p) ==
    /\ pc[p] = "writeCrt"
    /\ used.faults < MaxFaults
    /\ used' = [used EXCEPT !.faults = @ + 1]
    /\ issued' = [issued EXCEPT ![FileOf(p)].key = loc[p].previousKey]
    /\ Leave(p)
    /\ UNCHANGED <<db, cacheFile, crlFile, minted, delivered, clock, online, version, acked>>

-----------------------------------------------------------------------------
(* WriteCRL: list, number and write under the lock of the CRL              *)

LockCRL(p) ==
    /\ Goto(p, "lockCRL", "ListRevoked")
    /\ lockFile(p, "crl")
    /\ UNCHANGED <<db, files, cmd, loc, minted, delivered, clock, online, version, acked, used>>

ListRevoked(p) ==
    /\ Goto(p, "ListRevoked", "nextCRLNumber")
    /\ loc' = [loc EXCEPT ![p].crl =
                  [number |-> 0, version |-> version, revoked |-> db.revoked]]
    /\ UNCHANGED <<db, files, lock, cmd, minted, delivered, clock, online, version, acked, used>>

Readings == IF ClockSteps THEN 1 .. (clock + MaxTick) ELSE (clock + 1) .. (clock + MaxTick)

NumberCRL(p) ==
    /\ Goto(p, "nextCRLNumber", "writeCRL")
    /\ \E now \in Readings :
          /\ clock' = Larger(clock, now)
          /\ db' = nextCRLNumber(db, now)
          /\ loc' = [loc EXCEPT ![p].crl.number = db'.crlNumber]
    /\ UNCHANGED <<files, lock, cmd, minted, delivered, online, version, acked, used>>

\* Mutant: the command ends with the CRL.
WriteCRL_NoRebuild(p) ==
    /\ Goto(p, "writeCRL", "return")
    /\ crlFile' = loc[p].crl
    /\ unlock(p, "crl")
    /\ UNCHANGED <<db, cacheFile, issued, cmd, loc, minted, delivered, clock, online, version, acked, used>>

WriteCRL(p) ==
    /\ Goto(p, "writeCRL", IF cmd[p].op = "sync_crl" THEN "return" ELSE "lockCache")
    /\ crlFile' = loc[p].crl
    /\ unlock(p, "crl")
    /\ UNCHANGED <<db, cacheFile, issued, cmd, loc, minted, delivered, clock, online, version, acked, used>>

-----------------------------------------------------------------------------
(* RebuildEncryptedCache: snapshot, number and write under its lock        *)

LockCache(p) ==
    /\ Goto(p, "lockCache", "BuildSnapshot")
    /\ lockFile(p, "cache")
    /\ UNCHANGED <<db, files, cmd, loc, minted, delivered, clock, online, version, acked, used>>

TakeSnapshot(p) ==
    /\ Goto(p, "BuildSnapshot", "raiseCacheSequence")
    /\ loc' = [loc EXCEPT ![p].cache =
                  [seq |-> 0, version |-> version, data |-> BuildSnapshot(db)]]
    /\ UNCHANGED <<db, files, lock, cmd, minted, delivered, clock, online, version, acked, used>>

RaiseSequence(p) ==
    /\ Goto(p, "raiseCacheSequence", "nextCacheSequence")
    /\ db' = raiseCacheSequence(db, cacheFile.seq)
    /\ UNCHANGED <<files, lock, cmd, loc, minted, delivered, clock, online, version, acked, used>>

NextSequence(p) ==
    /\ Goto(p, "nextCacheSequence", "writeCache")
    /\ db' = nextCacheSequence(db)
    /\ loc' = [loc EXCEPT ![p].cache.seq = db'.cacheSequence]
    /\ UNCHANGED <<files, lock, cmd, minted, delivered, clock, online, version, acked, used>>

WriteCache(p) ==
    /\ Goto(p, "writeCache", "return")
    /\ cacheFile' = loc[p].cache
    /\ unlock(p, "cache")
    /\ UNCHANGED <<db, crlFile, issued, cmd, loc, minted, delivered, clock, online, version, acked, used>>

-----------------------------------------------------------------------------

\* The command reports success, the handler answers 200, the master listens
\* if no other does.
Return(p) ==
    /\ pc[p] = "return"
    /\ acked' = [cache |-> Larger(acked.cache, loc[p].wrote),
                 crl |-> IF cmd[p].op \in Revoking
                         THEN Larger(acked.crl, loc[p].wrote) ELSE acked.crl]
    /\ online' = (online \/ cmd[p].op = "master")
    /\ delivered' = IF cmd[p].op \in Issuing THEN delivered \cup {cmd[p].serial}
                    ELSE delivered
    /\ Leave(p)
    /\ UNCHANGED <<db, files, minted, clock, version, used>>

\* The process dies, or a statement or a file operation returns an error: in
\* both cases what is done stays done and the rest is not tried.
Abort(p) ==
    /\ pc[p] # "idle"
    /\ used.faults < MaxFaults
    /\ used' = [used EXCEPT !.faults = @ + 1,
                            !.torn = IF pc[p] = "writeCrt" THEN @ + 1 ELSE @]
    /\ Leave(p)
    /\ UNCHANGED <<db, files, minted, delivered, clock, online, version, acked>>

\* Nothing is running, and nothing need be run.
Quiescent ==
    /\ \A p \in Procs : pc[p] = "idle"
    /\ UNCHANGED vars

Invoke(p) ==
    \/ \E s \in Serials : RunRevokeCert(p, s)
    \/ \E t \in Targets, s \in Serials : RunReissueCert(p, t, s)
    \/ \E t \in Targets, s \in Serials : RunIssueCLI(p, t, s)
    \/ \E ip \in IPs : RunDeregisterClient(p, ip)
    \/ \E ip \in IPs : RunBlockClient(p, ip)
    \/ \E ip \in IPs : RunUnblockClient(p, ip)
    \/ RunMaster(p)
    \/ RunMasterOnEmptyDB(p)
    \/ \E ip \in IPs : Register(p, ip)
    \/ \E ip \in IPs, s \in Serials : Enroll(p, ip, s)
    \/ \E op \in Handlers, ip \in IPs, s \in Serials : Control(p, op, ip, s)

Step(p) ==
    \/ CheckRevoked(p) \/ CheckCert(p) \/ CheckClient(p)
    \/ RecordRevocation(p) \/ RecordCert(p) \/ RecordClient(p)
    \/ DropClient(p) \/ LiftBlock(p) \/ ReplaceCert(p)
    \/ LockIssuance(p) \/ WriteKey(p) \/ WriteCrt(p)
    \/ LockCRL(p) \/ ListRevoked(p) \/ NumberCRL(p) \/ WriteCRL(p)
    \/ LockCache(p) \/ TakeSnapshot(p) \/ RaiseSequence(p) \/ NextSequence(p) \/ WriteCache(p)
    \/ Return(p)

Next ==
    \/ \E p \in Procs : Invoke(p) \/ Step(p) \/ RollbackKey(p) \/ Abort(p)
    \/ Quiescent

Spec == Init /\ [][Next]_vars

\* A process that can move does: the kernel and the Go scheduler run every
\* process, and SQLite waits for a busy database.  Nobody is obliged to
\* start a command.
FairSpec == Spec /\ \A p \in Procs : WF_vars(Step(p))

\* The administrator also gives the revoke command again as long as it is
\* accepted.
RetrySpec ==
    FairSpec /\ \A s \in Serials : WF_vars(\E p \in Procs : RunRevokeCert(p, s))

-----------------------------------------------------------------------------
(* Safety *)

SameTables(snap, d) ==
    /\ snap.clients = d.clients
    /\ snap.certs = d.certs
    /\ snap.revoked = d.revoked
    /\ snap.blacklist = d.blacklist

\* When a command has reported success its change is in the published cache,
\* whatever ran beside it and whatever failed before it: the cache is at
\* least as new as every acknowledged write, and one that reflects the
\* latest write is the tables.  About the snapshot being taken under the
\* cache's lock (RebuildEncryptedCache) after the command's own write.
CacheCoversAcked ==
    /\ acked.cache <= cacheFile.version
    /\ cacheFile.version = version => SameTables(cacheFile.data, db)

\* The same for the CRL and the commands that revoke (WriteCRL in
\* RunRevokeCert and RunReissueCert).
CRLCoversAcked ==
    /\ acked.crl <= crlFile.version
    /\ crlFile.version = version => crlFile.revoked = db.revoked

\* A CRL never replaces one with a larger number, for a client would refuse
\* it (acceptCRL), and never drops a revocation.  Numbers survive the loss
\* of the database because they are floored by the clock (nextCRLNumber),
\* so only a loss and a clock set back together may break them; revocations
\* do not survive it.
CRLMovesForward ==
    [][/\ (used.resets = 0 \/ ~ClockSteps) => crlFile'.number > crlFile.number
       /\ used.resets = 0 => crlFile.revoked \subseteq crlFile'.revoked]_crlFile

\* The certificate in issued/ is never one that a reissue has superseded,
\* however many commands for names that share a file run and fail: the new
\* files are written before replaceCertificate, under one lock.
OnDiskNotSuperseded ==
    \A f \in Files :
        [serial |-> issued[f].crt, reason |-> "superseded"] \notin db.revoked

\* Between commands the key and the certificate on disk belong together,
\* unless a process died between the two renames: a failed second write
\* takes the first one back (writeIssuedFiles).
OnDiskPairMatches ==
    used.torn = 0 =>
        \A f \in Files : lock[f] = None => issued[f].key = issued[f].crt

\* A subject with a certificate has one that no reissue has superseded:
\* replaceCertificate revokes the others and inserts the new one together.
SubjectKeepsActiveCert ==
    \A c \in db.certs :
        \E k \in db.certs :
            /\ k.subject = c.subject
            /\ [serial |-> k.serial, reason |-> "superseded"] \notin db.revoked

\* A certificate that somebody was given is in the published cache, so that
\* the master recovered from it knows the certificate: the handlers answer,
\* and the commands report, after AddCert and RebuildEncryptedCache.
DeliveredIsPublished ==
    used.resets = 0 =>
        \A s \in delivered : [serial |-> s, subject |-> minted[s]] \in cacheFile.data.certs

\* When everything that was started has ended and nothing failed, the cache
\* and the CRL show the tables as they are: the process that made the latest
\* write publishes after it, and nobody publishes an older state over it.
SettledIsPublished ==
    used.faults = 0 /\ (\A p \in Procs : pc[p] = "idle") =>
        SameTables(cacheFile.data, db) /\ crlFile.revoked = db.revoked

\* p waits for a lock that somebody has.
Waits(p) ==
    \/ pc[p] = "lockIssuance" /\ lock[FileOf(p)] # None
    \/ pc[p] = "lockCRL" /\ lock["crl"] # None
    \/ pc[p] = "lockCache" /\ lock["cache"] # None

\* The processes never all wait for each other: the lock of an issued file
\* is requested before the other two and those are held one at a time, and a
\* process that ends, or fails, leaves no lock behind.
NoDeadlock ==
    (\E p \in Procs : pc[p] # "idle") => \E p \in Procs : pc[p] # "idle" /\ ~Waits(p)

\* The published files and the acknowledgements behave as Publication says.
Promise == INSTANCE Publication WITH
    cache <- [seq |-> cacheFile.seq, version |-> cacheFile.version],
    crl <- crlFile.version

Publishes == Promise!Spec

\* No client both blocked and registered once nothing is running: --block
\* "drops it from the registry" and keeps it out "until --unblock".
BlockedStayOut ==
    (\A p \in Procs : pc[p] = "idle") => db.blacklist \cap db.clients = {}

-----------------------------------------------------------------------------
(* Liveness, under FairSpec *)

\* Every command and request ends: no set of them waits for each other's
\* locks, and a failed one leaves no lock behind.
EveryProcessEnds == \A p \in Procs : pc[p] # "idle" ~> pc[p] = "idle"

\* A recorded revocation gets into the published CRL as long as nothing
\* fails, whichever commands run beside the one that recorded it.
RevocationIsPublished ==
    \A s \in Serials :
        IsRevoked(db, s) ~> (used.faults > 0 \/ \E r \in crlFile.revoked : r.serial = s)

\* A recorded revocation gets into the published CRL.
RevocationReachesCRL ==
    \A s \in Serials : IsRevoked(db, s) ~> \E r \in crlFile.revoked : r.serial = s

=============================================================================
