---------------------------- MODULE Replication ----------------------------
(***************************************************************************)
(* The network: one host is the master, the others enroll with it, send it *)
(* pings and pull its cache and its CRL; when it is lost one of them is    *)
(* promoted from the cache it pulled last, and the rest are pointed at it. *)
(*                                                                         *)
(* A client is one event loop, so its requests come one after another, but *)
(* a command on the master, a crash or the pull of another client may fall *)
(* between any two of them.  A master executes a request or a command in   *)
(* one step here, except --revoke, which records the revocation, writes    *)
(* the CRL and rebuilds the cache one after the other and may be stopped   *)
(* in between; module Master has the steps of the others, Activation those *)
(* of a promotion and Migration the delivery of the new address.           *)
(*                                                                         *)
(* One Root CA signs everything and every file in the model verifies under *)
(* it.  A key is named by the serial of the certificate made for it.       *)
(***************************************************************************)
EXTENDS Store, FiniteSets

CONSTANTS
    Founder,        \* the host that was bootstrapped
    Issued,         \* serials of certificates issued at the start
    Enrolled,       \* hosts that have enrolled at the start
    MaxBody,        \* the records that fit into an answer (readBounded)
    None,
    MaxCrashes,     \* bound: crashes
    MaxLosses,      \* bound: lost requests and lost answers
    MaxAdmin,       \* bound: --deregister and --block; an --unblock needs a --block
    MaxRevocations, \* bound: revocations
    MaxRefreshes,   \* bound: CRLs renewed because they are about to expire
    MaxPromotions,  \* bound: promotions
    PingBound       \* bound: the sequence number pings raise without need

Hosts == IPs

ASSUME ReplicationAssumption ==
    /\ Founder \in Hosts
    /\ Issued \subseteq Serials
    /\ Enrolled \subseteq Hosts \ {Founder}
    /\ IsFiniteSet(Issued) /\ IsFiniteSet(Enrolled)
    /\ \E f \in [Enrolled -> Serials \ Issued] : \A g, h \in Enrolled : f[g] = f[h] => g = h
    /\ Targets # {}
    /\ None \notin Hosts \cup Serials
    /\ {MaxBody, MaxCrashes, MaxLosses, MaxAdmin, MaxRevocations, MaxRefreshes, MaxPromotions,
        PingBound} \subseteq Nat

VARIABLES
    config,     \* config.yaml: the mode and master_address
    root,       \* is root-ca.crt there?
    identity,   \* client-identity.key and .crt, as serials
    cacheFile,  \* network-cache.enc
    crlFile,    \* root-ca.crl
    db,         \* natssl.db of a host that is or was a master
    pc,         \* what the host's process does next
    loc,        \* what it holds in memory
    pending,    \* the serial that --revoke on this host has recorded
    listed,     \* and it has written the CRL
    minted,     \* serials the CA will not draw again
    clock,      \* the latest reading of the clock for a CRL
    epoch,      \* the promotion that made the host a master, in order
    acked,      \* the revocations this master has acknowledged
    synced,     \* those its master had acknowledged when the last complete
                \* pull from it began
    registered, \* the master that accepted the last registration
    used        \* the part of the bounds used up

vars == <<config, root, identity, cacheFile, crlFile, db, pc, loc, pending, listed, minted,
          clock, epoch, acked, synced, registered, used>>

-----------------------------------------------------------------------------

NoFile == [seq |-> 0, data |-> BuildSnapshot(migrate)]

NoCRL == [number |-> 0, revoked |-> {}]

\* The requests of a client, in the order of register() and pullOnce.
Requests == {"root", "enroll", "register", "pull_cache", "pull_crl"}

Steps == Requests \cup {"off", "idle", "write_key", "write_crt", "serving"}

TypeOK ==
    /\ config \in [Hosts -> [mode : {"client", "master"}, master : Hosts]]
    /\ root \in [Hosts -> BOOLEAN]
    /\ identity \in [Hosts -> [key : Serials \cup {None}, crt : Serials \cup {None}]]
    /\ cacheFile \in [Hosts -> [seq : Nat, data : Snapshots]]
    /\ crlFile \in [Hosts -> [number : Nat, revoked : SUBSET Serials]]
    /\ db \in [Hosts -> Databases]
    /\ pc \in [Hosts -> Steps]
    /\ loc \in [Hosts -> [pull : BOOLEAN, serial : Serials \cup {None}, acked : SUBSET Serials]]
    /\ pending \in [Hosts -> Serials \cup {None}]
    /\ listed \in [Hosts -> BOOLEAN]
    /\ minted \in SUBSET Serials
    /\ clock \in Nat
    /\ epoch \in [Hosts -> Nat]
    /\ acked \in [Hosts -> SUBSET Serials]
    /\ synced \in [Hosts -> SUBSET Serials]
    /\ registered \in [Hosts -> Hosts \cup {None}]
    /\ used \in [crashes : Nat, losses : Nat, admin : Nat, revocations : Nat, refreshes : Nat,
               promotions : Nat]

\* The serials of the first identities.
SerialOf == CHOOSE f \in [Enrolled -> Serials \ Issued] :
                \A g, h \in Enrolled : f[g] = f[h] => g = h

\* A bootstrapped master that is up, has issued some certificates
\* and enrolled some hosts; each of these, like bootstrap and start, published.
FounderDB ==
    [migrate EXCEPT
        !.clients = Enrolled,
        !.certs = {[serial |-> s, subject |-> CHOOSE t \in Targets : TRUE] : s \in Issued}
                  \cup {[serial |-> SerialOf[h], subject |-> Identity(h)] : h \in Enrolled},
        !.cacheSequence = 2 + Cardinality(Issued) + Cardinality(Enrolled), !.crlNumber = 2]

NoLocals == [pull |-> FALSE, serial |-> None, acked |-> {}]

Init ==
    /\ config = [h \in Hosts |-> [mode |-> IF h = Founder THEN "master" ELSE "client",
                                  master |-> Founder]]
    /\ root = [h \in Hosts |-> h \in Enrolled \cup {Founder}]
    /\ identity = [h \in Hosts |->
          LET s == IF h \in Enrolled THEN SerialOf[h] ELSE None IN [key |-> s, crt |-> s]]
    /\ cacheFile = [h \in Hosts |->
          IF h = Founder
          THEN [seq |-> FounderDB.cacheSequence, data |-> BuildSnapshot(FounderDB)]
          ELSE NoFile]
    /\ crlFile = [h \in Hosts |->
          IF h = Founder THEN [number |-> 2, revoked |-> {}] ELSE NoCRL]
    /\ db = [h \in Hosts |-> IF h = Founder THEN FounderDB ELSE migrate]
    /\ pc = [h \in Hosts |-> IF h = Founder THEN "serving" ELSE "off"]
    /\ loc = [h \in Hosts |-> NoLocals]
    /\ pending = [h \in Hosts |-> None]
    /\ listed = [h \in Hosts |-> FALSE]
    /\ minted = Issued \cup {SerialOf[h] : h \in Enrolled}
    /\ clock = 2
    /\ epoch = [h \in Hosts |-> 0]
    /\ acked = [h \in Hosts |-> {}]
    /\ synced = [h \in Hosts |-> {}]
    /\ registered = [h \in Hosts |-> None]
    /\ used = [crashes |-> 0, losses |-> 0, admin |-> 0, revocations |-> 0, refreshes |-> 0,
               promotions |-> 0]

-----------------------------------------------------------------------------
(* The master's side *)

Master(c) == config[c].master

Serving(h) == pc[h] = "serving"

RevokedSerials(d) == {r.serial : r \in d.revoked}

\* Mutant: a cache that would say the same is not written again.
Rebuild_OnlyChanged(h, d) ==
    LET next == IF cacheFile[h].data = BuildSnapshot(d) THEN d
                ELSE nextCacheSequence(raiseCacheSequence(d, cacheFile[h].seq))
    IN  /\ db' = [db EXCEPT ![h] = next]
        /\ cacheFile' = [cacheFile EXCEPT ![h] =
              [seq |-> next.cacheSequence, data |-> BuildSnapshot(d)]]

\* RebuildEncryptedCache on host h, whose tables are d.
Rebuild(h, d) ==
    LET next == nextCacheSequence(raiseCacheSequence(d, cacheFile[h].seq))
    IN  /\ db' = [db EXCEPT ![h] = next]
        /\ cacheFile' = [cacheFile EXCEPT ![h] =
              [seq |-> next.cacheSequence, data |-> BuildSnapshot(d)]]

\* The tables after WriteCRL, and the file; time has passed since the last.
NumberCRL(d) == nextCRLNumber(d, clock + 1)

CRLOf(d) == [number |-> NumberCRL(d).crlNumber, revoked |-> RevokedSerials(d)]

WriteCRL(h, d) ==
    /\ clock' = clock + 1
    /\ crlFile' = [crlFile EXCEPT ![h] = CRLOf(d)]

\* The key and the certificate on disk belong together (LoadX509KeyPair).
PairLoads(c) == identity[c].crt # None /\ identity[c].key = identity[c].crt

\* authorizeClient: what h answers to the identity of c.
authorizeClient(h, c) ==
    /\ PairLoads(c)
    /\ ~IsBlocked(db[h], c)
    /\ ~IsRevoked(db[h], identity[c].crt)
    /\ HasCert(db[h], identity[c].crt, Identity(c))
    /\ hasClient(db[h], c)

\* The records of a snapshot; an answer carries all of them.
Size(snap) ==
    Cardinality(snap.certs) + Cardinality(snap.revoked)
        + Cardinality(snap.clients) + Cardinality(snap.blacklist)

-----------------------------------------------------------------------------
(* The client's event loop.  register() is the steps root, enroll,         *)
(* write_key, write_crt and register, as far as they are needed; pullOnce  *)
(* is pull_cache and pull_crl.                                             *)

Goto(c, step) == pc' = [pc EXCEPT ![c] = step]

\* Where register() starts: the root CA is fetched only if it is missing, and
\* an identity that loads and verifies locally is used without asking.
Register(c) ==
    Goto(c, IF ~root[c] THEN "root" ELSE IF PairLoads(c) THEN "register" ELSE "enroll")

\* What follows register(), whether it succeeded or not.
AfterRegister(c) == IF loc[c].pull THEN "pull_cache" ELSE "idle"

\* The process starts: register(), then pull().
RunClient(c) ==
    /\ pc[c] = "off"
    /\ config[c].mode = "client"
    /\ Register(c)
    /\ loc' = [loc EXCEPT ![c] = [NoLocals EXCEPT !.pull = TRUE]]
    /\ registered' = [registered EXCEPT ![c] = None]
    /\ UNCHANGED <<config, root, identity, cacheFile, crlFile, db, pending, listed, minted,
                   clock, epoch, acked, synced, used>>

\* Some host holds another cache under a number that the one of m has not
\* passed.
Behind(m) ==
    \E h \in Hosts : cacheFile[h] # cacheFile[m] /\ cacheFile[h].seq >= cacheFile[m].seq

\* The ping ticker fires.  Every ping that is accepted makes the master
\* publish its tables under a new number; once that number is past the bound
\* and past all others, only pings that would change more are considered.
Ping(c) ==
    /\ pc[c] = "idle"
    /\ \/ cacheFile[Master(c)].seq < PingBound \/ Behind(Master(c))
       \/ ~PairLoads(c) \/ ~hasClient(db[Master(c)], c)
    /\ Register(c)
    /\ loc' = [loc EXCEPT ![c] = NoLocals]
    /\ registered' = [registered EXCEPT ![c] = None]
    /\ UNCHANGED <<config, root, identity, cacheFile, crlFile, db, pending, listed, minted,
                   clock, epoch, acked, synced, used>>

\* The sync ticker fires.
Sync(c) ==
    /\ pc[c] = "idle"
    /\ Goto(c, "pull_cache")
    /\ UNCHANGED <<config, root, identity, cacheFile, crlFile, db, loc, pending, listed, minted,
                   clock, epoch, acked, synced, registered, used>>

\* applyMigration accepts the announcement of h, or the administrator edits
\* the address: the client registers with h and pulls from it.
Redirect(c, h) ==
    /\ pc[c] = "idle"
    /\ config[h].mode = "master" /\ epoch[h] > epoch[Master(c)]
    /\ config' = [config EXCEPT ![c].master = h]
    /\ Register(c)
    /\ loc' = [loc EXCEPT ![c] = [NoLocals EXCEPT !.pull = TRUE]]
    /\ registered' = [registered EXCEPT ![c] = None]
    /\ synced' = [synced EXCEPT ![c] = {}]
    /\ UNCHANGED <<root, identity, cacheFile, crlFile, db, pending, listed, minted,
                   clock, epoch, acked, used>>

fetchAndInstallRootCA(c) ==
    /\ pc[c] = "root"
    /\ Serving(Master(c))
    /\ root' = [root EXCEPT ![c] = TRUE]
    /\ Goto(c, IF PairLoads(c) THEN "register" ELSE "enroll")
    /\ UNCHANGED <<config, identity, cacheFile, crlFile, db, loc, pending, listed, minted,
                   clock, epoch, acked, synced, registered, used>>

\* Mutant: the identity is signed and not recorded.
EnrollAtMaster_NotRecorded(c, s) ==
    LET m == Master(c) IN
    /\ pc[c] = "enroll"
    /\ Serving(m) /\ ~IsBlocked(db[m], c)
    /\ minted' = minted \cup {s}
    /\ Rebuild(m, registerClient(db[m], c))

\* POST /acme/register with a CSR: the master signs, records, registers and
\* publishes before it answers.
EnrollAtMaster(c, s) ==
    LET m == Master(c) IN
    /\ pc[c] = "enroll"
    /\ Serving(m) /\ ~IsBlocked(db[m], c)
    /\ minted' = minted \cup {s}
    /\ Rebuild(m, registerClient(AddCert(db[m], s, Identity(c)), c))

FreshSerial == CHOOSE s \in Serials \ minted : TRUE

Enroll(c) ==
    /\ Serials \ minted # {}
    /\ EnrollAtMaster(c, FreshSerial)
    /\ loc' = [loc EXCEPT ![c].serial = FreshSerial]
    /\ Goto(c, "write_key")
    /\ UNCHANGED <<config, root, identity, crlFile, pending, listed, clock, epoch, acked, synced,
                   registered, used>>

\* The identity is verified and its key written, then its certificate.
WriteKey(c) ==
    /\ pc[c] = "write_key"
    /\ identity' = [identity EXCEPT ![c].key = loc[c].serial]
    /\ Goto(c, "write_crt")
    /\ UNCHANGED <<config, root, cacheFile, crlFile, db, loc, pending, listed, minted,
                   clock, epoch, acked, synced, registered, used>>

WriteCrt(c) ==
    /\ pc[c] = "write_crt"
    /\ identity' = [identity EXCEPT ![c].crt = loc[c].serial]
    /\ Goto(c, "register")
    /\ UNCHANGED <<config, root, cacheFile, crlFile, db, loc, pending, listed, minted,
                   clock, epoch, acked, synced, registered, used>>

\* POST /acme/register with an empty object.
RegisterAtMaster(c) ==
    LET m == Master(c) IN
    /\ Serving(m) /\ ~IsBlocked(db[m], c)
    /\ Rebuild(m, registerClient(db[m], c))

RegisterWithMaster(c) ==
    /\ pc[c] = "register"
    /\ RegisterAtMaster(c)
    /\ registered' = [registered EXCEPT ![c] = Master(c)]
    /\ Goto(c, AfterRegister(c))
    /\ UNCHANGED <<config, root, identity, crlFile, loc, pending, listed, minted,
                   clock, epoch, acked, synced, used>>

\* acceptCache refuses a smaller sequence number; an equal one is no error
\* and keeps the old file.
acceptsCache(c, file) == file.seq >= cacheFile[c].seq

acceptCache(c, file) == IF file.seq > cacheFile[c].seq THEN file ELSE cacheFile[c]

\* readBounded lets the answer through and acceptCRL takes it.
acceptsCRL(c, file) ==
    Cardinality(file.revoked) <= MaxBody /\ file.number >= crlFile[c].number

\* GET /sync/cache and acceptCache.
PullCache(c) ==
    LET m == Master(c) IN
    /\ pc[c] = "pull_cache"
    /\ Serving(m) /\ authorizeClient(m, c)
    /\ Size(cacheFile[m].data) <= MaxBody
    /\ acceptsCache(c, cacheFile[m])
    /\ cacheFile' = [cacheFile EXCEPT ![c] = acceptCache(c, cacheFile[m])]
    /\ loc' = [loc EXCEPT ![c].acked = acked[m]]
    /\ Goto(c, "pull_crl")
    /\ UNCHANGED <<config, root, identity, crlFile, db, pending, listed, minted,
                   clock, epoch, acked, synced, registered, used>>

\* GET /sync/crl, with or without the renewal of refreshCRL, and acceptCRL;
\* the master keeps its renewed CRL also when the client cannot take it.
ServeCRL(c, served) ==
    LET m == Master(c)
        taken == acceptsCRL(c, served) IN
    /\ pc[c] = "pull_crl"
    /\ Serving(m) /\ authorizeClient(m, c)
    /\ crlFile' = [crlFile EXCEPT ![m] = served, ![c] = IF taken THEN served ELSE @]
    /\ synced' = [synced EXCEPT ![c] = IF taken THEN loc[c].acked ELSE @]
    /\ loc' = [loc EXCEPT ![c] = NoLocals]
    /\ Goto(c, "idle")
    /\ UNCHANGED <<config, root, identity, cacheFile, pending, listed, minted, epoch, acked, registered>>

PullCRL(c) ==
    LET m == Master(c) IN
    \/ ServeCRL(c, crlFile[m]) /\ UNCHANGED <<db, clock, used>>
    \/ /\ used.refreshes < MaxRefreshes
       /\ used' = [used EXCEPT !.refreshes = @ + 1]
       /\ ServeCRL(c, CRLOf(db[m]))
       /\ db' = [db EXCEPT ![m] = NumberCRL(db[m])]
       /\ clock' = clock + 1

\* The answer the client's request would get, if it arrives.
Granted(c) ==
    LET m == Master(c) IN
    /\ Serving(m)
    /\ pc[c] \in {"enroll", "register"} => ~IsBlocked(db[m], c)
    /\ pc[c] \in {"pull_cache", "pull_crl"} => authorizeClient(m, c)
    /\ pc[c] = "pull_cache" => /\ Size(cacheFile[m].data) <= MaxBody
                               /\ acceptsCache(c, cacheFile[m])

\* The master is down or refuses, or the request is lost on its way: the
\* error is logged and the loop goes on.
RequestFails(c) ==
    /\ pc[c] \in Requests
    /\ \/ ~Granted(c) /\ UNCHANGED used
       \/ /\ Granted(c) /\ used.losses < MaxLosses
          /\ used' = [used EXCEPT !.losses = @ + 1]
    /\ Goto(c, IF pc[c] \in {"pull_cache", "pull_crl"} THEN "idle" ELSE AfterRegister(c))
    /\ loc' = [loc EXCEPT ![c].acked = {}]
    /\ UNCHANGED <<config, root, identity, cacheFile, crlFile, db, pending, listed, minted,
                   clock, epoch, acked, synced, registered>>

\* The master has enrolled or registered the client and the answer is lost.
AnswerLost(c) ==
    /\ used.losses < MaxLosses
    /\ used' = [used EXCEPT !.losses = @ + 1]
    /\ \/ Serials \ minted # {} /\ EnrollAtMaster(c, FreshSerial)
       \/ pc[c] = "register" /\ RegisterAtMaster(c) /\ UNCHANGED minted
    /\ Goto(c, AfterRegister(c))
    /\ UNCHANGED <<config, root, identity, crlFile, loc, pending, listed, clock, epoch, acked, synced,
                   registered>>

-----------------------------------------------------------------------------
(* Commands on the master *)

\* --revoke of any serial that is not revoked yet, also that of a client's
\* identity or one that was never issued (and is not drawn later: serials
\* are 128 random bits; one of those not drawn yet stands for all of them).
\* First the table.
Revoke(m, s) ==
    /\ Serving(m)
    /\ s \notin minted => s = FreshSerial
    /\ pending[m] = None
    /\ ~IsRevoked(db[m], s)
    /\ used.revocations < MaxRevocations
    /\ used' = [used EXCEPT !.revocations = @ + 1]
    /\ db' = [db EXCEPT ![m] = RevokeCert(@, s, "unspecified")]
    /\ pending' = [pending EXCEPT ![m] = s]
    /\ minted' = minted \cup {s}
    /\ UNCHANGED <<config, root, identity, cacheFile, crlFile, pc, loc, listed, clock, epoch,
                   acked, synced, registered>>

\* Mutant: --revoke leaves the CRL as it is.
ListRevocation_NoCRL(m) ==
    /\ pending[m] # None /\ ~listed[m]
    /\ listed' = [listed EXCEPT ![m] = TRUE]
    /\ UNCHANGED <<config, root, identity, cacheFile, crlFile, db, pc, loc, pending, minted, clock,
                   epoch, acked, synced, registered, used>>

\* Then the CRL.
ListRevocation(m) ==
    /\ pending[m] # None /\ ~listed[m]
    /\ WriteCRL(m, db[m])
    /\ db' = [db EXCEPT ![m] = NumberCRL(@)]
    /\ listed' = [listed EXCEPT ![m] = TRUE]
    /\ UNCHANGED <<config, root, identity, cacheFile, pc, loc, pending, minted, epoch, acked,
                   synced, registered, used>>

\* Mutant: --revoke returns when the CRL is written.
PublishRevocation_NoRebuild(m) ==
    /\ pending[m] # None /\ listed[m]
    /\ acked' = [acked EXCEPT ![m] = @ \cup {pending[m]}]
    /\ pending' = [pending EXCEPT ![m] = None]
    /\ listed' = [listed EXCEPT ![m] = FALSE]
    /\ UNCHANGED <<config, root, identity, cacheFile, crlFile, db, pc, loc, minted, clock, epoch,
                   synced, registered, used>>

\* Then the cache, and the command returns.
PublishRevocation(m) ==
    /\ pending[m] # None /\ listed[m]
    /\ Rebuild(m, db[m])
    /\ acked' = [acked EXCEPT ![m] = @ \cup {pending[m]}]
    /\ pending' = [pending EXCEPT ![m] = None]
    /\ listed' = [listed EXCEPT ![m] = FALSE]
    /\ UNCHANGED <<config, root, identity, crlFile, pc, loc, minted, clock, epoch, synced,
                   registered, used>>

\* The command is stopped, or a step of it fails, and the master goes on.
StopRevoke(m) ==
    /\ pending[m] # None
    /\ used.crashes < MaxCrashes
    /\ used' = [used EXCEPT !.crashes = @ + 1]
    /\ pending' = [pending EXCEPT ![m] = None]
    /\ listed' = [listed EXCEPT ![m] = FALSE]
    /\ UNCHANGED <<config, root, identity, cacheFile, crlFile, db, pc, loc, minted, clock, epoch,
                   acked, synced, registered>>

\* --deregister, --block and --unblock.
ChangeRegistry(m, c) ==
    /\ Serving(m)
    /\ \/ /\ used.admin < MaxAdmin
          /\ used' = [used EXCEPT !.admin = @ + 1]
          /\ \/ hasClient(db[m], c) /\ Rebuild(m, RemoveClient(db[m], c))
             \/ Rebuild(m, RemoveClient(BlockIP(db[m], c), c))
       \/ IsBlocked(db[m], c) /\ Rebuild(m, UnblockIP(db[m], c)) /\ UNCHANGED used
    /\ UNCHANGED <<config, root, identity, crlFile, pc, loc, pending, listed, minted, clock, epoch,
                   acked, synced, registered>>

-----------------------------------------------------------------------------
(* Crash, restart and promotion *)

\* The host or its process stops; a command in progress there stops too.
Crash(h) ==
    /\ pc[h] # "off"
    /\ used.crashes < MaxCrashes
    /\ used' = [used EXCEPT !.crashes = @ + 1]
    /\ Goto(h, "off")
    /\ loc' = [loc EXCEPT ![h] = NoLocals]
    /\ pending' = [pending EXCEPT ![h] = None]
    /\ listed' = [listed EXCEPT ![h] = FALSE]
    /\ registered' = [registered EXCEPT ![h] = None]
    /\ UNCHANGED <<config, root, identity, cacheFile, crlFile, db, minted,
                   clock, epoch, acked, synced>>

\* A master that was replaced has been fenced and does not come back.
Fenced(h) == \E g \in Hosts : epoch[g] > epoch[h]

\* The master starts, also for the first time after a promotion: it writes a
\* CRL and a cache and listens.
RunMaster(h) ==
    /\ pc[h] = "off"
    /\ config[h].mode = "master" /\ ~Fenced(h)
    /\ WriteCRL(h, db[h])
    /\ Rebuild(h, NumberCRL(db[h]))
    /\ Goto(h, "serving")
    /\ UNCHANGED <<config, root, identity, loc, pending, listed, minted, epoch, acked, synced,
                   registered, used>>

\* RunPromote on a client whose service is stopped, when its probes find no
\* master: the snapshot of its own cache becomes the database, and a CRL, the
\* configuration and a new cache are written.
RunPromote(c) ==
    LET d == RestoreSnapshot(db[c], cacheFile[c].data, cacheFile[c].seq) IN
    /\ pc[c] \in {"off", "idle"}
    /\ config[c].mode = "client"
    /\ root[c] /\ cacheFile[c].seq # 0
    /\ \A h \in Hosts : ~Serving(h)
    /\ used.promotions < MaxPromotions
    /\ used' = [used EXCEPT !.promotions = @ + 1]
    /\ WriteCRL(c, d)
    /\ Rebuild(c, NumberCRL(d))
    /\ config' = [config EXCEPT ![c] = [mode |-> "master", master |-> c]]
    /\ epoch' = [epoch EXCEPT ![c] = used.promotions + 1]
    /\ acked' = [acked EXCEPT ![c] = synced[c]]
    /\ Goto(c, "off")
    /\ loc' = [loc EXCEPT ![c] = NoLocals]
    /\ UNCHANGED <<root, identity, pending, listed, minted, synced, registered>>

-----------------------------------------------------------------------------

ClientStep(c) ==
    \/ fetchAndInstallRootCA(c) \/ Enroll(c) \/ WriteKey(c) \/ WriteCrt(c)
    \/ RegisterWithMaster(c) \/ PullCache(c) \/ PullCRL(c)

Next ==
    \/ \E c \in Hosts : \/ RunClient(c) \/ Ping(c) \/ Sync(c) \/ ClientStep(c)
                        \/ RequestFails(c) \/ AnswerLost(c) \/ Crash(c)
                        \/ RunMaster(c) \/ RunPromote(c)
                        \/ ListRevocation(c) \/ PublishRevocation(c) \/ StopRevoke(c)
    \/ \E c, h \in Hosts : Redirect(c, h) \/ ChangeRegistry(h, c)
    \/ \E h \in Hosts, s \in Serials : Revoke(h, s)

Spec == Init /\ [][Next]_vars

\* A process starts, goes on, or its request is answered by an error.
Proceed(h) == RunClient(h) \/ RunMaster(h) \/ ClientStep(h) \/ RequestFails(h)

\* A started process goes on; systemd starts a client or a master again; a
\* ticker keeps its tick until the select takes it, and select takes every
\* channel that stays ready (so strong fairness: the loop is busy between).
\* Nobody is obliged to give a command or to promote a host.
FairSpec ==
    /\ Spec
    /\ \A h \in Hosts : /\ WF_vars(Proceed(h))
                        /\ WF_vars(ListRevocation(h) \/ PublishRevocation(h))
                        /\ SF_vars(Ping(h)) /\ SF_vars(Sync(h))

-----------------------------------------------------------------------------
(* Safety *)

IsClient(h) == config[h].mode = "client"

\* No file of a host is ever replaced by an older one, or by another one of
\* the same number, whether it pulls, changes its master or is promoted:
\* acceptCache and acceptCRL refuse smaller numbers, and a promoted host
\* numbers its own files above the ones it pulled (RestoreSnapshot,
\* RebuildEncryptedCache, nextCRLNumber).
FilesMoveForward ==
    [][\A h \in Hosts :
          /\ cacheFile'[h] # cacheFile[h] => cacheFile'[h].seq > cacheFile[h].seq
          /\ crlFile'[h] # crlFile[h] => crlFile'[h].number > crlFile[h].number]_vars

\* A client that has completed a pull holds a snapshot with every revocation
\* that its master had acknowledged when the pull began (pullOnce fetches
\* the cache first, and --revoke returns after the rebuild).  In a network
\* without a promotion, after which an equal number may be another file.
CacheCoversSynced ==
    \A c \in Hosts : IsClient(c) => synced[c] \subseteq RevokedSerials(cacheFile[c].data)

\* "Freshness equals the last successful sync before the outage": a promoted
\* master still knows the revocations that had been acknowledged when its
\* last complete pull began, and those it acknowledged itself.
PromotionKeepsSynced ==
    \A h \in Hosts : ~IsClient(h) => acked[h] \subseteq RevokedSerials(db[h])

\* A client whose last registration was accepted, and which has not been
\* deregistered or blocked since, is let in on the control port unless the
\* certificate of its identity is revoked: its identity on disk loads and is
\* one its master knows.  (A client with a revoked identity goes on to be
\* registered by its pings, and is refused until its identity files are
\* removed.)  About ensureClientIdentity and the order in which the master
\* records and answers, without a promotion, which may restore tables older
\* than an identity.
RegisteredIsAuthorised ==
    \A c \in Hosts : LET m == registered[c] IN
        (/\ m # None /\ IsClient(c)
         /\ hasClient(db[m], c) /\ ~IsBlocked(db[m], c)
         /\ ~IsRevoked(db[m], identity[c].crt))
            => authorizeClient(m, c)

-----------------------------------------------------------------------------
(* Liveness, under FairSpec *)

\* A client of a master that is up, let in or able to become so: not blocked
\* and with no identity, or one its master knows and has not revoked.
Follows(c) ==
    LET m == Master(c) IN
    /\ IsClient(c) /\ Serving(m)
    /\ ~IsBlocked(db[m], c)
    /\ PairLoads(c) => /\ HasCert(db[m], identity[c].crt, Identity(c))
                       /\ ~IsRevoked(db[m], identity[c].crt)

\* Once nothing fails and no command is given, every client that follows a
\* master holds the tables of its cache and the revocations of its CRL, also
\* one whose cache has a higher sequence number than the promoted master
\* starts from: every ping makes the master publish, so its numbers overtake
\* the client's.  The numbers themselves go on growing with the pings, and
\* the client is behind between a ping and its next pull, so this is stated
\* on what the files say.
FollowersConverge ==
    \A c \in Hosts \ {Founder} : LET m == Master(c) IN
        <>[](Follows(c) => /\ cacheFile[c].data = cacheFile[m].data
                           /\ crlFile[c].revoked = crlFile[m].revoked)

\* A client that keeps following its master catches up with all revocations
\* that master has acknowledged: "clients fetch the updated list on their
\* next pull".  One whose command was stopped may never be published: a
\* second attempt is refused (RevocationReachesCRL in module Master).
RevocationReachesFollowers ==
    \A c \in Hosts \ {Founder} :
        Follows(c) ~> (acked[Master(c)] \subseteq crlFile[c].revoked \/ ~Follows(c))

=============================================================================
