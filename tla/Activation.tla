----------------------------- MODULE Activation -----------------------------
(***************************************************************************)
(* How a host becomes a master: --bootstrap on a fresh host,               *)
(* --promote-to-master on a client, and the start of the master itself,    *)
(* all on one data directory.  Several commands may run at once, and each  *)
(* may be stopped, or fail and return, between any two of its writes; the  *)
(* administrator may then give any command again.                          *)
(*                                                                         *)
(* A Root CA and the recovery key generated with it are named by a number; *)
(* Network is the one of the network the host was a client of.  Tables, a  *)
(* CRL and a snapshot are the set of the kinds of records they hold.  The  *)
(* safety probes of RunPromote concern the old master, which is fenced     *)
(* here; module Replication has it.                                        *)
(***************************************************************************)
EXTENDS Naturals

CONSTANTS
    Procs,
    None,
    MaxNames,   \* bound: Root CAs generated
    MaxStops    \* bound: commands that stop early

\* The kinds of records in the tables, a CRL or a snapshot.
Records == SUBSET {"configured", "network"}

ASSUME ActivationAssumption ==
    /\ None \notin Procs \cup Nat
    /\ MaxNames \in Nat /\ MaxStops \in Nat

ASSUME NoneIsNoRecords == \A r \in Records : r # None

VARIABLES
    conf,       \* config.yaml: mode and recovery_public_key
    cert,       \* root-ca.crt
    key,        \* root-ca.key
    db,         \* natssl.db
    crl,        \* root-ca.crl
    cache,      \* network-cache.enc: its signer, its recovery key, its records
    lock,       \* holders of the lock files
    pc,
    mem,        \* a command's own copy of the configuration
    loc,        \* the CA a command has generated or restored, and the records
    printed,    \* the seed phrases that were shown
    names,      \* Root CAs generated so far
    stops

disk == <<conf, cert, key, db, crl, cache>>

vars == <<disk, lock, pc, mem, loc, printed, names, stops>>

-----------------------------------------------------------------------------

Network == 0

Names == 0 .. MaxNames

Configs == [mode : {"client", "master"}, recovery : Names \cup {None}]

Locks == {"bootstrap", "promotion"}

Steps ==
    {"off", "serving"}
    \cup {"b_lock", "b_check", "b_cert", "b_key", "b_config", "b_store", "b_crl", "b_cache", "b_print"}
    \cup {"p_lock", "p_verify", "p_cert", "p_key", "p_restore", "p_crl", "p_config", "p_cache"}
    \cup {"m_load", "m_crl", "m_cache", "m_listen"}

TypeOK ==
    /\ conf \in Configs
    /\ cert \in Names \cup {None} /\ key \in Names \cup {None}
    /\ db \in Records \cup {None} /\ crl \in Records \cup {None}
    /\ cache \in [ca : Names, recovery : Names, data : Records] \cup {None}
    /\ lock \in [Locks -> Procs \cup {None}]
    /\ pc \in [Procs -> Steps]
    /\ mem \in [Procs -> Configs]
    /\ loc \in [Procs -> [ca : Names \cup {None}, seed : Names \cup {None}, data : Records]]
    /\ printed \in SUBSET Names
    /\ names \in Names
    /\ stops \in 0 .. MaxStops

NoLocals == [ca |-> None, seed |-> None, data |-> {}]

\* A fresh host, or a client with or without a cache it has pulled.
Init ==
    /\ \/ /\ conf = [mode |-> "master", recovery |-> None]
          /\ cert = None /\ crl = None /\ cache = None /\ printed = {}
       \/ /\ conf = [mode |-> "client", recovery |-> Network]
          /\ cert = Network /\ printed = {Network}
          /\ \/ cache = None /\ crl = None
             \/ /\ cache = [ca |-> Network, recovery |-> Network, data |-> {"network"}]
                /\ crl = {"network"}
    /\ key = None /\ db = None
    /\ lock = [l \in Locks |-> None]
    /\ pc = [p \in Procs |-> "off"]
    /\ mem = [p \in Procs |-> conf]
    /\ loc = [p \in Procs |-> NoLocals]
    /\ names = 0 /\ stops = 0

-----------------------------------------------------------------------------
(* Commands *)

Goto(p, step) == pc' = [pc EXCEPT ![p] = step]

\* The deferred unlocks.
Release(p) == lock' = [l \in Locks |-> IF lock[l] = p THEN None ELSE lock[l]]

\* main loads the configuration and dispatches on the mode.  --mode on the
\* command line comes before the configured one, so that every command can be
\* given on every host; the configuration loaded stays as it is.
Start(p, step) ==
    /\ pc[p] = "off"
    /\ Goto(p, step)
    /\ mem' = [mem EXCEPT ![p] = conf]

StartBootstrap(p) ==
    /\ Start(p, "b_lock")
    /\ loc' = [loc EXCEPT ![p] = NoLocals]
    /\ UNCHANGED <<disk, lock, printed, names, stops>>

StartMaster(p) ==
    /\ Start(p, "m_load")
    /\ loc' = [loc EXCEPT ![p] = NoLocals]
    /\ UNCHANGED <<disk, lock, printed, names, stops>>

\* The seed typed is the network's or another.
StartPromote(p, seed) ==
    /\ Start(p, "p_lock")
    /\ loc' = [loc EXCEPT ![p] = [NoLocals EXCEPT !.seed = seed]]
    /\ UNCHANGED <<disk, lock, printed, names, stops>>

\* A command refuses: nothing on disk changes.
Refuse(p) ==
    /\ Goto(p, "off")
    /\ Release(p)
    /\ UNCHANGED <<disk, mem, loc, printed, names, stops>>

\* The process is killed, or a write fails and the command returns.
Stop(p) ==
    /\ pc[p] # "off"
    /\ stops < MaxStops
    /\ stops' = stops + 1
    /\ Goto(p, "off")
    /\ Release(p)
    /\ UNCHANGED <<disk, mem, loc, printed, names>>

\* Mutant: the lock is not waited for.
lockFile_Unlocked(p, l) == lock' = lock

lockFile(p, l) == lock[l] = None /\ lock' = [lock EXCEPT ![l] = p]

-----------------------------------------------------------------------------
(* Writes the commands share *)

WriteCRL == crl' = db

\* RebuildEncryptedCache by p, holding the given CA.
RebuildEncryptedCache(p, ca) ==
    cache' = [ca |-> ca, recovery |-> mem[p].recovery, data |-> db]

\* Save writes the command's copy.
Save(p, c) ==
    /\ mem' = [mem EXCEPT ![p] = c]
    /\ conf' = c

-----------------------------------------------------------------------------
(* RunBootstrap *)

BootstrapLock(p) ==
    /\ pc[p] = "b_lock"
    /\ lockFile(p, "bootstrap")
    /\ Goto(p, "b_check")
    /\ UNCHANGED <<disk, mem, loc, printed, names, stops>>

\* Mutant: only the key is looked for.
BootstrapCheck_KeyOnly(p) ==
    /\ pc[p] = "b_check"
    /\ IF key # None
       THEN Refuse(p)
       ELSE /\ names < MaxNames
            /\ names' = names + 1
            /\ loc' = [loc EXCEPT ![p].ca = names + 1]
            /\ Goto(p, "b_cert")
            /\ UNCHANGED <<disk, lock, mem, printed, stops>>

\* Both files must be missing; then a CA is generated.
BootstrapCheck(p) ==
    /\ pc[p] = "b_check"
    /\ IF key # None \/ cert # None
       THEN Refuse(p)
       ELSE /\ names < MaxNames
            /\ names' = names + 1
            /\ loc' = [loc EXCEPT ![p].ca = names + 1]
            /\ Goto(p, "b_cert")
            /\ UNCHANGED <<disk, lock, mem, printed, stops>>

\* SaveToFiles, in a bootstrap and in a promotion: the certificate, the key.
SaveCert(p) ==
    /\ pc[p] \in {"b_cert", "p_cert"}
    /\ cert' = loc[p].ca
    /\ Goto(p, IF pc[p] = "b_cert" THEN "b_key" ELSE "p_key")
    /\ UNCHANGED <<conf, key, db, crl, cache, lock, mem, loc, printed, names, stops>>

SaveKey(p) ==
    /\ pc[p] \in {"b_key", "p_key"}
    /\ key' = loc[p].ca
    /\ Goto(p, IF pc[p] = "b_key" THEN "b_config" ELSE "p_restore")
    /\ UNCHANGED <<conf, cert, db, crl, cache, lock, mem, loc, printed, names, stops>>

\* GenerateRecovery; the public key goes into the configuration.
BootstrapConfig(p) ==
    /\ pc[p] = "b_config"
    /\ Save(p, [mode |-> "master", recovery |-> loc[p].ca])
    /\ Goto(p, "b_store")
    /\ UNCHANGED <<cert, key, db, crl, cache, lock, loc, printed, names, stops>>

\* OpenStore, and AddClient for the configured clients.
BootstrapStore(p) ==
    /\ pc[p] = "b_store"
    /\ db' = (IF db = None THEN {} ELSE db) \cup {"configured"}
    /\ Goto(p, "b_crl")
    /\ UNCHANGED <<conf, cert, key, crl, cache, lock, mem, loc, printed, names, stops>>

BootstrapCRL(p) ==
    /\ pc[p] = "b_crl"
    /\ WriteCRL
    /\ Goto(p, "b_cache")
    /\ UNCHANGED <<conf, cert, key, db, cache, lock, mem, loc, printed, names, stops>>

\* Mutant: a cache that is there already is an error.
BootstrapCache_OnlyFirst(p) ==
    /\ pc[p] = "b_cache"
    /\ IF cache # None
       THEN Refuse(p)
       ELSE /\ RebuildEncryptedCache(p, loc[p].ca)
            /\ Goto(p, "b_print")
            /\ UNCHANGED <<conf, cert, key, db, crl, lock, mem, loc, printed, names, stops>>

BootstrapCache(p) ==
    /\ pc[p] = "b_cache"
    /\ RebuildEncryptedCache(p, loc[p].ca)
    /\ Goto(p, "b_print")
    /\ UNCHANGED <<conf, cert, key, db, crl, lock, mem, loc, printed, names, stops>>

\* The seed phrase is shown, for the only time.
BootstrapPrint(p) ==
    /\ pc[p] = "b_print"
    /\ printed' = printed \cup {loc[p].ca}
    /\ Goto(p, "off")
    /\ Release(p)
    /\ UNCHANGED <<disk, mem, loc, names, stops>>

-----------------------------------------------------------------------------
(* restoreMasterState, then RunMaster in the same process *)

PromotionLock(p) ==
    /\ pc[p] = "p_lock"
    /\ lockFile(p, "promotion")
    /\ Goto(p, "p_verify")
    /\ UNCHANGED <<disk, mem, loc, printed, names, stops>>

\* Mutant: the certificate must be missing too, as for a bootstrap.
Recoverable_NoCert(p) ==
    /\ loc[p].seed # None /\ loc[p].seed = mem[p].recovery
    /\ cache # None /\ cert = None
    /\ cache.recovery = loc[p].seed
    /\ key = None

\* The checks before anything is written: the seed fits the configuration
\* and opens a cache signed by the local Root CA, and there is no CA key.
Recoverable(p) ==
    /\ loc[p].seed # None /\ loc[p].seed = mem[p].recovery
    /\ cache # None /\ cert # None
    /\ cache.ca = cert
    /\ cache.recovery = loc[p].seed
    /\ key = None

PromotionVerify(p) ==
    /\ pc[p] = "p_verify"
    /\ IF ~Recoverable(p)
       THEN Refuse(p)
       ELSE /\ loc' = [loc EXCEPT ![p].ca = cache.ca, ![p].data = cache.data]
            /\ Goto(p, "p_cert")
            /\ UNCHANGED <<disk, lock, mem, printed, names, stops>>

\* Mutant: the error of RestoreSnapshot is ignored.
PromotionRestore_ErrorIgnored(p) ==
    /\ pc[p] = "p_restore"
    /\ db' = IF db = None THEN {} ELSE db
    /\ Goto(p, "p_crl")
    /\ UNCHANGED <<conf, cert, key, crl, cache, lock, mem, loc, printed, names, stops>>

\* OpenStore and RestoreSnapshot.
PromotionRestore(p) ==
    /\ pc[p] = "p_restore"
    /\ db' = loc[p].data
    /\ Goto(p, "p_crl")
    /\ UNCHANGED <<conf, cert, key, crl, cache, lock, mem, loc, printed, names, stops>>

PromotionCRL(p) ==
    /\ pc[p] = "p_crl"
    /\ WriteCRL
    /\ Goto(p, "p_config")
    /\ UNCHANGED <<conf, cert, key, db, cache, lock, mem, loc, printed, names, stops>>

PromotionConfig(p) ==
    /\ pc[p] = "p_config"
    /\ Save(p, [mem[p] EXCEPT !.mode = "master"])
    /\ Goto(p, "p_cache")
    /\ UNCHANGED <<cert, key, db, crl, cache, lock, loc, printed, names, stops>>

PromotionCache(p) ==
    /\ pc[p] = "p_cache"
    /\ RebuildEncryptedCache(p, loc[p].ca)
    /\ Release(p)
    /\ Goto(p, "m_load")
    /\ UNCHANGED <<conf, cert, key, db, crl, mem, loc, printed, names, stops>>

-----------------------------------------------------------------------------
(* RunMaster *)

\* LoadCA wants both files and that they match; OpenStore creates the tables.
MasterLoad(p) ==
    /\ pc[p] = "m_load"
    /\ IF key = None \/ cert # key
       THEN Refuse(p)
       ELSE /\ db' = IF db = None THEN {} ELSE db
            /\ loc' = [loc EXCEPT ![p].ca = key]
            /\ Goto(p, "m_crl")
            /\ UNCHANGED <<conf, cert, key, crl, cache, lock, mem, printed, names, stops>>

MasterCRL(p) ==
    /\ pc[p] = "m_crl"
    /\ WriteCRL
    /\ Goto(p, "m_cache")
    /\ UNCHANGED <<conf, cert, key, db, cache, lock, mem, loc, printed, names, stops>>

\* RebuildEncryptedCache fails without a recovery key.
MasterCache(p) ==
    /\ pc[p] = "m_cache"
    /\ IF mem[p].recovery = None
       THEN Refuse(p)
       ELSE /\ RebuildEncryptedCache(p, loc[p].ca)
            /\ Goto(p, "m_listen")
            /\ UNCHANGED <<conf, cert, key, db, crl, lock, mem, loc, printed, names, stops>>

\* The ports are free, or the start fails.
MasterListen(p) ==
    /\ pc[p] = "m_listen"
    /\ IF \E q \in Procs : pc[q] = "serving"
       THEN Refuse(p)
       ELSE /\ Goto(p, "serving")
            /\ UNCHANGED <<disk, lock, mem, loc, printed, names, stops>>

-----------------------------------------------------------------------------

Step(p) ==
    \/ BootstrapLock(p) \/ BootstrapCheck(p) \/ SaveCert(p) \/ SaveKey(p) \/ BootstrapConfig(p)
    \/ BootstrapStore(p) \/ BootstrapCRL(p) \/ BootstrapCache(p) \/ BootstrapPrint(p)
    \/ PromotionLock(p) \/ PromotionVerify(p) \/ PromotionRestore(p) \/ PromotionCRL(p)
    \/ PromotionConfig(p) \/ PromotionCache(p)
    \/ MasterLoad(p) \/ MasterCRL(p) \/ MasterCache(p) \/ MasterListen(p)

Next ==
    \E p \in Procs :
        \/ StartBootstrap(p) \/ StartMaster(p) \/ Step(p) \/ Stop(p)
        \/ \E seed \in {Network, None} : StartPromote(p, seed)

Spec == Init /\ [][Next]_vars

Serving == \E p \in Procs : pc[p] = "serving"

\* The administrator repeats the command the host needs until it serves.
Activate ==
    /\ ~Serving
    /\ \E p \in Procs :
        \/ conf.mode = "master" /\ cert = None /\ StartBootstrap(p)
        \/ conf.mode = "master" /\ cert # None /\ StartMaster(p)
        \/ conf.mode = "client" /\ StartPromote(p, Network)

\* Started commands go on, also those waiting for a lock that is free again
\* and again; the administrator does not give up.
FairSpec ==
    /\ Spec
    /\ \A p \in Procs : SF_vars(Step(p))
    /\ SF_vars(Activate)

-----------------------------------------------------------------------------

\* Neither half of the Root CA is ever replaced once it is there, and the
\* two halves belong together: pins, published caches and issued
\* certificates of a network stay valid through repeated and concurrent
\* bootstraps and promotions ("refusing to overwrite", "byte-for-byte").
RootNeverReplaced ==
    [][/\ cert # None => cert' = cert
       /\ key # None => key' = key
       /\ key' # None => key' = cert']_vars

\* A cache on disk can be opened by whoever holds the seed phrase that
\* belongs to the configured recovery key: a master that was started before
\* the bootstrap had saved the key does not publish.
CacheOpensWithConfigured ==
    cache # None => cache.recovery = conf.recovery /\ cache.ca = cert

\* A master that has found itself configured as one serves, and publishes,
\* the snapshot's records on a host that restored the network's CA ("The
\* promoted master also restores the last replicated clients, issued certs,
\* revoked serials and blacklist"), whatever ran beside the promotion.  It is
\* not so for a master started with --mode=master, as the units start it, on
\* a host whose promotion stopped between the CA and the configuration: that
\* one serves, and publishes, what the tables hold by then.
ServesRestored ==
    (cert = Network /\ \E p \in Procs : pc[p] = "serving" /\ mem[p].mode = "master")
        => /\ db = {"network"}
           /\ crl = {"network"}
           /\ cache.data = {"network"}

\* The two states an interrupted command leaves that it refuses to resume
\* from: the CA is there, the recovery key or the tables are not.
HalfBootstrapped == cert \notin {None, Network} /\ (key = None \/ conf.recovery = None)

HalfPromoted == cert = Network /\ key = Network /\ conf.mode = "client"

\* Repeating the command gets a host into service from wherever the last
\* attempt was interrupted, except from these two states.
ActivationEnds ==
    (conf.mode = "client" => cache # None)
        => <>[](Serving \/ HalfBootstrapped \/ HalfPromoted)

\* "RunBootstrap initializes a brand-new Root CA [...] and prints the 24-word
\* recovery seed exactly once": the seed phrase of a recovery key that was
\* saved is shown, whatever is started beside the bootstrap, unless it is
\* interrupted before its last step.
SeedGetsShown ==
    \A k \in Names : conf.recovery = k ~> (k \in printed \/ stops > 0)

=============================================================================
