-------------------------- MODULE ActivationProofs --------------------------
(***************************************************************************)
(* Proofs about Activation, for every set of concurrent commands and every *)
(* number of interruptions: the Root CA is never replaced, every cache     *)
(* opens with the configured recovery key, the state is well typed, and a  *)
(* promoted master serves the restored records.                            *)
(***************************************************************************)
EXTENDS Activation, TLAPS

\* A step goes to Zenon unless it names other provers, which are tried in turn.
USE ZenonT(30)

BHolds == {"b_check", "b_cert", "b_key", "b_config", "b_store", "b_crl", "b_cache", "b_print"}

PHolds == {"p_verify", "p_cert", "p_key", "p_restore", "p_crl", "p_config", "p_cache"}

MLoaded == {"m_crl", "m_cache", "m_listen", "serving"}

Generated == Nat \ {Network}

Locals == [ca : Nat \cup {None}, seed : Nat \cup {None}, data : Records \cup {None}]

\* The types the proofs use.
Typed ==
    /\ conf \in [mode : {"client", "master"}, recovery : Nat \cup {None}]
    /\ cert \in Nat \cup {None}
    /\ lock \in [Locks -> Procs \cup {None}]
    /\ pc \in [Procs -> Steps]
    /\ mem \in [Procs -> [mode : {"client", "master"}, recovery : Nat \cup {None}]]
    /\ loc \in [Procs -> Locals]
    /\ names \in Nat
    /\ db \in Records \cup {None}
    /\ cache # None => cache.data \in Records \cup {None}

\* Who is past a lock holds it.
Holds(p) ==
    /\ pc[p] \in BHolds => lock["bootstrap"] = p
    /\ pc[p] \in PHolds => lock["promotion"] = p

\* What a command knows at each of its steps.  A bootstrap works on a host
\* with no Root CA and a promotion on one with the network's, so the two
\* never write at the same time although their locks differ.
Knows(p) ==
    /\ mem[p].recovery \in {None, conf.recovery}
    /\ pc[p] \in {"b_cert", "b_key", "b_config", "b_store", "b_crl", "b_cache", "b_print"}
          => loc[p].ca \in Generated
    /\ pc[p] \in {"b_cert", "b_key", "b_config"} => conf.recovery = None
    /\ pc[p] = "b_cert" => cert = None
    /\ pc[p] \in {"b_cert", "b_key"} => key = None
    /\ pc[p] \in {"b_key", "b_config", "b_store", "b_crl", "b_cache"} => cert = loc[p].ca
    /\ pc[p] \in {"b_config", "b_store", "b_crl", "b_cache"} => key # None
    /\ pc[p] \in {"b_store", "b_crl", "b_cache"} => mem[p].recovery = loc[p].ca
    /\ pc[p] \in PHolds \ {"p_verify"}
          => cert = Network /\ loc[p].ca = Network /\ mem[p].recovery = Network
    /\ pc[p] \in {"p_cert", "p_key"} => key = None
    /\ pc[p] \in MLoaded => key # None /\ loc[p].ca = cert

\* What the files tell of each other.
Files ==
    /\ key # None => key = cert
    /\ cert = None => conf.recovery = None
    /\ conf.recovery = None => cache = None
    /\ cache # None /\ key = None => cert = Network
    /\ cert = Network => conf.recovery = Network
    /\ CacheOpensWithConfigured

IInv == Typed /\ Files /\ \A p \in Procs : Holds(p) /\ Knows(p)

USE ActivationAssumption

-----------------------------------------------------------------------------

\* A fresh host, and a client.
LEMMA InitIInv == Init => IInv
<1> SUFFICES ASSUME Init PROVE IInv
    OBVIOUS
<1>1. Typed
    BY SMT, Z3 DEF Init, Typed, NoLocals, Network, Records, Steps, Locals
<1>2. Files
    BY SMT, Z3 DEF Init, Files, CacheOpensWithConfigured, Network
<1>3. \A p \in Procs : Holds(p) /\ Knows(p)
    BY DEF Init, Holds, Knows, BHolds, PHolds, MLoaded
<1>. QED  BY <1>1, <1>2, <1>3 DEF IInv

\* Starting, refusing, stopping and taking a lock write nothing.
LEMMA StartIInv ==
    ASSUME NEW p \in Procs, IInv,
           \/ StartBootstrap(p) \/ StartMaster(p) \/ StartPromote(p, Network) \/ StartPromote(p, None)
    PROVE  IInv'
<1>1. /\ UNCHANGED <<disk, lock, names>>
      /\ mem' = [mem EXCEPT ![p] = conf]
      /\ \E l \in Locals : loc' = [loc EXCEPT ![p] = l]
      /\ \E s \in {"b_lock", "m_load", "p_lock"} : pc' = [pc EXCEPT ![p] = s]
    BY DEF StartBootstrap, StartMaster, StartPromote, Start, Goto, NoLocals, Network, Records, Locals
<1>2. Typed'
    BY <1>1, SMT, Z3 DEF IInv, Typed, Steps, disk
<1>3. Files'
    BY <1>1 DEF IInv, Files, CacheOpensWithConfigured, disk
<1>4. ASSUME NEW q \in Procs PROVE Holds(q)' /\ Knows(q)'
    BY <1>1, SMT, Z3 DEF IInv, Typed, Holds, Knows, BHolds, PHolds, MLoaded, disk
<1>. QED  BY <1>2, <1>3, <1>4 DEF IInv

LEMMA EndIInv == ASSUME NEW p \in Procs, IInv, Refuse(p) \/ Stop(p) PROVE IInv'
<1>1. /\ UNCHANGED <<disk, mem, loc, names>>
      /\ pc' = [pc EXCEPT ![p] = "off"]
      /\ lock' = [l \in Locks |-> IF lock[l] = p THEN None ELSE lock[l]]
    BY DEF Refuse, Stop, Goto, Release
<1>2. Typed'
  <2>1. lock' \in [Locks -> Procs \cup {None}]
    BY <1>1 DEF IInv, Typed, Locks
  <2>2. pc' \in [Procs -> Steps]
    BY <1>1 DEF IInv, Typed, Steps
  <2>. QED  BY <1>1, <2>1, <2>2 DEF IInv, Typed, disk
<1>3. Files'
    BY <1>1 DEF IInv, Files, CacheOpensWithConfigured, disk
<1>4. ASSUME NEW q \in Procs PROVE Holds(q)'
    BY <1>1 DEF IInv, Typed, Holds, BHolds, PHolds, Locks
<1>5. ASSUME NEW q \in Procs PROVE Knows(q)'
    BY <1>1, SMT, Z3 DEF IInv, Typed, Knows, PHolds, MLoaded, disk
<1>. QED  BY <1>2, <1>3, <1>4, <1>5 DEF IInv

LEMMA LockIInv == ASSUME NEW p \in Procs, IInv, BootstrapLock(p) \/ PromotionLock(p) PROVE IInv'
<1>1. /\ UNCHANGED <<disk, mem, loc, names>>
      /\ \/ /\ lock["bootstrap"] = None /\ lock' = [lock EXCEPT !["bootstrap"] = p]
            /\ pc' = [pc EXCEPT ![p] = "b_check"]
         \/ /\ lock["promotion"] = None /\ lock' = [lock EXCEPT !["promotion"] = p]
            /\ pc' = [pc EXCEPT ![p] = "p_verify"]
    BY DEF BootstrapLock, PromotionLock, lockFile, Goto
<1>2. Typed'
  <2>1. lock' \in [Locks -> Procs \cup {None}]
    BY <1>1, SMT, Z3 DEF IInv, Typed, Locks
  <2>2. pc' \in [Procs -> Steps]
    BY <1>1, SMT, Z3 DEF IInv, Typed, Steps
  <2>. QED  BY <1>1, <2>1, <2>2 DEF IInv, Typed, disk
<1>3. Files'
    BY <1>1 DEF IInv, Files, CacheOpensWithConfigured, disk
<1>4. ASSUME NEW q \in Procs PROVE Holds(q)'
    BY <1>1, SMT, Z3 DEF IInv, Typed, Holds, BHolds, PHolds, Locks
<1>5. ASSUME NEW q \in Procs PROVE Knows(q)'
    BY <1>1, SMT, Z3 DEF IInv, Typed, Knows, PHolds, MLoaded, disk
<1>. QED  BY <1>2, <1>3, <1>4, <1>5 DEF IInv

LEMMA LocalsUpdate ==
    ASSUME NEW l \in Locals, NEW c \in Nat \cup {None}, NEW d \in Records \cup {None}
    PROVE  [l EXCEPT !.ca = c] \in Locals /\ [l EXCEPT !.ca = c, !.data = d] \in Locals
BY DEF Locals

\* The checks of a bootstrap and of a promotion establish what their steps
\* know of the files.
LEMMA BootstrapCheckIInv == ASSUME NEW p \in Procs, IInv, BootstrapCheck(p) PROVE IInv'
<1>1. CASE Refuse(p)
    BY <1>1, EndIInv
<1>2. CASE ~Refuse(p)
  <2>1. /\ pc[p] = "b_check" /\ key = None /\ cert = None
        /\ names' = names + 1
        /\ loc' = [loc EXCEPT ![p].ca = names + 1]
        /\ pc' = [pc EXCEPT ![p] = "b_cert"]
        /\ UNCHANGED <<disk, lock, mem>>
    BY <1>2 DEF BootstrapCheck, Goto
  <2>2. Typed'
    <3>1. loc' \in [Procs -> Locals]
      <4>1. loc[p] \in Locals /\ names + 1 \in Nat
        BY SMT, Z3 DEF IInv, Typed
      <4>2. [loc[p] EXCEPT !.ca = names + 1] \in Locals
        BY <4>1, LocalsUpdate DEF Records
      <4>. QED  BY <2>1, <4>2 DEF IInv, Typed
    <3>2. pc' \in [Procs -> Steps]
      BY <2>1 DEF IInv, Typed, Steps
    <3>. QED  BY <2>1, <3>1, <3>2, SMT, Z3 DEF IInv, Typed, disk
  <2>3. Files'
    BY <2>1 DEF IInv, Files, CacheOpensWithConfigured, disk
  <2>4. ASSUME NEW q \in Procs PROVE Holds(q)'
    BY <2>1 DEF IInv, Typed, Holds, BHolds, PHolds
  <2>5. ASSUME NEW q \in Procs PROVE Knows(q)'
    BY <2>1, SMT, Z3 DEF IInv, Typed, Files, Knows, PHolds, MLoaded, Generated, Network, disk
  <2>. QED  BY <2>2, <2>3, <2>4, <2>5 DEF IInv
<1>. QED  BY <1>1, <1>2

LEMMA PromotionVerifyIInv == ASSUME NEW p \in Procs, IInv, PromotionVerify(p) PROVE IInv'
<1>1. CASE Refuse(p)
    BY <1>1, EndIInv
<1>2. CASE ~Refuse(p)
  <2>1. /\ pc[p] = "p_verify" /\ Recoverable(p)
        /\ loc' = [loc EXCEPT ![p].ca = cache.ca, ![p].data = cache.data]
        /\ pc' = [pc EXCEPT ![p] = "p_cert"]
        /\ UNCHANGED <<disk, lock, mem, names>>
    BY <1>2 DEF PromotionVerify, Goto
  <2>2. cache # None /\ cache.ca = Network /\ cert = Network /\ key = None
    BY <2>1 DEF IInv, Files, Recoverable
  <2>3. mem[p].recovery = Network
    BY <2>1, <2>2 DEF IInv, Files, Knows, Recoverable
  <2>4. Typed'
    <3>1. loc' \in [Procs -> Locals]
      <4>1. loc[p] \in Locals /\ cache.ca \in Nat /\ cache.data \in Records \cup {None}
        BY <2>2, SMT, Z3 DEF IInv, Typed, Network
      <4>2. [loc[p] EXCEPT !.ca = cache.ca, !.data = cache.data] \in Locals
        BY <4>1, LocalsUpdate
      <4>. QED  BY <2>1, <4>2 DEF IInv, Typed
    <3>2. pc' \in [Procs -> Steps]
      BY <2>1 DEF IInv, Typed, Steps
    <3>. QED  BY <2>1, <3>1, <3>2 DEF IInv, Typed, disk
  <2>5. Files'
    BY <2>1 DEF IInv, Files, CacheOpensWithConfigured, disk
  <2>6. ASSUME NEW q \in Procs PROVE Holds(q)'
    BY <2>1 DEF IInv, Typed, Holds, BHolds, PHolds
  <2>7. loc'[p].ca = Network /\ \A q \in Procs : q # p => loc'[q] = loc[q]
    BY <2>1, <2>2, SMT, Z3 DEF IInv, Typed, Locals
  <2>8. ASSUME NEW q \in Procs PROVE Knows(q)'
    BY <2>1, <2>2, <2>3, <2>7, SMT, Z3 DEF IInv, Typed, Knows, PHolds, MLoaded, Generated, disk
  <2>. QED  BY <2>4, <2>5, <2>6, <2>8 DEF IInv
<1>. QED  BY <1>1, <1>2

\* Only the holder of the bootstrap lock saves a generated certificate, and
\* a promotion saves the certificate that is there.
LEMMA SaveCertIInv == ASSUME NEW p \in Procs, IInv, SaveCert(p) PROVE IInv'
<1>1. /\ cert' = loc[p].ca
      /\ \/ pc[p] = "b_cert" /\ pc' = [pc EXCEPT ![p] = "b_key"]
         \/ pc[p] = "p_cert" /\ pc' = [pc EXCEPT ![p] = "p_key"]
      /\ UNCHANGED <<conf, key, db, cache, lock, mem, loc, names>>
    BY DEF SaveCert, Goto
<1>2. Typed'
  <2>1. cert' \in Nat \cup {None}
    BY <1>1 DEF IInv, Typed, Locals
  <2>. QED  BY <1>1, <2>1, SMT, Z3 DEF IInv, Typed, Steps
<1>3. ASSUME NEW q \in Procs PROVE Holds(q)'
    BY <1>1, SMT, Z3 DEF IInv, Typed, Holds, BHolds, PHolds
<1>4. CASE pc[p] = "b_cert"
  <2>1. cert = None /\ key = None /\ conf.recovery = None /\ cert' \in Generated /\ cache = None
    BY <1>1, <1>4 DEF IInv, Files, Knows
  <2>2. Files'
    BY <1>1, <2>1 DEF IInv, Files, CacheOpensWithConfigured, Generated
  <2>3. ASSUME NEW q \in Procs, q # p PROVE pc[q] \notin BHolds
    BY <1>4, <2>3 DEF IInv, Typed, Holds, BHolds
  <2>4. ASSUME NEW q \in Procs PROVE Knows(q)'
    <3>1. CASE q = p
      BY <1>1, <1>4, <2>1, <3>1, SMT, Z3 DEF IInv, Typed, Knows, PHolds, MLoaded
    <3>2. CASE q # p
      BY <1>1, <1>4, <2>1, <2>3, <3>2, SMT, Z3 DEF IInv, Typed, Files, Knows, BHolds, PHolds, MLoaded, Network
    <3>. QED  BY <3>1, <3>2
  <2>. QED  BY <1>2, <1>3, <2>2, <2>4 DEF IInv
<1>5. CASE pc[p] = "p_cert"
  <2>1. cert' = cert
    BY <1>1, <1>5 DEF IInv, Knows, PHolds
  <2>2. Files'
    BY <1>1, <2>1 DEF IInv, Files, CacheOpensWithConfigured
  <2>3. ASSUME NEW q \in Procs PROVE Knows(q)'
    BY <1>1, <1>5, <2>1, SMT, Z3 DEF IInv, Typed, Knows, PHolds, MLoaded
  <2>. QED  BY <1>2, <1>3, <2>2, <2>3 DEF IInv
<1>. QED  BY <1>1, <1>4, <1>5

LEMMA SaveKeyIInv == ASSUME NEW p \in Procs, IInv, SaveKey(p) PROVE IInv'
<1>1. /\ key' = loc[p].ca
      /\ \/ pc[p] = "b_key" /\ pc' = [pc EXCEPT ![p] = "b_config"]
         \/ pc[p] = "p_key" /\ pc' = [pc EXCEPT ![p] = "p_restore"]
      /\ UNCHANGED <<conf, cert, db, cache, lock, mem, loc, names>>
    BY DEF SaveKey, Goto
<1>2. key = None /\ key' = cert /\ cert \in Nat
    BY <1>1, SMT, Z3 DEF IInv, Knows, PHolds, Generated, Network
<1>3. Typed'
    BY <1>1, SMT, Z3 DEF IInv, Typed, Steps
<1>4. Files'
    BY <1>1, <1>2 DEF IInv, Files, CacheOpensWithConfigured
<1>5. ASSUME NEW q \in Procs PROVE Holds(q)'
    BY <1>1, SMT, Z3 DEF IInv, Typed, Holds, BHolds, PHolds
<1>6. ASSUME NEW q \in Procs, q # p
      PROVE  pc[q] \notin {"b_cert", "b_key", "p_cert", "p_key"}
  <2>1. CASE pc[p] = "b_key"
    <3>1. lock["bootstrap"] = p /\ cert \in Generated
      BY <2>1 DEF IInv, Holds, Knows, BHolds
    <3>. QED  BY <1>6, <3>1 DEF IInv, Holds, Knows, BHolds, PHolds, Generated
  <2>2. CASE pc[p] = "p_key"
    <3>1. lock["promotion"] = p /\ cert = Network
      BY <2>2 DEF IInv, Holds, Knows, PHolds
    <3>. QED  BY <1>2, <1>6, <3>1 DEF IInv, Holds, Knows, BHolds, PHolds, Generated
  <2>. QED  BY <1>1, <2>1, <2>2
<1>7. ASSUME NEW q \in Procs PROVE Knows(q)'
  <2>1. CASE q = p
    BY <1>1, <1>2, <2>1, SMT, Z3 DEF IInv, Typed, Knows, PHolds, MLoaded
  <2>2. CASE q # p
    BY <1>1, <1>2, <1>6, <2>2, SMT, Z3 DEF IInv, Typed, Knows, PHolds, MLoaded
  <2>. QED  BY <2>1, <2>2
<1>. QED  BY <1>3, <1>4, <1>5, <1>7 DEF IInv

\* The recovery key appears once, when no cache has been published yet.
LEMMA BootstrapConfigIInv == ASSUME NEW p \in Procs, IInv, BootstrapConfig(p) PROVE IInv'
<1> DEFINE c == [mode |-> "master", recovery |-> loc[p].ca]
<1>1. /\ pc[p] = "b_config"
      /\ mem' = [mem EXCEPT ![p] = c] /\ conf' = c
      /\ pc' = [pc EXCEPT ![p] = "b_store"]
      /\ UNCHANGED <<cert, key, db, cache, lock, loc, names>>
    BY DEF BootstrapConfig, Save, Goto
<1>2. /\ loc[p].ca \in Generated /\ cert = loc[p].ca /\ key # None
      /\ conf.recovery = None /\ cache = None
    BY <1>1 DEF IInv, Knows, Files
<1>3. c \in [mode : {"client", "master"}, recovery : Nat \cup {None}] /\ c.recovery = loc[p].ca
    BY <1>2 DEF Generated
<1> HIDE DEF c
<1>4. Typed'
    BY <1>1, <1>3 DEF IInv, Typed, Steps
<1>5. Files'
    BY <1>1, <1>2, <1>3 DEF IInv, Files, CacheOpensWithConfigured, Generated
<1>6. ASSUME NEW q \in Procs PROVE Holds(q)'
    BY <1>1 DEF IInv, Typed, Holds, BHolds, PHolds
<1>7. ASSUME NEW q \in Procs, q # p
      PROVE  pc[q] \notin BHolds /\ mem[q].recovery = None /\ pc[q] \notin PHolds \ {"p_verify"}
    BY <1>1, <1>2, <1>7 DEF IInv, Holds, Knows, BHolds, PHolds, Generated
<1>8. ASSUME NEW q \in Procs PROVE Knows(q)'
  <2>1. CASE q = p
    BY <1>1, <1>2, <1>3, <2>1, SMT, Z3 DEF IInv, Typed, Knows, PHolds, MLoaded
  <2>2. CASE q # p
    BY <1>1, <1>2, <1>3, <1>7, <2>2, SMT, Z3 DEF IInv, Typed, Knows, BHolds, PHolds, MLoaded
  <2>. QED  BY <2>1, <2>2
<1>. QED  BY <1>4, <1>5, <1>6, <1>8 DEF IInv

\* The steps that write the tables or the CRL.
LEMMA TablesIInv ==
    ASSUME NEW p \in Procs, IInv,
           \/ BootstrapStore(p) \/ BootstrapCRL(p) \/ PromotionRestore(p) \/ PromotionCRL(p)
           \/ MasterCRL(p)
    PROVE  IInv'
<1>1. /\ UNCHANGED <<conf, cert, key, cache, lock, mem, loc, names>>
      /\ db' \in Records \cup {None}
      /\ \/ pc[p] = "b_store" /\ pc' = [pc EXCEPT ![p] = "b_crl"]
         \/ pc[p] = "b_crl" /\ pc' = [pc EXCEPT ![p] = "b_cache"]
         \/ pc[p] = "p_restore" /\ pc' = [pc EXCEPT ![p] = "p_crl"]
         \/ pc[p] = "p_crl" /\ pc' = [pc EXCEPT ![p] = "p_config"]
         \/ pc[p] = "m_crl" /\ pc' = [pc EXCEPT ![p] = "m_cache"]
  <2>1. loc[p].data \in Records \cup {None} /\ db \in Records \cup {None}
    BY DEF IInv, Typed, Locals
  <2>2. (IF db = None THEN {} ELSE db) \cup {"configured"} \in Records
    BY <2>1 DEF Records
  <2>. QED
    BY <2>1, <2>2 DEF BootstrapStore, BootstrapCRL, PromotionRestore, PromotionCRL, MasterCRL, Goto
<1>2. Typed'
    BY <1>1, SMTT(30) DEF IInv, Typed, Steps
<1>3. Files'
    BY <1>1 DEF IInv, Files, CacheOpensWithConfigured
<1>4. ASSUME NEW q \in Procs PROVE Holds(q)'
    BY <1>1, SMT, Z3 DEF IInv, Typed, Holds, BHolds, PHolds
<1>5. ASSUME NEW q \in Procs PROVE Knows(q)'
    BY <1>1, SMT, Z3 DEF IInv, Typed, Knows, PHolds, MLoaded
<1>. QED  BY <1>2, <1>3, <1>4, <1>5 DEF IInv

\* A cache is signed by the Root CA on disk and sealed to the configured
\* recovery key, whoever writes it.
LEMMA CacheIInv ==
    ASSUME NEW p \in Procs, IInv, NEW step \in {"b_print", "m_load", "m_listen"},
           pc[p] \in {"b_cache", "p_cache", "m_cache"},
           mem[p].recovery # None,
           cache' = [ca |-> loc[p].ca, recovery |-> mem[p].recovery, data |-> db],
           pc' = [pc EXCEPT ![p] = step],
           \/ lock' = lock
           \/ lock' = [l \in Locks |-> IF lock[l] = p THEN None ELSE lock[l]] /\ step = "m_load",
           step = "b_print" => pc[p] = "b_cache" /\ lock' = lock,
           step = "m_listen" => pc[p] = "m_cache",
           UNCHANGED <<conf, cert, key, db, mem, loc, names>>
    PROVE  IInv'
<1>1. mem[p].recovery = conf.recovery /\ loc[p].ca = cert /\ (key = None => cert = Network)
    BY DEF IInv, Knows, PHolds, MLoaded
<1>2. Typed'
  <2>1. lock' \in [Locks -> Procs \cup {None}]
    BY SMT, Z3 DEF IInv, Typed, Locks
  <2>2. pc' \in [Procs -> Steps]
    BY DEF IInv, Typed, Steps
  <2>3. cache' # None => cache'.data \in Records \cup {None}
    BY DEF IInv, Typed
  <2>. QED  BY <2>1, <2>2, <2>3 DEF IInv, Typed
<1>3. Files'
    BY <1>1 DEF IInv, Files, CacheOpensWithConfigured
<1>4. ASSUME NEW q \in Procs PROVE Holds(q)'
    BY SMT, Z3 DEF IInv, Typed, Holds, BHolds, PHolds, Locks
<1>5. ASSUME NEW q \in Procs PROVE Knows(q)'
    BY SMT, Z3 DEF IInv, Typed, Knows, PHolds, MLoaded
<1>. QED  BY <1>2, <1>3, <1>4, <1>5 DEF IInv

LEMMA BootstrapEndIInv ==
    ASSUME NEW p \in Procs, IInv, BootstrapCache(p) \/ BootstrapPrint(p) PROVE IInv'
<1>1. CASE BootstrapCache(p)
  <2>1. pc[p] = "b_cache" /\ mem[p].recovery # None
    BY <1>1, SMT, Z3 DEF BootstrapCache, IInv, Knows, Generated
  <2>. QED  BY <1>1, <2>1, CacheIInv DEF BootstrapCache, RebuildEncryptedCache, Goto
<1>2. CASE BootstrapPrint(p)
  <2>1. /\ UNCHANGED <<disk, mem, loc, names>>
        /\ pc' = [pc EXCEPT ![p] = "off"]
        /\ lock' = [l \in Locks |-> IF lock[l] = p THEN None ELSE lock[l]]
    BY <1>2 DEF BootstrapPrint, Goto, Release
  <2>2. Typed'
    <3>1. lock' \in [Locks -> Procs \cup {None}]
      BY <2>1 DEF IInv, Typed, Locks
    <3>2. pc' \in [Procs -> Steps]
      BY <2>1 DEF IInv, Typed, Steps
    <3>. QED  BY <2>1, <3>1, <3>2 DEF IInv, Typed, disk
  <2>3. Files'
    BY <2>1 DEF IInv, Files, CacheOpensWithConfigured, disk
  <2>4. ASSUME NEW q \in Procs PROVE Holds(q)'
    BY <2>1 DEF IInv, Typed, Holds, BHolds, PHolds, Locks
  <2>5. ASSUME NEW q \in Procs PROVE Knows(q)'
    BY <2>1, SMT, Z3 DEF IInv, Typed, Knows, PHolds, MLoaded, disk
  <2>. QED  BY <2>2, <2>3, <2>4, <2>5 DEF IInv
<1>. QED  BY <1>1, <1>2

\* A promotion saves the configuration with the recovery key it was loaded
\* with, the one on disk.
LEMMA PromotionEndIInv ==
    ASSUME NEW p \in Procs, IInv, PromotionConfig(p) \/ PromotionCache(p) PROVE IInv'
<1>1. CASE PromotionConfig(p)
  <2> DEFINE c == [mem[p] EXCEPT !.mode = "master"]
  <2>1. /\ pc[p] = "p_config"
        /\ mem' = [mem EXCEPT ![p] = c] /\ conf' = c
        /\ pc' = [pc EXCEPT ![p] = "p_cache"]
        /\ UNCHANGED <<cert, key, db, cache, lock, loc, names>>
    BY <1>1 DEF PromotionConfig, Save, Goto
  <2>2. mem[p].recovery = Network /\ conf.recovery = Network
    BY <2>1 DEF IInv, Knows, Files, PHolds
  <2>3. c \in [mode : {"client", "master"}, recovery : Nat \cup {None}] /\ c.recovery = conf.recovery
    BY <2>2 DEF IInv, Typed
  <2> HIDE DEF c
  <2>4. Typed'
    BY <2>1, <2>3 DEF IInv, Typed, Steps
  <2>5. Files'
    BY <2>1, <2>3 DEF IInv, Files, CacheOpensWithConfigured
  <2>6. ASSUME NEW q \in Procs PROVE Holds(q)'
    BY <2>1 DEF IInv, Typed, Holds, BHolds, PHolds
  <2>7. ASSUME NEW q \in Procs PROVE Knows(q)'
    BY <2>1, <2>2, <2>3, SMT, Z3 DEF IInv, Typed, Knows, PHolds, MLoaded
  <2>. QED  BY <2>4, <2>5, <2>6, <2>7 DEF IInv
<1>2. CASE PromotionCache(p)
  <2>1. pc[p] = "p_cache" /\ mem[p].recovery # None
    BY <1>2, SMT, Z3 DEF PromotionCache, IInv, Knows, PHolds, Network
  <2>. QED  BY <1>2, <2>1, CacheIInv DEF PromotionCache, RebuildEncryptedCache, Release, Goto
<1>. QED  BY <1>1, <1>2

\* RunMaster: LoadCA wants the two halves of the Root CA to match, and
\* nothing is published without a recovery key.
LEMMA MasterIInv ==
    ASSUME NEW p \in Procs, IInv, MasterLoad(p) \/ MasterCache(p) \/ MasterListen(p) PROVE IInv'
<1>1. CASE Refuse(p)
    BY <1>1, EndIInv
<1>2. CASE MasterLoad(p) /\ ~Refuse(p)
  <2>1. /\ pc[p] = "m_load" /\ key # None /\ cert = key
        /\ db' = IF db = None THEN {} ELSE db
        /\ loc' = [loc EXCEPT ![p].ca = key]
        /\ pc' = [pc EXCEPT ![p] = "m_crl"]
        /\ UNCHANGED <<conf, cert, key, cache, lock, mem, names>>
    BY <1>2 DEF MasterLoad, Goto
  <2>2. loc[p] \in Locals /\ loc' = [loc EXCEPT ![p] = [loc[p] EXCEPT !.ca = key]]
    BY <2>1 DEF IInv, Typed
  <2>3. CASE key \in Nat
    <3>1. Typed'
      <4>1. [loc[p] EXCEPT !.ca = key] \in Locals
        BY <2>2, <2>3, LocalsUpdate DEF Records
      <4>2. loc' \in [Procs -> Locals]
        BY <2>2, <4>1 DEF IInv, Typed
      <4>3. pc' \in [Procs -> Steps]
        BY <2>1 DEF IInv, Typed, Steps
      <4>4. db' \in Records \cup {None}
        BY <2>1 DEF IInv, Typed, Records
      <4>. QED  BY <2>1, <4>2, <4>3, <4>4 DEF IInv, Typed
    <3>2. Files'
      BY <2>1 DEF IInv, Files, CacheOpensWithConfigured
    <3>3. ASSUME NEW q \in Procs PROVE Holds(q)'
      BY <2>1 DEF IInv, Typed, Holds, BHolds, PHolds
    <3>4. loc'[p].ca = key /\ \A q \in Procs : q # p => loc'[q] = loc[q]
      BY <2>2 DEF IInv, Typed, Locals
    <3>5. ASSUME NEW q \in Procs PROVE Knows(q)'
      BY <2>1, <3>4, SMT, Z3 DEF IInv, Typed, Knows, PHolds, MLoaded
    <3>. QED  BY <3>1, <3>2, <3>3, <3>5 DEF IInv
  <2>. QED  BY <2>1, <2>3 DEF IInv, Typed
<1>3. CASE MasterCache(p) /\ ~Refuse(p)
    BY <1>3, CacheIInv DEF MasterCache, RebuildEncryptedCache, Goto
<1>4. CASE MasterListen(p) /\ ~Refuse(p)
  <2>1. /\ pc[p] = "m_listen" /\ pc' = [pc EXCEPT ![p] = "serving"]
        /\ UNCHANGED <<disk, lock, mem, loc, names>>
    BY <1>4 DEF MasterListen, Goto
  <2>2. Typed'
    BY <2>1 DEF IInv, Typed, Steps, disk
  <2>3. Files'
    BY <2>1 DEF IInv, Files, CacheOpensWithConfigured, disk
  <2>4. ASSUME NEW q \in Procs PROVE Holds(q)' /\ Knows(q)'
    BY <2>1, SMT, Z3 DEF IInv, Typed, Holds, Knows, BHolds, PHolds, MLoaded, disk
  <2>. QED  BY <2>2, <2>3, <2>4 DEF IInv
<1>. QED  BY <1>1, <1>2, <1>3, <1>4

LEMMA NextIInv == IInv /\ [Next]_vars => IInv'
<1> SUFFICES ASSUME IInv, [Next]_vars PROVE IInv'
    OBVIOUS
<1>1. CASE UNCHANGED vars
  <2>1. Typed' /\ Files'
    BY <1>1, SMT, Z3 DEF IInv, Typed, Files, CacheOpensWithConfigured, vars, disk
  <2>2. ASSUME NEW q \in Procs PROVE Holds(q)' /\ Knows(q)'
    BY <1>1 DEF IInv, Holds, Knows, vars, disk
  <2>. QED  BY <2>1, <2>2 DEF IInv
<1>2. CASE Next
  <2>1. PICK p \in Procs : \/ StartBootstrap(p) \/ StartMaster(p) \/ Step(p) \/ Stop(p)
                           \/ StartPromote(p, Network) \/ StartPromote(p, None)
    BY <1>2 DEF Next
  <2>2. CASE Step(p)
    BY <2>2, LockIInv, BootstrapCheckIInv, SaveCertIInv, SaveKeyIInv, BootstrapConfigIInv,
       TablesIInv, BootstrapEndIInv, PromotionVerifyIInv, PromotionEndIInv, MasterIInv DEF Step
  <2>. QED  BY <2>1, <2>2, StartIInv, EndIInv
<1>. QED  BY <1>1, <1>2

-----------------------------------------------------------------------------

\* The inductive invariant holds throughout.
THEOREM ActivationInvariant == Spec => []IInv
BY InitIInv, NextIInv, PTL DEF Spec

\* Whatever commands run at the same time and wherever they stop, a cache on
\* disk is signed by the Root CA and opens with the configured key.
THEOREM CacheOpens == Spec => []CacheOpensWithConfigured
<1>1. IInv => CacheOpensWithConfigured
    BY DEF IInv, Files
<1>. QED  BY <1>1, ActivationInvariant, PTL

\* Only two kinds of steps write a half of the Root CA; both find it missing,
\* or write what is there.
LEMMA NextKeepsRoot ==
    IInv /\ IInv' /\ [Next]_vars => (/\ cert # None => cert' = cert
                                     /\ key # None => key' = key
                                     /\ key' # None => key' = cert')
<1> SUFFICES ASSUME IInv, IInv', [Next]_vars
             PROVE  (cert # None => cert' = cert) /\ (key # None => key' = key)
    BY DEF IInv, Files
<1>1. ASSUME NEW p \in Procs, SaveCert(p) PROVE key' = key /\ (cert # None => cert' = cert)
    BY <1>1 DEF SaveCert, IInv, Knows, PHolds
<1>2. ASSUME NEW p \in Procs, SaveKey(p) PROVE cert' = cert /\ key = None
    BY <1>2 DEF SaveKey, IInv, Knows
<1>3. CASE UNCHANGED <<cert, key>>
    BY <1>3
<1>4. ASSUME NEW p \in Procs, Step(p), ~SaveCert(p), ~SaveKey(p) PROVE UNCHANGED <<cert, key>>
    BY <1>4 DEF Step, BootstrapLock, BootstrapCheck, BootstrapConfig, BootstrapStore, BootstrapCRL,
        BootstrapCache, BootstrapPrint, PromotionLock, PromotionVerify, PromotionRestore,
        PromotionCRL, PromotionConfig, PromotionCache, MasterLoad, MasterCRL, MasterCache,
        MasterListen, Refuse, disk
<1>. QED
    BY <1>1, <1>2, <1>3, <1>4 DEF Next, StartBootstrap, StartMaster, StartPromote, Stop, vars, disk

\* The Root CA, once on disk, is never replaced, and its two halves belong
\* together, for any number of concurrent and interrupted commands.
THEOREM RootIsKept == Spec => RootNeverReplaced
<1>1. IInv /\ IInv' /\ [Next]_vars
         => [/\ cert # None => cert' = cert
             /\ key # None => key' = key
             /\ key' # None => key' = cert']_vars
    BY NextKeepsRoot
<1>. QED  BY <1>1, ActivationInvariant, PTL DEF Spec, RootNeverReplaced

-----------------------------------------------------------------------------
(* Types *)

\* A command that publishes has opened the store before.
Publishing == {"b_crl", "b_cache", "p_crl", "p_config", "p_cache", "m_crl", "m_cache"}

Opened(p) == pc[p] \in Publishing => db # None

TInv == TypeOK /\ \A p \in Procs : Opened(p)

LEMMA InitTInv == Init => TInv
BY SMT, Z3 DEF Init, TInv, TypeOK, Opened, Publishing, Names, Configs, Records, Steps, NoLocals, Network

\* Where a step leads keeps the types of the places; it may lead to a write of
\* a published file once the store is open.
LEMMA GotoTInv ==
    ASSUME TInv, NEW p \in Procs, NEW s \in Steps, Goto(p, s),
           db # None => db' # None, s \in Publishing => db' # None
    PROVE  pc' \in [Procs -> Steps] /\ \A q \in Procs : Opened(q)'
<1>1. pc \in [Procs -> Steps] /\ \A q \in Procs : Opened(q)
    BY DEF TInv, TypeOK
<1>2. pc' = [pc EXCEPT ![p] = s]
    BY DEF Goto
<1>. QED  BY <1>1, <1>2 DEF Opened

\* A lock is taken by the caller, kept or given back.
LEMMA LockTInv ==
    ASSUME TInv, NEW p \in Procs,
           lock' = lock \/ Release(p) \/ \E l \in Locks : lock' = [lock EXCEPT ![l] = p]
    PROVE  lock' \in [Locks -> Procs \cup {None}]
<1>1. lock \in [Locks -> Procs \cup {None}]
    BY DEF TInv, TypeOK
<1>. QED  BY <1>1 DEF Release

\* Steps that leave the files alone.
LEMMA QuietTInv ==
    ASSUME NEW p \in Procs, IInv, TInv,
           \/ StartBootstrap(p) \/ StartMaster(p) \/ StartPromote(p, Network) \/ StartPromote(p, None)
           \/ Refuse(p) \/ Stop(p) \/ BootstrapLock(p) \/ PromotionLock(p)
           \/ BootstrapPrint(p) \/ MasterListen(p) \/ BootstrapCheck(p) \/ PromotionVerify(p)
    PROVE  TInv'
<1>1. UNCHANGED disk
    BY DEF StartBootstrap, StartMaster, StartPromote, Refuse, Stop, BootstrapLock, PromotionLock,
           BootstrapPrint, MasterListen, BootstrapCheck, PromotionVerify
<1>2. \E s \in {"off", "b_lock", "p_lock", "m_load", "b_check", "p_verify", "b_cert", "p_cert", "serving"} :
          pc' = [pc EXCEPT ![p] = s]
    BY DEF StartBootstrap, StartMaster, StartPromote, Start, Refuse, Stop, BootstrapLock, PromotionLock,
           BootstrapPrint, MasterListen, BootstrapCheck, PromotionVerify, Goto
<1>3. \A q \in Procs : Opened(q)'
    BY <1>1, <1>2 DEF TInv, TypeOK, Opened, Publishing, disk
<1>4. pc' \in [Procs -> Steps]
    BY <1>2, SMT, Z3 DEF TInv, TypeOK, Steps
<1>5. lock' \in [Locks -> Procs \cup {None}]
  <2>1. lock' = lock \/ Release(p) \/ lockFile(p, "bootstrap") \/ lockFile(p, "promotion")
    BY DEF StartBootstrap, StartMaster, StartPromote, Refuse, Stop, BootstrapLock, PromotionLock,
           BootstrapPrint, MasterListen, BootstrapCheck, PromotionVerify
  <2>. QED  BY <2>1, LockTInv DEF lockFile, Locks
<1>6. mem' \in [Procs -> Configs]
    BY DEF TInv, TypeOK, StartBootstrap, StartMaster, StartPromote, Start, Refuse, Stop, BootstrapLock,
           PromotionLock, BootstrapPrint, MasterListen, BootstrapCheck, PromotionVerify
<1>7. names' \in Names /\ printed' \in SUBSET Names /\ stops' \in 0 .. MaxStops
  <2>1. names \in Names /\ printed \in SUBSET Names /\ stops \in 0 .. MaxStops
    BY DEF TInv, TypeOK
  <2>2. CASE BootstrapCheck(p)
    <3>1. CASE Refuse(p)
      BY <2>1, <3>1 DEF Refuse
    <3>2. CASE names < MaxNames /\ names' = names + 1 /\ UNCHANGED <<printed, stops>>
      BY <2>1, <3>2, SMT, Z3 DEF Names
    <3>. QED  BY <2>2, <3>1, <3>2 DEF BootstrapCheck
  <2>3. CASE Stop(p)
    <3>1. UNCHANGED <<names, printed>> /\ stops < MaxStops /\ stops' = stops + 1
      BY <2>3 DEF Stop
    <3>. QED  BY <2>1, <3>1, SMT, Z3
  <2>4. CASE BootstrapPrint(p)
    <3>1. UNCHANGED <<names, stops>> /\ printed' = printed \cup {loc[p].ca} /\ pc[p] = "b_print"
      BY <2>4 DEF BootstrapPrint
    <3>2. loc[p].ca \in Names \cup {None} /\ loc[p].ca \in Nat
      BY <3>1 DEF TInv, TypeOK, IInv, Knows, Generated
    <3>. QED  BY <2>1, <3>1, <3>2
  <2>5. CASE UNCHANGED <<names, printed, stops>>
    BY <2>1, <2>5
  <2>. QED
    BY <2>2, <2>3, <2>4, <2>5 DEF StartBootstrap, StartMaster, StartPromote, Refuse, BootstrapLock,
           PromotionLock, MasterListen, PromotionVerify
<1>8. loc' \in [Procs -> [ca : Names \cup {None}, seed : Names \cup {None}, data : Records]]
  <2>1. NoLocals \in [ca : Names \cup {None}, seed : Names \cup {None}, data : Records]
    BY DEF NoLocals, Records
  <2>2. CASE StartBootstrap(p) \/ StartMaster(p) \/ StartPromote(p, Network) \/ StartPromote(p, None)
    BY <2>1, <2>2, SMT, Z3 DEF StartBootstrap, StartMaster, StartPromote, TInv, TypeOK, Names, Network
  <2>3. CASE BootstrapCheck(p)
    BY <2>3, SMT, Z3 DEF BootstrapCheck, Refuse, TInv, TypeOK, Names
  <2>4. CASE PromotionVerify(p)
    BY <2>4, SMT, Z3 DEF PromotionVerify, Recoverable, Refuse, TInv, TypeOK
  <2>5. CASE UNCHANGED loc
    BY <2>5 DEF TInv, TypeOK
  <2>. QED
    BY <2>2, <2>3, <2>4, <2>5 DEF Refuse, Stop, BootstrapLock, PromotionLock, BootstrapPrint, MasterListen
<1>. QED  BY <1>1, <1>3, <1>4, <1>5, <1>6, <1>7, <1>8 DEF TInv, TypeOK, disk

\* Steps that write a file.
LEMMA WriteTInv ==
    ASSUME NEW p \in Procs, IInv, TInv, ~Refuse(p),
           \/ SaveCert(p) \/ SaveKey(p) \/ BootstrapConfig(p) \/ PromotionConfig(p)
           \/ BootstrapStore(p) \/ PromotionRestore(p) \/ MasterLoad(p)
           \/ BootstrapCRL(p) \/ PromotionCRL(p) \/ MasterCRL(p)
           \/ BootstrapCache(p) \/ PromotionCache(p) \/ MasterCache(p)
    PROVE  TInv'
<1>1. CASE SaveCert(p) \/ SaveKey(p)
  <2>1. \E t \in Steps \ Publishing : Goto(p, t)
    BY <1>1 DEF SaveCert, SaveKey, Steps, Publishing
  <2>. QED  BY <1>1, <2>1, GotoTInv DEF SaveCert, SaveKey, TInv, TypeOK
<1>2. CASE BootstrapConfig(p) \/ PromotionConfig(p)
  <2>1. PICK c \in Configs : Save(p, c)
    <3>1. CASE BootstrapConfig(p)
      BY <3>1 DEF BootstrapConfig, TInv, TypeOK, Configs
    <3>2. CASE PromotionConfig(p)
      <4>1. mem[p] \in Configs
        BY DEF TInv, TypeOK
      <4>2. [mem[p] EXCEPT !.mode = "master"] \in Configs
        BY <4>1 DEF Configs
      <4>. QED  BY <3>2, <4>2 DEF PromotionConfig
    <3>. QED  BY <1>2, <3>1, <3>2
  <2>2. conf' \in Configs /\ mem' \in [Procs -> Configs]
    <3>1. mem \in [Procs -> Configs]
      BY DEF TInv, TypeOK
    <3>. QED  BY <2>1, <3>1 DEF Save
  <2>3. db # None \/ pc[p] = "b_config"
    BY <1>2 DEF BootstrapConfig, PromotionConfig, TInv, Opened, Publishing
  <2>4. pc' \in [Procs -> Steps] /\ \A q \in Procs : Opened(q)'
    BY <1>2, <2>3, GotoTInv DEF BootstrapConfig, PromotionConfig, Steps, Publishing
  <2>. QED  BY <1>2, <2>2, <2>4 DEF BootstrapConfig, PromotionConfig, TInv, TypeOK
<1>3. CASE BootstrapStore(p) \/ PromotionRestore(p)
  <2>1. db' \in Records
    <3>1. db \in Records \cup {None} /\ loc[p].data \in Records
      BY DEF TInv, TypeOK
    <3>2. CASE BootstrapStore(p)
      BY <3>1, <3>2 DEF BootstrapStore, Records
    <3>3. CASE PromotionRestore(p)
      BY <3>1, <3>3 DEF PromotionRestore
    <3>. QED  BY <1>3, <3>2, <3>3
  <2>2. db' # None
    BY <2>1, NoneIsNoRecords
  <2>. QED
    <3>1. \E t \in Steps : Goto(p, t)
      BY <1>3 DEF BootstrapStore, PromotionRestore, Steps
    <3>2. pc' \in [Procs -> Steps] /\ \A q \in Procs : Opened(q)'
      BY <2>2, <3>1, GotoTInv
    <3>. QED  BY <1>3, <2>1, <3>2 DEF BootstrapStore, PromotionRestore, TInv, TypeOK
<1>4. CASE BootstrapCRL(p) \/ PromotionCRL(p) \/ MasterCRL(p)
  <2>1. db # None /\ UNCHANGED db /\ \E t \in Steps : Goto(p, t)
    BY <1>4 DEF BootstrapCRL, PromotionCRL, MasterCRL, TInv, Opened, Publishing, Steps
  <2>2. pc' \in [Procs -> Steps] /\ \A q \in Procs : Opened(q)'
    BY <2>1, GotoTInv
  <2>. QED  BY <1>4, <2>2 DEF BootstrapCRL, PromotionCRL, MasterCRL, WriteCRL, TInv, TypeOK
<1>5. CASE MasterLoad(p)
  <2>1. /\ Goto(p, "m_crl") /\ loc' = [loc EXCEPT ![p].ca = key] /\ key # None
        /\ db' = IF db = None THEN {} ELSE db
        /\ UNCHANGED <<conf, cert, key, crl, cache, lock, mem, printed, names, stops>>
    BY <1>5 DEF MasterLoad
  <2>2. db' \in Records
    BY <2>1 DEF TInv, TypeOK, Records
  <2>3. pc' \in [Procs -> Steps] /\ \A q \in Procs : Opened(q)'
    BY <2>1, <2>2, NoneIsNoRecords, GotoTInv DEF Steps
  <2>4. loc' \in [Procs -> [ca : Names \cup {None}, seed : Names \cup {None}, data : Records]]
    <3>1. key \in Names \cup {None} /\ loc \in [Procs -> [ca : Names \cup {None}, seed : Names \cup {None}, data : Records]]
      BY DEF TInv, TypeOK
    <3>. QED  BY <2>1, <3>1, SMT, Z3
  <2>. QED  BY <2>1, <2>2, <2>3, <2>4 DEF TInv, TypeOK
<1>6. CASE BootstrapCache(p) \/ PromotionCache(p) \/ MasterCache(p)
  <2>1. db \in Records /\ mem[p].recovery \in Names /\ loc[p].ca \in Names
    <3>1. pc[p] \in {"b_cache", "p_cache", "m_cache"} /\ (pc[p] = "m_cache" => mem[p].recovery # None)
      BY <1>6 DEF BootstrapCache, PromotionCache, MasterCache
    <3>2. db \in Records /\ mem[p] \in Configs /\ loc[p].ca \in Names \cup {None}
      BY <3>1 DEF TInv, TypeOK, Opened, Publishing
    <3>3. mem[p].recovery \in Names \cup {None}
      BY <3>2 DEF Configs
    <3>4. loc[p].ca # None /\ mem[p].recovery # None
      <4>1. CASE pc[p] = "b_cache"
        BY <4>1, SMT, Z3 DEF IInv, Knows, Generated
      <4>2. CASE pc[p] = "p_cache"
        <5>1. loc[p].ca = Network /\ mem[p].recovery = Network
          BY <4>2 DEF IInv, Knows, PHolds
        <5>. QED  BY <5>1, SMT, Z3 DEF Network
      <4>3. CASE pc[p] = "m_cache"
        BY <3>1, <4>3 DEF IInv, Knows, Files, MLoaded
      <4>. QED  BY <3>1, <4>1, <4>2, <4>3
    <3>. QED  BY <3>2, <3>3, <3>4
  <2>2. cache' \in [ca : Names, recovery : Names, data : Records]
    <3>1. cache' = [ca |-> loc[p].ca, recovery |-> mem[p].recovery, data |-> db]
      BY <1>6 DEF BootstrapCache, PromotionCache, MasterCache, RebuildEncryptedCache
    <3>. QED  BY <2>1, <3>1
  <2>. QED
    <3>1. /\ UNCHANGED <<conf, cert, key, db, crl, mem, loc, printed, names, stops>>
          /\ \E s \in {"b_print", "m_load", "m_listen"} : Goto(p, s)
          /\ lock' = lock \/ Release(p)
      BY <1>6 DEF BootstrapCache, PromotionCache, MasterCache
    <3>2. lock' \in [Locks -> Procs \cup {None}]
      BY <3>1, LockTInv
    <3>3. pc' \in [Procs -> Steps] /\ \A q \in Procs : Opened(q)'
      BY <2>1, <3>1, GotoTInv DEF Steps, Publishing
    <3>. QED  BY <2>2, <3>1, <3>2, <3>3 DEF TInv, TypeOK
<1>. QED  BY <1>1, <1>2, <1>3, <1>4, <1>5, <1>6

\* Every reachable state is well typed: a step finds the Root CA, the
\* recovery key and the tables it writes with, for any number of commands.
THEOREM TypeCorrect == Spec => []TypeOK
<1>1. IInv /\ TInv /\ [Next]_vars => TInv'
  <2> SUFFICES ASSUME IInv, TInv, [Next]_vars PROVE TInv'
      OBVIOUS
  <2>1. CASE UNCHANGED vars
    BY <2>1 DEF vars, disk, TInv, TypeOK, Opened
  <2>2. ASSUME NEW p \in Procs, Step(p) PROVE TInv'
    <3>1. CASE Refuse(p)
      BY <3>1, QuietTInv
    <3>. QED  BY <2>2, <3>1, QuietTInv, WriteTInv DEF Step
  <2>. QED  BY <2>1, <2>2, QuietTInv DEF Next
<1>2. TInv => TypeOK
    BY DEF TInv
<1>. QED  BY <1>1, <1>2, InitTInv, ActivationInvariant, PTL DEF Spec

-----------------------------------------------------------------------------
(* The tables of a promoted master *)

Net == {"network"}

\* A host with the network's Root CA is configured as a master only when its
\* tables and its CRL hold the network's records.  Its cache holds them until
\* there is a key for a master, of whatever mode, to start with.
FilesRestored ==
    /\ cert # Network => conf.mode = "master"
    /\ cert = Network /\ key = None /\ cache # None => cache.data = Net
    /\ cert = Network /\ conf.mode = "master" => db = Net /\ crl = Net

\* What the steps of a promotion have restored, and what a master that was
\* configured as one has published.
Restores(p) ==
    /\ mem[p].mode = "master" => conf.mode = "master"
    /\ pc[p] \in PHolds \ {"p_verify"} => loc[p].data = Net
    /\ pc[p] \in {"p_crl", "p_config", "p_cache"} => db = Net
    /\ pc[p] \in {"p_config", "p_cache"} => crl = Net
    /\ (pc[p] \in {"m_listen", "serving"} /\ mem[p].mode = "master" /\ cert = Network)
          => cache.data = Net

RInv == FilesRestored /\ \A p \in Procs : Restores(p)

LEMMA InitRInv == Init => RInv
BY SMT, Z3 DEF Init, RInv, FilesRestored, Restores, PHolds, Network, Net

\* Steps that leave the files alone.
LEMMA QuietRInv ==
    ASSUME NEW p \in Procs, IInv, RInv,
           \/ StartBootstrap(p) \/ StartMaster(p) \/ StartPromote(p, Network) \/ StartPromote(p, None)
           \/ Refuse(p) \/ Stop(p) \/ BootstrapLock(p) \/ PromotionLock(p)
           \/ BootstrapPrint(p) \/ MasterListen(p) \/ BootstrapCheck(p)
    PROVE  RInv'
<1>1. UNCHANGED disk
    BY DEF StartBootstrap, StartMaster, StartPromote, Refuse, Stop, BootstrapLock, PromotionLock,
           BootstrapPrint, MasterListen, BootstrapCheck
<1>2. /\ \/ \E s \in {"off", "b_lock", "p_lock", "m_load", "b_check", "p_verify", "b_cert"} :
               pc' = [pc EXCEPT ![p] = s]
         \/ pc[p] = "m_listen" /\ pc' = [pc EXCEPT ![p] = "serving"]
      /\ \A q \in Procs : q # p => loc'[q] = loc[q]
      /\ mem' = mem \/ mem' = [mem EXCEPT ![p] = conf]
  <2>1. CASE StartBootstrap(p) \/ StartPromote(p, Network) \/ StartPromote(p, None)
    BY <2>1 DEF StartBootstrap, StartPromote, Start, Goto, IInv, Typed
  <2>2. CASE StartMaster(p)
    BY <2>2 DEF StartMaster, Start, Goto, IInv, Typed
  <2>3. CASE Refuse(p) \/ Stop(p) \/ BootstrapLock(p) \/ PromotionLock(p) \/ BootstrapPrint(p)
    BY <2>3 DEF Refuse, Stop, BootstrapLock, PromotionLock, BootstrapPrint, Goto
  <2>4. CASE MasterListen(p)
    BY <2>4 DEF MasterListen, Refuse, Goto
  <2>5. CASE BootstrapCheck(p)
    BY <2>5 DEF BootstrapCheck, Refuse, Goto, IInv, Typed
  <2>. QED  BY <2>1, <2>2, <2>3, <2>4, <2>5
<1>3. FilesRestored'
    BY <1>1 DEF RInv, FilesRestored, disk
<1>4. ASSUME NEW q \in Procs PROVE Restores(q)'
  <2>1. mem'[q] = mem[q] \/ mem'[q] = conf
    BY <1>2 DEF IInv, Typed
  <2>2. mem'[q].mode = "master" => conf'.mode = "master"
    BY <1>1, <2>1 DEF RInv, Restores, disk
  <2>3. CASE q # p
    <3>1. pc'[q] = pc[q] /\ loc'[q] = loc[q] /\ mem'[q] = mem[q]
      BY <1>2, <2>3 DEF IInv, Typed
    <3>. QED  BY <1>1, <3>1 DEF RInv, Restores, disk
  <2>4. CASE q = p
    <3>1. \/ pc'[q] \in {"off", "b_lock", "p_lock", "m_load", "b_check", "p_verify", "b_cert"}
          \/ pc[q] = "m_listen" /\ pc'[q] = "serving"
      BY <1>2, <2>4 DEF IInv, Typed
    <3>2. pc[q] = "m_listen" /\ pc'[q] = "serving" => mem' = mem
      BY <2>4 DEF StartBootstrap, StartMaster, StartPromote, Start, Refuse, Stop, BootstrapLock,
                  PromotionLock, BootstrapPrint, MasterListen, BootstrapCheck
    <3>3. CASE pc[q] = "m_listen" /\ pc'[q] = "serving"
      BY <1>1, <2>2, <3>2, <3>3 DEF RInv, Restores, PHolds, disk
    <3>. QED  BY <2>2, <3>1, <3>3 DEF Restores, PHolds
  <2>. QED  BY <2>3, <2>4
<1>. QED  BY <1>3, <1>4 DEF RInv

\* A bootstrap works on a host without the network's Root CA.
LEMMA BootstrapRInv ==
    ASSUME NEW p \in Procs, IInv, RInv, IInv',
           \/ SaveCert(p) \/ SaveKey(p) \/ BootstrapConfig(p) \/ BootstrapStore(p)
           \/ BootstrapCRL(p) \/ BootstrapCache(p)
    PROVE  RInv'
<1>1. CASE pc[p] \in {"p_cert", "p_key"}
  <2>1. /\ cert' = cert
        /\ UNCHANGED <<conf, db, crl, cache, mem, loc>>
        /\ \E s \in {"p_key", "p_restore"} : pc' = [pc EXCEPT ![p] = s]
        /\ key' = None => key = None
    BY <1>1 DEF SaveCert, SaveKey, BootstrapConfig, BootstrapStore, BootstrapCRL, BootstrapCache,
                Goto, IInv, Knows, PHolds
  <2>2. FilesRestored'
    BY <2>1 DEF RInv, FilesRestored
  <2>3. ASSUME NEW q \in Procs PROVE Restores(q)'
    BY <1>1, <2>1, SMT, Z3 DEF RInv, Restores, IInv, Typed, PHolds
  <2>. QED  BY <2>2, <2>3 DEF RInv
<1>2. CASE pc[p] \notin {"p_cert", "p_key"}
  <2>1. /\ cert # Network /\ cert' # Network
        /\ conf.mode = "master" /\ conf'.mode = "master"
        /\ UNCHANGED loc
        /\ \E s \in {"b_key", "b_config", "b_store", "b_crl", "b_cache", "b_print"} :
              pc' = [pc EXCEPT ![p] = s]
    <3>1. cert # Network /\ loc[p].ca # Network /\ conf.mode = "master"
      <4>1. pc[p] \in {"b_cert", "b_key", "b_config", "b_store", "b_crl", "b_cache"}
        BY <1>2 DEF SaveCert, SaveKey, BootstrapConfig, BootstrapStore, BootstrapCRL, BootstrapCache
      <4>2. loc[p].ca \in Generated /\ (pc[p] = "b_cert" => cert = None)
            /\ (pc[p] # "b_cert" => cert = loc[p].ca)
        BY <4>1 DEF IInv, Knows
      <4>3. cert # Network /\ loc[p].ca # Network
        BY <4>2, SMT, Z3 DEF Generated, Network
      <4>. QED  BY <4>3 DEF RInv, FilesRestored
    <3>2. CASE SaveCert(p) \/ SaveKey(p)
      BY <1>2, <3>1, <3>2, SMT, Z3 DEF SaveCert, SaveKey, Goto
    <3>3. CASE BootstrapConfig(p)
      BY <3>1, <3>3 DEF BootstrapConfig, Goto, Save
    <3>4. CASE BootstrapStore(p) \/ BootstrapCRL(p) \/ BootstrapCache(p)
      BY <3>1, <3>4 DEF BootstrapStore, BootstrapCRL, BootstrapCache, Goto
    <3>. QED  BY <3>2, <3>3, <3>4
  <2>2. FilesRestored'
    BY <2>1 DEF FilesRestored
  <2>3. ASSUME NEW q \in Procs PROVE Restores(q)'
    <3>1. pc[q] \notin PHolds \ {"p_verify"}
      BY <2>1 DEF IInv, Knows
    <3>. QED  BY <2>1, <3>1, SMT, Z3 DEF RInv, Restores, IInv, Typed, PHolds
  <2>. QED  BY <2>2, <2>3 DEF RInv
<1>. QED  BY <1>1, <1>2

\* A promotion takes the network's records from the cache and switches the
\* configuration when all of them are in place.
LEMMA PromotionRInv ==
    ASSUME NEW p \in Procs, IInv, RInv,
           \/ PromotionVerify(p) \/ PromotionRestore(p) \/ PromotionCRL(p)
           \/ PromotionConfig(p) \/ PromotionCache(p)
    PROVE  RInv'
<1>0. CASE PromotionVerify(p) /\ ~Recoverable(p)
    BY <1>0, QuietRInv DEF PromotionVerify
<1>1. CASE PromotionVerify(p) /\ Recoverable(p)
  <2>1. /\ Recoverable(p)
        /\ loc' = [loc EXCEPT ![p].ca = cache.ca, ![p].data = cache.data]
        /\ pc' = [pc EXCEPT ![p] = "p_cert"]
        /\ UNCHANGED <<disk, mem>>
    BY <1>1 DEF PromotionVerify, Goto
  <2>2. cache.data = Net
    BY <2>1 DEF Recoverable, IInv, Files, RInv, FilesRestored
  <2>3. loc'[p].data = Net /\ \A q \in Procs : q # p => loc'[q] = loc[q]
    BY <2>1, <2>2, SMT, Z3 DEF IInv, Typed, Locals
  <2>4. FilesRestored'
    BY <2>1 DEF RInv, FilesRestored, disk
  <2>5. ASSUME NEW q \in Procs PROVE Restores(q)'
    BY <2>1, <2>2, <2>3 DEF RInv, Restores, IInv, Typed, PHolds, disk
  <2>. QED  BY <2>4, <2>5 DEF RInv
<1>2. CASE PromotionRestore(p) \/ PromotionCRL(p)
  <2>1. /\ cert = Network
        /\ UNCHANGED <<conf, cert, key, cache, mem, loc>>
        /\ \/ /\ db' = Net /\ crl' = crl
              /\ pc' = [pc EXCEPT ![p] = "p_crl"]
           \/ /\ db' = db /\ db = Net /\ crl' = Net
              /\ pc' = [pc EXCEPT ![p] = "p_config"]
        /\ loc[p].data = Net
    BY <1>2 DEF PromotionRestore, PromotionCRL, WriteCRL, Goto, IInv, Knows, RInv, Restores, PHolds
  <2>2. FilesRestored'
    BY <2>1 DEF RInv, FilesRestored
  <2>3. ASSUME NEW q \in Procs PROVE Restores(q)'
    BY <2>1, SMT, Z3 DEF RInv, Restores, IInv, Typed, PHolds
  <2>. QED  BY <2>2, <2>3 DEF RInv
<1>3. CASE PromotionConfig(p)
  <2>1. /\ pc[p] = "p_config" /\ pc' = [pc EXCEPT ![p] = "p_cache"]
        /\ conf' = [mem[p] EXCEPT !.mode = "master"]
        /\ mem' = [mem EXCEPT ![p] = conf']
        /\ UNCHANGED <<cert, key, db, crl, cache, loc>>
    BY <1>3 DEF PromotionConfig, Save, Goto
  <2>2. cert = Network /\ db = Net /\ crl = Net /\ loc[p].data = Net
    BY <2>1 DEF IInv, Knows, RInv, Restores, PHolds
  <2>3. mem[p] \in [mode : {"client", "master"}, recovery : Nat \cup {None}]
    BY DEF IInv, Typed
  <2>4. conf'.mode = "master"
    BY <2>1, <2>3
  <2>5. FilesRestored'
    BY <2>1, <2>2, <2>4 DEF RInv, FilesRestored
  <2>6. ASSUME NEW q \in Procs PROVE Restores(q)'
    <3>1. CASE q = p
      <4>1. pc'[q] = "p_cache"
        BY <2>1, <3>1 DEF IInv, Typed
      <4>. QED  BY <2>1, <2>2, <2>4, <3>1, <4>1 DEF Restores
    <3>2. CASE q # p
      <4>1. pc'[q] = pc[q] /\ mem'[q] = mem[q]
        BY <2>1, <3>2 DEF IInv, Typed
      <4>. QED  BY <2>1, <2>4, <4>1 DEF RInv, Restores
    <3>. QED  BY <3>1, <3>2
  <2>. QED  BY <2>5, <2>6 DEF RInv
<1>4. CASE PromotionCache(p)
  <2>1. /\ db = Net
        /\ cache' = [ca |-> loc[p].ca, recovery |-> mem[p].recovery, data |-> db]
        /\ UNCHANGED <<conf, cert, key, db, crl, mem, loc>>
        /\ pc' = [pc EXCEPT ![p] = "m_load"]
    BY <1>4 DEF PromotionCache, RebuildEncryptedCache, Goto, RInv, Restores
  <2>2. cache'.data = Net
    BY <2>1
  <2>3. FilesRestored'
    BY <2>1, <2>2 DEF RInv, FilesRestored
  <2>4. ASSUME NEW q \in Procs PROVE Restores(q)'
    BY <2>1, <2>2 DEF RInv, Restores, IInv, Typed, PHolds
  <2>. QED  BY <2>3, <2>4 DEF RInv
<1>. QED  BY <1>0, <1>1, <1>2, <1>3, <1>4

\* A starting master works on what is there.
LEMMA MasterRInv ==
    ASSUME NEW p \in Procs, IInv, RInv,
           MasterLoad(p) \/ MasterCRL(p) \/ MasterCache(p)
    PROVE  RInv'
<1>1. CASE Refuse(p)
    BY <1>1, QuietRInv
<1>2. CASE MasterLoad(p) /\ ~Refuse(p)
  <2>1. /\ key # None
        /\ db' = IF db = None THEN {} ELSE db
        /\ \A q \in Procs : q # p => loc'[q] = loc[q]
        /\ pc' = [pc EXCEPT ![p] = "m_crl"]
        /\ UNCHANGED <<conf, cert, key, crl, cache, mem>>
    BY <1>2 DEF MasterLoad, Goto, IInv, Typed
  <2>2. db = Net => db' = db
    BY <2>1, NoneIsNoRecords DEF Net, Records
  <2>3. FilesRestored'
    BY <2>1, <2>2 DEF RInv, FilesRestored
  <2>4. ASSUME NEW q \in Procs PROVE Restores(q)'
    <3>1. CASE q = p
      <4>1. pc'[q] = "m_crl"
        BY <2>1, <3>1 DEF IInv, Typed
      <4>. QED  BY <2>1, <4>1 DEF RInv, Restores, PHolds
    <3>2. CASE q # p
      <4>1. pc'[q] = pc[q] /\ loc'[q] = loc[q]
        BY <2>1, <3>2 DEF IInv, Typed
      <4>. QED  BY <2>1, <2>2, <4>1 DEF RInv, Restores
    <3>. QED  BY <3>1, <3>2
  <2>. QED  BY <2>3, <2>4 DEF RInv
<1>3. CASE MasterCRL(p)
  <2>1. /\ crl' = db
        /\ pc' = [pc EXCEPT ![p] = "m_cache"]
        /\ UNCHANGED <<conf, cert, key, db, cache, mem, loc>>
    BY <1>3 DEF MasterCRL, WriteCRL, Goto
  <2>2. FilesRestored'
    BY <2>1 DEF RInv, FilesRestored
  <2>3. ASSUME NEW q \in Procs PROVE Restores(q)'
    BY <2>1 DEF RInv, Restores, IInv, Typed, PHolds
  <2>. QED  BY <2>2, <2>3 DEF RInv
<1>4. CASE MasterCache(p) /\ ~Refuse(p)
  <2>1. /\ key # None
        /\ cache' = [ca |-> loc[p].ca, recovery |-> mem[p].recovery, data |-> db]
        /\ pc' = [pc EXCEPT ![p] = "m_listen"]
        /\ UNCHANGED <<conf, cert, key, db, crl, mem, loc>>
    BY <1>4 DEF MasterCache, RebuildEncryptedCache, Goto, IInv, Knows, MLoaded
  <2>2. cache'.data = db
    BY <2>1
  <2>3. FilesRestored'
    BY <2>1 DEF RInv, FilesRestored
  <2>4. ASSUME NEW q \in Procs PROVE Restores(q)'
    <3>1. mem[q].mode = "master" /\ cert = Network => cache'.data = Net
      BY <2>2 DEF RInv, FilesRestored, Restores
    <3>. QED  BY <2>1, <3>1 DEF RInv, Restores, IInv, Typed, PHolds
  <2>. QED  BY <2>3, <2>4 DEF RInv
<1>. QED  BY <1>1, <1>2, <1>3, <1>4

\* Every step keeps what has been restored.
LEMMA NextRInv ==
    IInv /\ IInv' /\ RInv /\ [Next]_vars => RInv'
<1> SUFFICES ASSUME IInv, IInv', RInv, [Next]_vars PROVE RInv'
    OBVIOUS
<1>1. CASE UNCHANGED vars
    BY <1>1 DEF vars, disk, RInv, FilesRestored, Restores
<1>2. CASE Next
  <2>1. PICK p \in Procs :
          \/ StartBootstrap(p) \/ StartMaster(p) \/ Step(p) \/ Stop(p)
          \/ \E seed \in {Network, None} : StartPromote(p, seed)
    BY <1>2 DEF Next
  <2>. QED  BY <2>1, QuietRInv, BootstrapRInv, PromotionRInv, MasterRInv DEF Step
<1>. QED  BY <1>1, <1>2

\* Whatever commands run, in whatever mode they are given, and wherever they
\* stop: a master that was configured as one serves and publishes the
\* records a promotion restored.
THEOREM PromotedServesRestored == Spec => []ServesRestored
<1>1. RInv => ServesRestored
    BY DEF RInv, FilesRestored, Restores, ServesRestored, Net
<1>2. Init => RInv
    BY InitRInv
<1>3. IInv /\ IInv' /\ RInv /\ [Next]_vars => RInv'
    BY NextRInv
<1>. QED  BY <1>1, <1>2, <1>3, ActivationInvariant, PTL DEF Spec

=============================================================================
