---------------------------- MODULE Publication ----------------------------
(***************************************************************************)
(* What a master promises the clients that pull from it, whatever commands *)
(* and requests run at the same time and wherever they fail.  The tables   *)
(* go through versions 0, 1, 2, ...  The published cache and the published *)
(* CRL each show one version; they move forward only, the cache under a    *)
(* larger sequence number each time; and a write is acknowledged only when *)
(* the files that must show it do.                                         *)
(***************************************************************************)
EXTENDS Integers

VARIABLES
    version,    \* the version of the tables
    cache,      \* the published cache: its sequence number and its version
    crl,        \* the version of the published CRL
    acked       \* the latest write acknowledged, for the cache and the CRL

pubVars == <<version, cache, crl, acked>>

Init ==
    /\ version = 0
    /\ cache = [seq |-> 2, version |-> 0]
    /\ crl = 0
    /\ acked = [cache |-> 0, crl |-> 0]

ChangeTables ==
    /\ version' = version + 1
    /\ UNCHANGED <<cache, crl, acked>>

PublishCache ==
    /\ cache'.seq > cache.seq
    /\ cache'.version \in cache.version .. version
    /\ UNCHANGED <<version, crl, acked>>

PublishCRL ==
    /\ crl' \in crl .. version
    /\ UNCHANGED <<version, cache, acked>>

Acknowledge ==
    /\ acked'.cache \in acked.cache .. cache.version
    /\ acked'.crl \in acked.crl .. crl
    /\ UNCHANGED <<version, cache, crl>>

Next == ChangeTables \/ PublishCache \/ PublishCRL \/ Acknowledge

Spec == Init /\ [][Next]_pubVars

=============================================================================
