------------------------------- MODULE Store -------------------------------
(***************************************************************************)
(* The master's SQLite database (store.go) as a value, and its statements  *)
(* as operators on that value.  The store runs on one connection and every *)
(* statement or transaction is atomic, so an action of the modules that    *)
(* use this one executes one operator per step.                            *)
(*                                                                         *)
(* A serial number, an IP address and a certificate subject are opaque.    *)
(* Subjects stand for their lower-case form, the form in which the store   *)
(* compares them.  Time stamps, SANs and PEM bodies are left out: no       *)
(* decision of the code depends on them once a certificate is issued.      *)
(***************************************************************************)
EXTENDS Integers

CONSTANTS
    IPs,        \* client addresses
    Targets,    \* names and addresses certificates are issued for
    Serials     \* certificate serial numbers

Larger(a, b) == IF a >= b THEN a ELSE b

\* The common name of a client's enrollment identity, identityPrefix + ip.
Identity(ip) == <<"natssl-client", ip>>

Subjects == Targets \cup {Identity(ip) : ip \in IPs}

Reasons == {"unspecified", "superseded"}

CertRecords == [serial : Serials, subject : Subjects]

RevokedRecords == [serial : Serials, reason : Reasons]

\* The four tables and the two rows of the table state.
Databases ==
    [clients : SUBSET IPs, certs : SUBSET CertRecords,
     revoked : SUBSET RevokedRecords, blacklist : SUBSET IPs,
     cacheSequence : Nat, crlNumber : Nat]

\* What a snapshot carries of the database; the sequence number is added to
\* the envelope by RebuildEncryptedCache.
Snapshots ==
    [clients : SUBSET IPs, certs : SUBSET CertRecords,
     revoked : SUBSET RevokedRecords, blacklist : SUBSET IPs, crlNumber : Nat]

\* A database just created by OpenStore.
migrate ==
    [clients |-> {}, certs |-> {}, revoked |-> {}, blacklist |-> {},
     cacheSequence |-> 0, crlNumber |-> 0]

-----------------------------------------------------------------------------
(* Queries *)

IsRevoked(d, s) == \E r \in d.revoked : r.serial = s

IsBlocked(d, ip) == ip \in d.blacklist

hasClient(d, ip) == ip \in d.clients

HasCert(d, s, subject) == [serial |-> s, subject |-> subject] \in d.certs

BuildSnapshot(d) ==
    [clients |-> d.clients, certs |-> d.certs, revoked |-> d.revoked,
     blacklist |-> d.blacklist, crlNumber |-> d.crlNumber]

-----------------------------------------------------------------------------
(* Updates *)

registerClient(d, ip) == [d EXCEPT !.clients = @ \cup {ip}]

RemoveClient(d, ip) == [d EXCEPT !.clients = @ \ {ip}]

BlockIP(d, ip) == [d EXCEPT !.blacklist = @ \cup {ip}]

UnblockIP(d, ip) == [d EXCEPT !.blacklist = @ \ {ip}]

\* The record's id is its serial, so an insert replaces a record of the same
\* serial.
AddCert(d, s, subject) ==
    [d EXCEPT !.certs = {c \in @ : c.serial # s}
                        \cup {[serial |-> s, subject |-> subject]}]

\* ON CONFLICT DO NOTHING: the first revocation of a serial keeps its reason.
RevokeCert(d, s, reason) ==
    [d EXCEPT !.revoked = IF IsRevoked(d, s) THEN @
                          ELSE @ \cup {[serial |-> s, reason |-> reason]}]

\* Mutant: the new certificate is revoked with the old ones.
replaceCertificate_RevokesAll(d, s, subject) ==
    LET all == {c \in AddCert(d, s, subject).certs : /\ c.subject = subject
                                                     /\ ~IsRevoked(d, c.serial)}
    IN  [AddCert(d, s, subject) EXCEPT !.revoked =
            @ \cup {[serial |-> c.serial, reason |-> "superseded"] : c \in all}]

\* The replacement is inserted and every other certificate of its subject
\* revoked in one transaction.
replaceCertificate(d, s, subject) ==
    LET superseded == {c \in d.certs : /\ c.subject = subject
                                       /\ c.serial # s
                                       /\ ~IsRevoked(d, c.serial)}
    IN  [AddCert(d, s, subject) EXCEPT !.revoked =
            @ \cup {[serial |-> c.serial, reason |-> "superseded"] : c \in superseded}]

\* Mutant: the file on disk is ignored.
raiseCacheSequence_Ignored(d, seq) == d

\* RebuildEncryptedCache's UPDATE: never number below the file on disk.
raiseCacheSequence(d, seq) == [d EXCEPT !.cacheSequence = Larger(@, seq)]

nextCacheSequence(d) == [d EXCEPT !.cacheSequence = @ + 1]

\* Mutants: the clock alone, the counter alone.
nextCRLNumber_ClockOnly(d, floor) == [d EXCEPT !.crlNumber = floor]
nextCRLNumber_NoFloor(d, floor) == [d EXCEPT !.crlNumber = @ + 1]

\* floor is the clock in nanoseconds.
nextCRLNumber(d, floor) == [d EXCEPT !.crlNumber = Larger(@ + 1, floor)]

\* Mutant: the revocations of the snapshot are not inserted.
RestoreSnapshot_NoRevocations(d, snap, seq) ==
    [clients |-> snap.clients, certs |-> snap.certs,
     revoked |-> {}, blacklist |-> snap.blacklist,
     cacheSequence |-> Larger(d.cacheSequence, seq),
     crlNumber |-> Larger(d.crlNumber, snap.crlNumber)]

\* One transaction: the four tables are emptied and filled from the snapshot,
\* the two counters only ever raised.  seq is the snapshot's own number.
RestoreSnapshot(d, snap, seq) ==
    [clients |-> snap.clients, certs |-> snap.certs,
     revoked |-> snap.revoked, blacklist |-> snap.blacklist,
     cacheSequence |-> Larger(d.cacheSequence, seq),
     crlNumber |-> Larger(d.crlNumber, snap.crlNumber)]

=============================================================================
