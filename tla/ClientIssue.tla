----------------------------- MODULE ClientIssue -----------------------------
(***************************************************************************)
(* --mode=client --issue: a certificate for the host itself, over its mTLS *)
(* identity.  Three places check the names in it, the client before it     *)
(* asks, the master before it signs and the client again before it writes  *)
(* the files, and the certificate and its encrypted key are written one    *)
(* after the other under no lock.  Several runs may be under way on a host *)
(* and each may fail or be stopped between any two steps.                  *)
(*                                                                         *)
(* A name is what its text stands for and how it is written, with blanks   *)
(* around it or in upper case.  A key is named by the run that made it.    *)
(***************************************************************************)
EXTENDS Naturals, FiniteSets

CONSTANTS
    Procs,
    Spellings,  \* the subjects and names that are written
    None,
    MaxRuns,    \* bound: certificates asked for
    MaxStrays   \* bound: CSRs of other clients

Loopbacks == {"localhost", "127.0.0.1", "127.0.0.2", "::1"}

Name(is, padded, upper) == [is |-> is, padded |-> padded, upper |-> upper]

Names == [is : Loopbacks \cup {"192.168.0.1", "app.internal"}, padded : BOOLEAN, upper : BOOLEAN]

ASSUME ClientIssueAssumption ==
    /\ Spellings \subseteq Names
    /\ None \notin Procs \cup Nat
    /\ MaxRuns \in Nat /\ MaxStrays \in Nat

Addresses == {"127.0.0.1", "127.0.0.2", "::1", "192.168.0.1"}

Plain(is) == Name(is, FALSE, FALSE)

VARIABLES
    issued,     \* issued/<name>: the runs the certificate and the key are of
    pc,
    run,        \* the number and the subject of a process's run
    cert,       \* the certificate a process has received
    recorded,   \* the certificates in the master's database
    runs,
    strays,
    torn        \* the names at which a run stopped between its two writes, or
                \* two runs have written at once

vars == <<issued, pc, run, cert, recorded, runs, strays, torn>>

-----------------------------------------------------------------------------

Bases == Loopbacks

Steps == {"idle", "post", "validate", "prompt", "crt", "key", "refused"}

TypeOK ==
    /\ issued \in [Bases -> [crt : Nat \cup {None}, key : Nat \cup {None}]]
    /\ pc \in [Procs -> Steps]
    /\ run \in [Procs -> [key : Nat, subject : Names \cup {None}]]
    /\ \A p \in Procs : cert[p] \in recorded \cup {None}
    /\ \A c \in recorded : c.key \in 0 .. runs /\ c.dns \subseteq Names /\ c.ips \subseteq Addresses
    /\ runs \in 0 .. MaxRuns
    /\ strays \in 0 .. MaxStrays
    /\ torn \in SUBSET Bases

Init ==
    /\ issued = [b \in Bases |-> [crt |-> None, key |-> None]]
    /\ pc = [p \in Procs |-> "idle"]
    /\ run = [p \in Procs |-> [key |-> 0, subject |-> None]]
    /\ cert = [p \in Procs |-> None]
    /\ recorded = {}
    /\ runs = 0 /\ strays = 0 /\ torn = {}

-----------------------------------------------------------------------------
(* The checks *)

\* Blanks and case are ignored.
isLoopbackTarget(subject) == subject.is \in Loopbacks

\* Mutant: the names are those of localhost whatever the subject.
loopbackSANs_Localhost(subject) == [dns |-> {Plain("localhost")}, ips |-> {"127.0.0.1", "::1"}]

\* An address is certified alone, "localhost" with both usual addresses.
loopbackSANs(subject) ==
    IF subject.is \in Addresses
    THEN [dns |-> {}, ips |-> {subject.is}]
    ELSE [dns |-> {Plain("localhost")}, ips |-> {"127.0.0.1", "::1"}]

enforceLoopbackOnly(csr, localhost) ==
    /\ csr.cn # None => isLoopbackTarget(csr.cn)
    /\ ~csr.other
    /\ localhost
    /\ csr.dns \subseteq {Plain("localhost")}
    /\ csr.ips \subseteq Loopbacks
    /\ csr.dns # {} \/ csr.ips # {}

\* crypto/x509's VerifyHostname: an address by value, a name by its letters;
\* neither with blanks around it.
VerifyHostname(c, subject) ==
    /\ ~subject.padded
    /\ IF subject.is \in Addresses
       THEN subject.is \in c.ips
       ELSE Plain(subject.is) \in c.dns

validateIssuedCertificate(c, key, subject) ==
    /\ c.key = key
    /\ VerifyHostname(c, subject)
    /\ c.dns \subseteq {Plain("localhost")}
    /\ c.ips \subseteq Loopbacks

\* Upper case and blanks do not make another file name.
sanitizeName(subject) == subject.is

-----------------------------------------------------------------------------
(* The run of a command *)

Running(p) == pc[p] \notin {"idle", "refused"}

\* Mutant: the key is written before the certificate is asked for.
RunClientIssue_KeyFirst(p, subject) ==
    /\ ~Running(p)
    /\ isLoopbackTarget(subject)
    /\ runs < MaxRuns
    /\ runs' = runs + 1
    /\ run' = [run EXCEPT ![p] = [key |-> runs + 1, subject |-> subject]]
    /\ pc' = [pc EXCEPT ![p] = "post"]
    /\ issued' = [issued EXCEPT ![sanitizeName(subject)].key = runs + 1]
    /\ UNCHANGED <<cert, recorded, strays, torn>>

\* A new key is generated for a loopback subject; others are refused here.
RunClientIssue(p, subject) ==
    /\ ~Running(p)
    /\ isLoopbackTarget(subject)
    /\ runs < MaxRuns
    /\ runs' = runs + 1
    /\ run' = [run EXCEPT ![p] = [key |-> runs + 1, subject |-> subject]]
    /\ pc' = [pc EXCEPT ![p] = "post"]
    /\ UNCHANGED <<issued, cert, recorded, strays, torn>>

CSROf(p) ==
    [key |-> run[p].key, cn |-> run[p].subject, dns |-> loopbackSANs(run[p].subject).dns,
     ips |-> loopbackSANs(run[p].subject).ips, other |-> FALSE]

\* SignCSR copies key and names of the CSR.
SignCSR(csr) == [key |-> csr.key, cn |-> csr.cn, dns |-> csr.dns, ips |-> csr.ips]

\* The handler signs and records what passes, or the request is refused.
requestCSRSign(p) ==
    /\ pc[p] = "post"
    /\ IF enforceLoopbackOnly(CSROf(p), TRUE)
       THEN /\ recorded' = recorded \cup {SignCSR(CSROf(p))}
            /\ cert' = [cert EXCEPT ![p] = SignCSR(CSROf(p))]
            /\ pc' = [pc EXCEPT ![p] = "validate"]
       ELSE /\ pc' = [pc EXCEPT ![p] = "refused"]
            /\ UNCHANGED <<recorded, cert>>
    /\ UNCHANGED <<issued, run, runs, strays, torn>>

\* The master has recorded the certificate but its answer is lost.
AnswerLost(p) ==
    /\ pc[p] = "post"
    /\ enforceLoopbackOnly(CSROf(p), TRUE)
    /\ recorded' = recorded \cup {SignCSR(CSROf(p))}
    /\ pc' = [pc EXCEPT ![p] = "idle"]
    /\ UNCHANGED <<issued, run, cert, runs, strays, torn>>

Validate(p) ==
    /\ pc[p] = "validate"
    /\ pc' = [pc EXCEPT ![p] = IF validateIssuedCertificate(cert[p], run[p].key, run[p].subject)
                               THEN "prompt" ELSE "refused"]
    /\ UNCHANGED <<issued, run, cert, recorded, runs, strays, torn>>

\* Two equal passwords that are not empty, or the command ends (Fail).
promptPassword(p) ==
    /\ pc[p] = "prompt"
    /\ pc' = [pc EXCEPT ![p] = "crt"]
    /\ UNCHANGED <<issued, run, cert, recorded, runs, strays, torn>>

Base(p) == sanitizeName(run[p].subject)

\* Some process other than p has written its certificate as b and not yet
\* its key.
HalfWritten(b, p) == \E q \in Procs \ {p} : pc[q] = "key" /\ Base(q) = b

WriteCrt(p) ==
    /\ pc[p] = "crt"
    /\ issued' = [issued EXCEPT ![Base(p)].crt = cert[p].key]
    /\ pc' = [pc EXCEPT ![p] = "key"]
    /\ torn' = IF HalfWritten(Base(p), p) THEN torn \cup {Base(p)} ELSE torn \ {Base(p)}
    /\ UNCHANGED <<run, cert, recorded, runs, strays>>

\* Mutant: a key that is there already is kept.
WriteKey_KeepsExisting(p) ==
    /\ pc[p] = "key"
    /\ issued' = [issued EXCEPT ![Base(p)].key = IF @ = None THEN run[p].key ELSE @]
    /\ pc' = [pc EXCEPT ![p] = "idle"]
    /\ UNCHANGED <<run, cert, recorded, runs, strays, torn>>

WriteKey(p) ==
    /\ pc[p] = "key"
    /\ issued' = [issued EXCEPT ![Base(p)].key = run[p].key]
    /\ pc' = [pc EXCEPT ![p] = "idle"]
    /\ UNCHANGED <<run, cert, recorded, runs, strays, torn>>

\* A request, a prompt or a write fails, or the command is stopped: what is
\* on disk and at the master stays.
Fail(p) ==
    /\ Running(p)
    /\ pc' = [pc EXCEPT ![p] = "idle"]
    /\ torn' = IF pc[p] = "key" THEN torn \cup {Base(p)} ELSE torn
    /\ UNCHANGED <<issued, run, cert, recorded, runs, strays>>

\* Another program of an enrolled host sends a CSR of its own making.
StrayCSR(csr, localhost) ==
    /\ strays < MaxStrays
    /\ strays' = strays + 1
    /\ enforceLoopbackOnly(csr, localhost)
    /\ recorded' = recorded \cup {SignCSR(csr)}
    /\ UNCHANGED <<issued, pc, run, cert, runs, torn>>

StrayCSRs ==
    [key : {0}, cn : Spellings \cup {None}, dns : {{}} \cup {{n} : n \in Spellings},
     ips : {{}} \cup {{a} : a \in Addresses}, other : BOOLEAN]

Next ==
    \/ \E p \in Procs :
        \/ \E s \in Spellings : RunClientIssue(p, s)
        \/ requestCSRSign(p) \/ AnswerLost(p) \/ Validate(p) \/ promptPassword(p)
        \/ WriteCrt(p) \/ WriteKey(p) \/ Fail(p)
    \/ \E csr \in StrayCSRs, localhost \in BOOLEAN : StrayCSR(csr, localhost)

Spec == Init /\ [][Next]_vars

-----------------------------------------------------------------------------

\* The three checks agree: a subject that passes the first one is refused by
\* the master or by the check of the answer only if it was given with blanks
\* around it, when the master has recorded the certificate.
SubjectsPass == \A p \in Procs : pc[p] = "refused" => run[p].subject.padded

\* A certificate or a key under issued/ belongs to a certificate the master
\* has recorded for that name and can revoke, wherever a run was stopped.
InstalledIsRecorded ==
    \A b \in Bases : \A k \in {issued[b].crt, issued[b].key} \ {None} :
        \E c \in recorded : c.key = k /\ VerifyHostname(c, Plain(b))

\* The certificate and the key under one name are of the same run, unless a
\* run is between its two writes, the last one stopped there, or two runs
\* wrote that name at once.  A later run that is alone puts both right: it
\* never leaves the key of an earlier one beside its certificate.
IssuedPairMatches ==
    \A b \in Bases :
        issued[b].crt # issued[b].key =>
            b \in torn \/ \E p \in Procs : pc[p] = "key" /\ Base(p) = b

=============================================================================
