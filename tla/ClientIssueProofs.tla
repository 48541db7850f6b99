-------------------------- MODULE ClientIssueProofs --------------------------
(***************************************************************************)
(* Proofs about ClientIssue, for any number of processes, runs, CSRs of    *)
(* other programs and any spellings of the names.                          *)
(***************************************************************************)
EXTENDS ClientIssue, TLAPS

\* A step goes to Zenon unless it names other provers, which are tried in turn.
USE ZenonT(30)

CertsSigned ==
    [key : Nat, cn : Names \cup {None}, dns : SUBSET Names, ips : SUBSET Addresses]

Pairs == [crt : Nat \cup {None}, key : Nat \cup {None}]

Typed ==
    /\ issued \in [Bases -> Pairs]
    /\ pc \in [Procs -> Steps]
    /\ run \in [Procs -> [key : Nat, subject : Names \cup {None}]]
    /\ cert \in [Procs -> recorded \cup {None}]
    /\ recorded \subseteq CertsSigned
    /\ runs \in 0 .. MaxRuns
    /\ strays \in 0 .. MaxStrays
    /\ torn \in SUBSET Bases

\* No run has a number that was not given out yet.
Numbered ==
    /\ \A p \in Procs : run[p].key <= runs
    /\ \A c \in recorded : c.key <= runs

\* What a process holds: a loopback subject, from the answer on the
\* certificate for it, and after the check one that is for the subject.
Holds ==
    \A p \in Procs :
        /\ pc[p] # "idle" => run[p].subject \in Names /\ run[p].subject.is \in Loopbacks
        /\ pc[p] \in {"validate", "prompt", "crt", "key"} =>
              cert[p] \in recorded /\ cert[p] = SignCSR(CSROf(p))

\* A process that has its key still to write is the only one at that name,
\* and the certificate there is its own, unless the name is torn.
Alone ==
    \A p \in Procs : (pc[p] = "key" /\ Base(p) \notin torn) =>
        /\ \A q \in Procs : pc[q] = "key" /\ Base(q) = Base(p) => q = p
        /\ issued[Base(p)].crt = run[p].key

Inv ==
    /\ Typed /\ Numbered /\ Holds /\ Alone
    /\ SubjectsPass /\ InstalledIsRecorded /\ IssuedPairMatches

-----------------------------------------------------------------------------
(* The three checks *)

\* loopbackSANs names its subject, and names nothing but loopbacks.
LEMMA SANs ==
    ASSUME NEW s \in Names, s.is \in Loopbacks
    PROVE  /\ loopbackSANs(s).dns \in SUBSET Names /\ loopbackSANs(s).ips \in SUBSET Addresses
           /\ loopbackSANs(s).dns \subseteq {Plain("localhost")}
           /\ loopbackSANs(s).ips \subseteq Loopbacks
           /\ loopbackSANs(s).dns # {} \/ loopbackSANs(s).ips # {}
           /\ s.is \in Addresses => s.is \in loopbackSANs(s).ips
           /\ s.is \notin Addresses => Plain(s.is) \in loopbackSANs(s).dns
<1>1. CASE s.is \in Addresses
  <2>1. loopbackSANs(s).dns = {} /\ loopbackSANs(s).ips = {s.is}
    BY <1>1 DEF loopbackSANs
  <2> QED
    BY <1>1, <2>1
<1>2. CASE s.is \notin Addresses
  <2>1. /\ loopbackSANs(s).dns = {Plain("localhost")}
        /\ loopbackSANs(s).ips = {"127.0.0.1", "::1"}
    BY <1>2 DEF loopbackSANs
  <2>2. s.is = "localhost"
    BY <1>2 DEF Loopbacks, Addresses
  <2>3. Plain("localhost") \in Names
    BY DEF Plain, Name, Names, Loopbacks
  <2>4. {"127.0.0.1", "::1"} \subseteq Loopbacks \cap Addresses
    BY DEF Loopbacks, Addresses
  <2> QED
    BY <1>2, <2>1, <2>2, <2>3, <2>4
<1> QED
  BY <1>1, <1>2

\* The master accepts the CSR of every run: its check and the client's agree.
LEMMA OwnCSRPasses ==
    ASSUME NEW p \in Procs, run[p].subject \in Names, run[p].subject.is \in Loopbacks
    PROVE  enforceLoopbackOnly(CSROf(p), TRUE)
<1>1. /\ CSROf(p).cn = run[p].subject /\ ~CSROf(p).other
      /\ CSROf(p).dns = loopbackSANs(run[p].subject).dns
      /\ CSROf(p).ips = loopbackSANs(run[p].subject).ips
  BY DEF CSROf
<1> QED
  BY <1>1, SANs DEF enforceLoopbackOnly, isLoopbackTarget

\* The certificate made from the CSR of a run is for its key and its subject,
\* and passes the client's check unless the subject has blanks around it.
LEMMA OwnCertificate ==
    ASSUME Typed, NEW p \in Procs, run[p].subject \in Names, run[p].subject.is \in Loopbacks
    PROVE  /\ SignCSR(CSROf(p)) \in CertsSigned
           /\ SignCSR(CSROf(p)).key = run[p].key
           /\ VerifyHostname(SignCSR(CSROf(p)), Plain(run[p].subject.is))
           /\ ~run[p].subject.padded =>
                 validateIssuedCertificate(SignCSR(CSROf(p)), run[p].key, run[p].subject)
<1> DEFINE c == SignCSR(CSROf(p))
<1>1. /\ c = [key |-> run[p].key, cn |-> run[p].subject,
              dns |-> loopbackSANs(run[p].subject).dns, ips |-> loopbackSANs(run[p].subject).ips]
      /\ c.key = run[p].key
      /\ c.dns = loopbackSANs(run[p].subject).dns
      /\ c.ips = loopbackSANs(run[p].subject).ips
  BY DEF SignCSR, CSROf
<1>2. run[p].key \in Nat
  BY DEF Typed
<1>3. c \in CertsSigned
  <2>1. /\ loopbackSANs(run[p].subject).dns \in SUBSET Names
        /\ loopbackSANs(run[p].subject).ips \in SUBSET Addresses
    BY SANs
  <2> HIDE DEF c
  <2> QED
    BY <1>1, <1>2, <2>1 DEF CertsSigned
<1>4. /\ Plain(run[p].subject.is).is = run[p].subject.is
      /\ ~Plain(run[p].subject.is).padded
  BY SMT, Z3 DEF Plain, Name
<1>5. /\ run[p].subject.is \in Addresses => run[p].subject.is \in c.ips
      /\ run[p].subject.is \notin Addresses => Plain(run[p].subject.is) \in c.dns
      /\ c.dns \subseteq {Plain("localhost")} /\ c.ips \subseteq Loopbacks
  BY <1>1, SANs
<1>6. VerifyHostname(c, Plain(run[p].subject.is))
  <2> HIDE DEF c
  <2> QED
    BY <1>4, <1>5 DEF VerifyHostname
<1>7. ~run[p].subject.padded => validateIssuedCertificate(c, run[p].key, run[p].subject)
  <2> HIDE DEF c
  <2> QED
    BY <1>1, <1>5 DEF VerifyHostname, validateIssuedCertificate
<1> QED
  BY <1>1, <1>3, <1>6, <1>7

-----------------------------------------------------------------------------
(* The steps *)

LEMMA InitInv == Init => Inv
<1> SUFFICES ASSUME Init PROVE Inv
  OBVIOUS
<1>1. Typed
  <2>1. runs \in 0 .. MaxRuns /\ strays \in 0 .. MaxStrays /\ 0 \in Nat
    BY ClientIssueAssumption, SMT, Z3 DEF Init
  <2>2. run \in [Procs -> [key : Nat, subject : Names \cup {None}]]
    BY <2>1 DEF Init
  <2> QED
    BY <2>1, <2>2 DEF Init, Typed, Steps, Pairs
<1>2. Numbered
  BY SMT, Z3 DEF Init, Numbered
<1>3. Holds /\ Alone /\ SubjectsPass
  BY DEF Init, Holds, Alone, SubjectsPass
<1>4. InstalledIsRecorded /\ IssuedPairMatches
  BY DEF Init, InstalledIsRecorded, IssuedPairMatches
<1> QED
  BY <1>1, <1>2, <1>3, <1>4 DEF Inv

\* A run begins.
LEMMA RunInv ==
    ASSUME Inv, NEW p \in Procs, NEW s \in Spellings, RunClientIssue(p, s)
    PROVE  Inv'
<1>1. /\ s \in Names /\ s.is \in Loopbacks /\ ~Running(p)
      /\ runs' = runs + 1 /\ runs \in Nat /\ runs < MaxRuns
      /\ run' = [run EXCEPT ![p] = [key |-> runs + 1, subject |-> s]]
      /\ pc' = [pc EXCEPT ![p] = "post"]
      /\ issued' = issued /\ cert' = cert /\ recorded' = recorded /\ strays' = strays
      /\ torn' = torn
  BY ClientIssueAssumption, SMT, Z3 DEF Inv, Typed, RunClientIssue, isLoopbackTarget
<1>2. /\ run'[p].key = runs' /\ run'[p].subject = s /\ pc'[p] = "post"
      /\ \A q \in Procs \ {p} : run'[q] = run[q] /\ pc'[q] = pc[q]
  BY <1>1 DEF Inv, Typed
<1>3. Typed'
  <2>1. runs' \in 0 .. MaxRuns /\ runs + 1 \in Nat
    BY <1>1, ClientIssueAssumption, SMT, Z3
  <2>2. run' \in [Procs -> [key : Nat, subject : Names \cup {None}]]
    BY <1>1, <2>1, SMT, Z3 DEF Inv, Typed
  <2>3. pc' \in [Procs -> Steps]
    BY <1>1 DEF Inv, Typed, Steps
  <2> QED
    BY <1>1, <2>1, <2>2, <2>3 DEF Inv, Typed
<1>4. Numbered'
  <2>1. \A k \in Nat : k <= runs => k <= runs'
    BY <1>1, SMT, Z3
  <2>2. \A q \in Procs : run'[q].key <= runs'
    <3>1. \A q \in Procs : run[q].key \in Nat /\ run[q].key <= runs
      BY DEF Inv, Typed, Numbered
    <3>2. runs' <= runs'
      BY <1>1, SMT, Z3
    <3> QED
      BY <1>2, <2>1, <3>1, <3>2
  <2>3. \A c \in recorded : c.key \in Nat /\ c.key <= runs
    BY DEF Inv, Typed, Numbered, CertsSigned
  <2>4. \A c \in recorded' : c.key <= runs'
    <3>1. recorded' = recorded
      BY <1>1
    <3> QED
      BY <2>1, <2>3, <3>1
  <2> QED
    BY <2>2, <2>4 DEF Numbered
<1>5. Holds'
  <2>1. \A q \in Procs \ {p} : CSROf(q)' = CSROf(q)
    BY <1>2 DEF CSROf
  <2>2. \A q \in Procs \ {p} : SignCSR(CSROf(q))' = SignCSR(CSROf(q))
    BY <2>1 DEF SignCSR
  <2>3. cert' = cert /\ recorded' = recorded /\ s \in Names /\ s.is \in Loopbacks
    BY <1>1
  <2> QED
    BY <1>2, <2>2, <2>3 DEF Inv, Holds
<1>6. Alone' /\ IssuedPairMatches'
  <2>1. \A q \in Procs : pc'[q] = "key" => q # p /\ pc[q] = "key"
    BY <1>2
  <2>2. \A q \in Procs : pc[q] = "key" => q # p /\ pc'[q] = "key"
    BY <1>1, <1>2 DEF Running
  <2>3. \A q \in Procs \ {p} : Base(q)' = Base(q) /\ run'[q].key = run[q].key
    BY <1>2 DEF Base
  <2>4. issued' = issued /\ torn' = torn
    BY <1>1
  <2>5. Alone'
    BY <2>1, <2>3, <2>4 DEF Inv, Alone
  <2>6. IssuedPairMatches'
    BY <2>2, <2>3, <2>4 DEF Inv, IssuedPairMatches
  <2> QED
    BY <2>5, <2>6
<1>7. SubjectsPass'
  BY <1>2 DEF Inv, SubjectsPass
<1>8. InstalledIsRecorded'
  BY <1>1 DEF Inv, InstalledIsRecorded
<1> QED
  BY <1>3, <1>4, <1>5, <1>6, <1>7, <1>8 DEF Inv

\* The master records one more certificate.
LEMMA RecordInv ==
    ASSUME Inv, NEW c \in CertsSigned, c.key <= runs,
           recorded' = recorded \cup {c}, UNCHANGED <<issued, run, runs>>
    PROVE  recorded' \subseteq CertsSigned /\ Numbered' /\ InstalledIsRecorded'
<1>1. issued' = issued /\ run' = run /\ runs' = runs
  OBVIOUS
<1>2. recorded' \subseteq CertsSigned
  BY DEF Inv, Typed
<1>3. Numbered'
  BY <1>1 DEF Inv, Numbered
<1>4. InstalledIsRecorded'
  BY <1>1 DEF Inv, InstalledIsRecorded
<1> QED
  BY <1>2, <1>3, <1>4

\* A process goes to its next step and nothing is written.
LEMMA GotoInv ==
    ASSUME Inv, NEW p \in Procs, NEW step \in Steps, pc' = [pc EXCEPT ![p] = step],
           step # "key", run' = run, issued' = issued,
           torn' = IF pc[p] = "key" THEN torn \cup {Base(p)} ELSE torn
    PROVE  pc' \in [Procs -> Steps] /\ Alone' /\ IssuedPairMatches'
<1>1. pc'[p] = step /\ \A q \in Procs \ {p} : pc'[q] = pc[q]
  BY DEF Inv, Typed
<1>2. pc' \in [Procs -> Steps]
  BY DEF Inv, Typed
<1>3. \A q \in Procs : Base(q)' = Base(q)
  BY DEF Base
<1>4. \A q \in Procs : pc'[q] = "key" => pc[q] = "key"
  BY <1>1
<1>5. torn \subseteq torn'
  OBVIOUS
<1>6. Alone'
  <2> SUFFICES ASSUME NEW q \in Procs, pc'[q] = "key", Base(q) \notin torn'
               PROVE  /\ \A r \in Procs : pc'[r] = "key" /\ Base(r) = Base(q) => r = q
                      /\ issued[Base(q)].crt = run[q].key
    <3>1. issued' = issued /\ run' = run
      OBVIOUS
    <3> HIDE DEF Base
    <3> QED
      BY <1>3, <3>1, SMT, Z3 DEF Alone
  <2>1. pc[q] = "key" /\ Base(q) \notin torn
    BY <1>4, <1>5
  <2> QED
    BY <1>4, <2>1 DEF Inv, Alone
<1>7. \A q \in Procs : pc[q] = "key" => pc'[q] = "key" \/ Base(q) \in torn'
  BY <1>1
<1>8. IssuedPairMatches'
  <2> SUFFICES ASSUME NEW b \in Bases, issued[b].crt # issued[b].key
               PROVE  b \in torn' \/ \E q \in Procs : pc'[q] = "key" /\ Base(q) = b
    BY <1>3 DEF IssuedPairMatches
  <2> QED
    BY <1>5, <1>7 DEF Inv, IssuedPairMatches
<1> QED
  BY <1>2, <1>6, <1>8

\* The request: the master always signs it, and the answer may be lost.
LEMMA SignInv ==
    ASSUME Inv, NEW p \in Procs, requestCSRSign(p) \/ AnswerLost(p)
    PROVE  Inv'
<1> DEFINE c == SignCSR(CSROf(p))
<1>1. pc[p] = "post"
  BY DEF requestCSRSign, AnswerLost
<1>2. run[p].subject \in Names /\ run[p].subject.is \in Loopbacks
  BY <1>1 DEF Inv, Holds
<1>3. enforceLoopbackOnly(CSROf(p), TRUE)
  BY <1>2, OwnCSRPasses
<1>4. c \in CertsSigned /\ c.key <= runs
  BY <1>2, OwnCertificate DEF Inv, Numbered
<1>5. PICK step \in {"validate", "idle"} :
          /\ pc' = [pc EXCEPT ![p] = step] /\ recorded' = recorded \cup {c}
          /\ cert' = IF step = "validate" THEN [cert EXCEPT ![p] = c] ELSE cert
          /\ UNCHANGED <<issued, run, runs, strays, torn>>
  BY <1>3 DEF requestCSRSign, AnswerLost
<1> HIDE DEF c
<1>6. /\ issued' = issued /\ run' = run /\ runs' = runs /\ strays' = strays
      /\ torn' = torn
  BY <1>5
<1>7. recorded' \subseteq CertsSigned /\ Numbered' /\ InstalledIsRecorded'
  BY <1>4, <1>5, <1>6, RecordInv
<1>8. step \in Steps /\ step # "key"
  BY DEF Steps
<1>9. pc' \in [Procs -> Steps] /\ Alone' /\ IssuedPairMatches'
  BY <1>1, <1>5, <1>6, <1>8, GotoInv
<1>10. cert' \in [Procs -> recorded' \cup {None}]
  <2>1. cert \in [Procs -> recorded' \cup {None}] /\ c \in recorded'
    BY <1>5 DEF Inv, Typed
  <2> QED
    BY <1>5, <2>1
<1>11. Typed'
  BY <1>6, <1>7, <1>9, <1>10 DEF Inv, Typed
<1>12. /\ pc'[p] = step /\ (step = "validate" => cert'[p] = c /\ c \in recorded')
       /\ \A q \in Procs \ {p} : pc'[q] = pc[q] /\ cert'[q] = cert[q]
  BY <1>5 DEF Inv, Typed
<1>13. Holds'
  <2>1. \A q \in Procs : SignCSR(CSROf(q))' = SignCSR(CSROf(q))
    BY <1>6 DEF SignCSR, CSROf
  <2>2. recorded \subseteq recorded'
    BY <1>5
  <2> SUFFICES ASSUME NEW q \in Procs
               PROVE  /\ pc'[q] # "idle" => run'[q].subject \in Names /\ run'[q].subject.is \in Loopbacks
                      /\ pc'[q] \in {"validate", "prompt", "crt", "key"} =>
                            cert'[q] \in recorded' /\ cert'[q] = SignCSR(CSROf(q))'
    BY DEF Holds
  <2>3. CASE q = p
    BY <1>2, <1>6, <1>12, <2>1, <2>3 DEF c
  <2>4. CASE q # p
    BY <1>6, <1>12, <2>1, <2>2, <2>4 DEF Inv, Holds
  <2> QED
    BY <2>3, <2>4
<1>14. SubjectsPass'
  BY <1>6, <1>12 DEF Inv, SubjectsPass
<1> QED
  BY <1>7, <1>9, <1>11, <1>13, <1>14 DEF Inv

\* The answer is checked, passwords are entered, or the run ends.
LEMMA GoOnInv ==
    ASSUME Inv, NEW p \in Procs, Validate(p) \/ promptPassword(p) \/ Fail(p)
    PROVE  Inv'
<1>1. /\ issued' = issued /\ run' = run /\ cert' = cert /\ recorded' = recorded
      /\ runs' = runs /\ strays' = strays
      /\ torn' = IF pc[p] = "key" THEN torn \cup {Base(p)} ELSE torn
  BY DEF Validate, promptPassword, Fail
<1>2. PICK step \in {"prompt", "refused", "crt", "idle"} :
          /\ pc' = [pc EXCEPT ![p] = step]
          /\ step # "idle" => pc[p] \in {"validate", "prompt"}
          /\ step = "refused" =>
                /\ pc[p] = "validate"
                /\ ~validateIssuedCertificate(cert[p], run[p].key, run[p].subject)
  BY DEF Validate, promptPassword, Fail
<1>3. pc'[p] = step /\ \A q \in Procs \ {p} : pc'[q] = pc[q]
  BY <1>2 DEF Inv, Typed
<1>4. pc' \in [Procs -> Steps] /\ Alone' /\ IssuedPairMatches'
  <2>1. step \in Steps /\ step # "key"
    BY DEF Steps
  <2> QED
    BY <1>1, <1>2, <2>1, GotoInv
<1>5. Typed'
  <2>1. pc[p] = "key" => Base(p) \in Bases
    BY DEF Inv, Holds, Base, sanitizeName, Bases
  <2>2. torn' \in SUBSET Bases
    BY <1>1, <2>1 DEF Inv, Typed
  <2> QED
    BY <1>1, <1>4, <2>2 DEF Inv, Typed
<1>6. Numbered' /\ InstalledIsRecorded'
  BY <1>1 DEF Inv, Numbered, InstalledIsRecorded
<1>7. \A q \in Procs : SignCSR(CSROf(q))' = SignCSR(CSROf(q))
  BY <1>1 DEF SignCSR, CSROf
<1>8. Holds'
  <2>1. step # "idle" => cert[p] \in recorded /\ cert[p] = SignCSR(CSROf(p))
                         /\ run[p].subject \in Names /\ run[p].subject.is \in Loopbacks
    BY <1>2 DEF Inv, Holds
  <2> SUFFICES ASSUME NEW q \in Procs
               PROVE  /\ pc'[q] # "idle" => run[q].subject \in Names /\ run[q].subject.is \in Loopbacks
                      /\ pc'[q] \in {"validate", "prompt", "crt", "key"} =>
                            cert[q] \in recorded /\ cert[q] = SignCSR(CSROf(q))
    BY <1>1, <1>7 DEF Holds
  <2>3. CASE q = p
    BY <1>3, <2>1, <2>3
  <2>4. CASE q # p
    BY <1>3, <2>4 DEF Inv, Holds
  <2> QED
    BY <2>3, <2>4
<1>9. SubjectsPass'
  <2>1. ASSUME step = "refused" PROVE run[p].subject.padded
    <3>1. /\ cert[p] = SignCSR(CSROf(p)) /\ run[p].subject \in Names
          /\ run[p].subject.is \in Loopbacks
      BY <1>2, <2>1 DEF Inv, Holds
    <3> QED
      BY <1>2, <2>1, <3>1, OwnCertificate DEF Inv
  <2> QED
    BY <1>1, <1>3, <2>1 DEF Inv, SubjectsPass
<1> QED
  BY <1>4, <1>5, <1>6, <1>8, <1>9 DEF Inv

\* A file under issued/ is written.
LEMMA WriteInv ==
    ASSUME Inv, NEW p \in Procs, WriteCrt(p) \/ WriteKey(p)
    PROVE  Inv'
<1> DEFINE b == Base(p)
           k == run[p].key
<1>1. /\ run' = run /\ cert' = cert /\ recorded' = recorded /\ runs' = runs
      /\ strays' = strays
  BY DEF WriteCrt, WriteKey
<1>2. /\ pc[p] \in {"crt", "key"}
      /\ pc' = [pc EXCEPT ![p] = IF pc[p] = "crt" THEN "key" ELSE "idle"]
      /\ torn' = IF pc[p] = "key" THEN torn
                 ELSE IF HalfWritten(b, p) THEN torn \cup {b} ELSE torn \ {b}
  BY DEF WriteCrt, WriteKey
<1>3. /\ b \in Bases /\ k \in Nat /\ k <= runs
      /\ cert[p] \in recorded /\ cert[p].key = k /\ VerifyHostname(cert[p], Plain(b))
  <2>1. /\ run[p].subject \in Names /\ run[p].subject.is \in Loopbacks
        /\ cert[p] \in recorded /\ cert[p] = SignCSR(CSROf(p))
    BY <1>2 DEF Inv, Holds
  <2>2. k \in Nat /\ k <= runs
    BY DEF Inv, Typed, Numbered
  <2>3. cert[p].key = k /\ VerifyHostname(cert[p], Plain(run[p].subject.is))
    BY <2>1, OwnCertificate DEF Inv
  <2> QED
    BY <2>1, <2>2, <2>3 DEF Base, sanitizeName, Bases
<1>4. /\ pc[p] = "crt" => issued' = [issued EXCEPT ![b].crt = k]
      /\ pc[p] = "key" => issued' = [issued EXCEPT ![b].key = k]
  BY <1>3 DEF WriteCrt, WriteKey
<1> HIDE DEF b, k
<1>5. issued \in [Bases -> Pairs] /\ k # None
  BY <1>3, ClientIssueAssumption DEF Inv, Typed, Pairs
<1>6. /\ issued' \in [Bases -> Pairs]
      /\ \A x \in Bases \ {b} : issued'[x] = issued[x]
      /\ pc[p] = "crt" => issued'[b].crt = k /\ issued'[b].key = issued[b].key
      /\ pc[p] = "key" => issued'[b].crt = issued[b].crt /\ issued'[b].key = k
  <2>1. CASE pc[p] = "crt"
    <3>1. issued' = [issued EXCEPT ![b].crt = k]
      BY <1>4, <2>1
    <3> QED
      BY <1>3, <1>5, <2>1, <3>1, SMT, Z3 DEF Pairs
  <2>2. CASE pc[p] = "key"
    <3>1. issued' = [issued EXCEPT ![b].key = k]
      BY <1>4, <2>2
    <3> QED
      BY <1>3, <1>5, <2>2, <3>1, SMT, Z3 DEF Pairs
  <2> QED
    BY <1>2, <2>1, <2>2
<1>7. Typed'
  <2>1. pc' \in [Procs -> Steps]
    BY <1>2 DEF Inv, Typed, Steps
  <2>2. torn' \in SUBSET Bases
    BY <1>2, <1>3 DEF Inv, Typed
  <2> QED
    BY <1>1, <1>6, <2>1, <2>2 DEF Inv, Typed, Pairs
<1>8. Numbered'
  BY <1>1 DEF Inv, Numbered
<1>9. /\ pc'[p] \in {"key", "idle"} /\ (pc[p] = "key" <=> pc'[p] = "idle")
      /\ \A q \in Procs \ {p} : pc'[q] = pc[q]
  BY <1>2 DEF Inv, Typed
<1>10. Holds'
  <2>1. \A q \in Procs : SignCSR(CSROf(q))' = SignCSR(CSROf(q))
    BY <1>1 DEF SignCSR, CSROf
  <2>2. \A q \in Procs : pc'[q] # "idle" => pc[q] # "idle"
    BY <1>2, <1>9
  <2>3. \A q \in Procs : pc'[q] \in {"validate", "prompt", "crt", "key"} =>
                           pc[q] \in {"validate", "prompt", "crt", "key"}
    BY <1>2, <1>9
  <2> QED
    BY <1>1, <2>1, <2>2, <2>3 DEF Inv, Holds
<1>11. \A q \in Procs : Base(q)' = Base(q)
  BY <1>1 DEF Base
<1>12. Alone'
  <2> SUFFICES ASSUME NEW q \in Procs, pc'[q] = "key", Base(q) \notin torn'
               PROVE  /\ \A r \in Procs : pc'[r] = "key" /\ Base(r) = Base(q) => r = q
                      /\ issued'[Base(q)].crt = run[q].key
    BY <1>1, <1>11 DEF Alone
  <2>1. CASE q = p
    <3>1. pc[p] = "crt" /\ ~HalfWritten(b, p) /\ issued'[b].crt = k
      BY <1>2, <1>6, <1>9, <2>1 DEF b
    <3>2. \A r \in Procs \ {p} : pc'[r] = "key" => Base(r) # b
      BY <1>9, <3>1 DEF HalfWritten
    <3> QED
      BY <2>1, <3>1, <3>2 DEF b, k
  <2>2. CASE q # p
    <3>1. pc[q] = "key" /\ Base(q) \in Bases
      BY <1>9, <2>2 DEF Inv, Holds, Base, sanitizeName, Bases
    <3>2. CASE Base(q) = b
      <4>1. pc[p] = "key"
        BY <1>2, <2>2, <3>1, <3>2 DEF HalfWritten
      <4> QED
        BY <1>2, <2>2, <3>1, <3>2, <4>1 DEF Inv, Alone, b
    <3>3. CASE Base(q) # b
      <4>1. Base(q) \notin torn /\ issued'[Base(q)] = issued[Base(q)]
        BY <1>2, <1>6, <3>1, <3>3
      <4>2. \A r \in Procs : pc'[r] = "key" /\ Base(r) = Base(q) => pc[r] = "key"
        BY <1>9, <3>3 DEF b
      <4> QED
        BY <3>1, <4>1, <4>2 DEF Inv, Alone
    <3> QED
      BY <3>2, <3>3
  <2> QED
    BY <2>1, <2>2
<1>13. SubjectsPass'
  <2>1. \A q \in Procs : pc'[q] = "refused" => pc[q] = "refused"
    BY <1>2, <1>9
  <2> QED
    BY <1>1, <2>1 DEF Inv, SubjectsPass
<1>14. InstalledIsRecorded'
  <2> SUFFICES ASSUME NEW x \in Bases, NEW n \in {issued'[x].crt, issued'[x].key} \ {None}
               PROVE  \E c \in recorded : c.key = n /\ VerifyHostname(c, Plain(x))
    BY <1>1 DEF InstalledIsRecorded
  <2>1. CASE x = b /\ n = k
    BY <1>3, <2>1
  <2>2. CASE ~(x = b /\ n = k)
    <3>1. n \in {issued[x].crt, issued[x].key} \ {None}
      BY <1>2, <1>6, <2>2
    <3> QED
      BY <3>1 DEF Inv, InstalledIsRecorded
  <2> QED
    BY <2>1, <2>2
<1>15. IssuedPairMatches'
  <2> SUFFICES ASSUME NEW x \in Bases, issued'[x].crt # issued'[x].key, x \notin torn'
               PROVE  \E q \in Procs : pc'[q] = "key" /\ Base(q) = x
    BY <1>11 DEF IssuedPairMatches
  <2>1. CASE x # b
    <3>1. issued[x].crt # issued[x].key /\ x \notin torn
      BY <1>2, <1>6, <2>1
    <3>2. PICK q \in Procs : pc[q] = "key" /\ Base(q) = x
      BY <3>1 DEF Inv, IssuedPairMatches
    <3> QED
      BY <1>9, <2>1, <3>2 DEF b
  <2>2. CASE x = b /\ pc[p] = "crt"
    BY <1>9, <2>2 DEF b
  <2>3. CASE x = b /\ pc[p] = "key"
    <3>1. issued[b].crt = k
      BY <1>2, <2>3 DEF Inv, Alone, b, k
    <3> QED
      BY <1>6, <2>3, <3>1
  <2> QED
    BY <1>2, <2>1, <2>2, <2>3
<1> QED
  BY <1>7, <1>8, <1>10, <1>12, <1>13, <1>14, <1>15 DEF Inv

\* A CSR of another program is signed when it passes.
LEMMA StrayInv ==
    ASSUME Inv, NEW csr \in StrayCSRs, NEW localhost \in BOOLEAN, StrayCSR(csr, localhost)
    PROVE  Inv'
<1>1. /\ issued' = issued /\ pc' = pc /\ run' = run /\ cert' = cert /\ runs' = runs
      /\ torn' = torn
      /\ recorded' = recorded \cup {SignCSR(csr)}
  BY DEF StrayCSR
<1>2. SignCSR(csr) \in CertsSigned /\ SignCSR(csr).key <= runs
  <2>1. csr.key = 0 /\ 0 \in Nat /\ 0 <= runs
    BY SMT, Z3 DEF Inv, Typed, StrayCSRs
  <2>2. /\ csr.cn \in Spellings \cup {None} /\ csr.dns \in {{}} \cup {{n} : n \in Spellings}
        /\ csr.ips \in {{}} \cup {{a} : a \in Addresses}
    BY DEF StrayCSRs
  <2>3. Spellings \subseteq Names
    BY ClientIssueAssumption
  <2>4. csr.cn \in Names \cup {None}
    BY <2>2, <2>3
  <2>5. csr.dns \in SUBSET Names
    BY <2>2, <2>3
  <2>6. csr.ips \in SUBSET Addresses
    BY <2>2
  <2> QED
    BY <2>1, <2>4, <2>5, <2>6 DEF SignCSR, CertsSigned
<1>3. recorded' \subseteq CertsSigned /\ Numbered' /\ InstalledIsRecorded'
  BY <1>1, <1>2, RecordInv
<1>4. Typed'
  <2>1. strays' \in 0 .. MaxStrays
    BY ClientIssueAssumption, SMT, Z3 DEF Inv, Typed, StrayCSR
  <2>2. cert' \in [Procs -> recorded' \cup {None}]
    BY <1>1 DEF Inv, Typed
  <2> QED
    BY <1>1, <1>3, <2>1, <2>2 DEF Inv, Typed
<1>5. Holds'
  <2>1. \A q \in Procs : SignCSR(CSROf(q))' = SignCSR(CSROf(q))
    BY <1>1 DEF SignCSR, CSROf
  <2>2. recorded \subseteq recorded'
    BY <1>1
  <2>3. pc' = pc /\ run' = run /\ cert' = cert
    BY <1>1
  <2> QED
    BY <2>1, <2>2, <2>3 DEF Inv, Holds
<1>6. Alone' /\ SubjectsPass' /\ IssuedPairMatches'
  BY <1>1 DEF Inv, Alone, SubjectsPass, IssuedPairMatches, Base
<1> QED
  BY <1>3, <1>4, <1>5, <1>6 DEF Inv

LEMMA StepInv == Inv /\ [Next]_vars => Inv'
<1> SUFFICES ASSUME Inv, [Next]_vars PROVE Inv'
  OBVIOUS
<1>1. CASE \E p \in Procs, s \in Spellings : RunClientIssue(p, s)
  BY <1>1, RunInv
<1>2. CASE \E p \in Procs : requestCSRSign(p) \/ AnswerLost(p)
  BY <1>2, SignInv
<1>3. CASE \E p \in Procs : Validate(p) \/ promptPassword(p) \/ Fail(p)
  BY <1>3, GoOnInv
<1>4. CASE \E p \in Procs : WriteCrt(p) \/ WriteKey(p)
  BY <1>4, WriteInv
<1>5. CASE \E csr \in StrayCSRs, localhost \in BOOLEAN : StrayCSR(csr, localhost)
  BY <1>5, StrayInv
<1>6. CASE UNCHANGED vars
  <2>1. /\ issued' = issued /\ pc' = pc /\ run' = run /\ cert' = cert /\ recorded' = recorded
        /\ runs' = runs /\ strays' = strays /\ torn' = torn
    BY <1>6 DEF vars
  <2>2. Typed' /\ Numbered'
    BY <2>1 DEF Inv, Typed, Numbered
  <2>3. Holds' /\ Alone' /\ SubjectsPass'
    BY <2>1 DEF Inv, Holds, Alone, SubjectsPass, Base, SignCSR, CSROf
  <2>4. InstalledIsRecorded' /\ IssuedPairMatches'
    BY <2>1 DEF Inv, InstalledIsRecorded, IssuedPairMatches, Base
  <2> QED
    BY <2>2, <2>3, <2>4 DEF Inv
<1> QED
  BY <1>1, <1>2, <1>3, <1>4, <1>5, <1>6 DEF Next

LEMMA Invariant == Spec => []Inv
<1> QED
  BY InitInv, StepInv, PTL DEF Spec

\* Every variable keeps its type, and a process holds only certificates the
\* master has recorded.
THEOREM TypeCorrect == Spec => []TypeOK
<1>1. Inv => TypeOK
  <2> SUFFICES ASSUME Inv PROVE TypeOK
    OBVIOUS
  <2>1. \A c \in recorded : c.key \in 0 .. runs
    <3>1. \A c \in recorded : c.key \in Nat /\ c.key <= runs
      BY DEF Inv, Typed, Numbered, CertsSigned
    <3>2. runs \in Nat
      BY SMT, Z3 DEF Inv, Typed
    <3> QED
      BY <3>1, <3>2, SMT, Z3
  <2>2. \A c \in recorded : c.dns \subseteq Names /\ c.ips \subseteq Addresses
    BY DEF Inv, Typed, CertsSigned
  <2> QED
    BY <2>1, <2>2 DEF Inv, Typed, TypeOK, Pairs
<1> QED
  BY <1>1, Invariant, PTL

\* isLoopbackTarget, enforceLoopbackOnly and validateIssuedCertificate agree
\* on every subject without blanks around it: no run for one is refused.
THEOREM ChecksAgree == Spec => []SubjectsPass
<1>1. Inv => SubjectsPass
  BY DEF Inv
<1> QED
  BY <1>1, Invariant, PTL

\* However the runs interleave and wherever they stop, a file under issued/
\* belongs to a certificate the master has recorded for that name.
THEOREM FilesAreRecorded == Spec => []InstalledIsRecorded
<1>1. Inv => InstalledIsRecorded
  BY DEF Inv
<1> QED
  BY <1>1, Invariant, PTL

\* However many runs write under issued/, a pair that does not match is one a
\* run was stopped on, or that two runs wrote at once.
THEOREM PairsMatch == Spec => []IssuedPairMatches
<1>1. Inv => IssuedPairMatches
  BY DEF Inv
<1> QED
  BY <1>1, Invariant, PTL

=============================================================================
