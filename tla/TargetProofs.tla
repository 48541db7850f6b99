---------------------------- MODULE TargetProofs ----------------------------
(***************************************************************************)
(* The readings of the target of a certificate, for targets of any length: *)
(* what --issue accepts, what it certifies and what it calls the files.    *)
(*                                                                         *)
(* The argument.  canonicalTarget depends on the target without blanks and *)
(* in lower case only (Folded), so every spelling has the same reading.  A *)
(* name is valid label by label; its labels lie between neighbouring dots, *)
(* so that validity is a condition on each character and its neighbours    *)
(* (Dotted), the one that DottedName states.  Such names and addresses     *)
(* have no character that sanitizeName could write for two others          *)
(* (Recoverable).                                                          *)
(***************************************************************************)
EXTENDS NamingProofs

\* A step goes to Zenon unless it names other provers, which are tried in turn.
USE ZenonT(30)

-----------------------------------------------------------------------------
(***************************************************************************)
(* Targets.  l is what canonicalTarget looks at: the target in lower case  *)
(* without the blanks around it.                                           *)
(***************************************************************************)

Folded(t) == ToLower(TrimSpace(t))

\* Folding is done once and for all.
LEMMA FoldedText ==
    ASSUME NEW t \in Texts
    PROVE  /\ TrimSpace(t) \in Texts
           /\ Folded(t) \in Texts
           /\ \A i \in 1 .. Len(Folded(t)) : Folded(t)[i] # "A"
           /\ TrimSpace(Folded(t)) = Folded(t)
           /\ ToLower(Folded(t)) = Folded(t)
<1> DEFINE u == TrimSpace(t)
           l == Folded(t)
<1>1. u \in Texts /\ (u # <<>> => Bounds(u, {" "}, 1, Len(u)))
  BY TrimmedText DEF TrimSpace
<1>2. /\ l \in Texts /\ Len(l) = Len(u) /\ Len(l) \in Nat
      /\ \A i \in 1 .. Len(l) : l[i] = Lower(u[i])
  BY <1>1, CaseText, TextFacts DEF Folded
<1> HIDE DEF l, u
<1>3. \A i \in 1 .. Len(l) : l[i] # "A" /\ Lower(l[i]) = l[i]
  BY <1>2 DEF Lower
<1>4. Trim(l, {" "}) = l
  <2>1. CASE u = <<>>
    BY <1>1, <1>2, <2>1, TextFacts, NothingToTrim
  <2>2. CASE u # <<>>
    <3>1. Bounds(u, {" "}, 1, Len(u))
      BY <1>1, <2>2
    <3>2. \A i \in 1 .. Len(l) : l[i] \notin {" "} <=> u[i] \notin {" "}
      BY <1>2 DEF Lower
    <3>3. Bounds(l, {" "}, 1, Len(l))
      BY <1>2, <3>1, <3>2 DEF Bounds
    <3> QED
      BY <1>2, <3>3, NothingToTrim
  <2> QED
    BY <2>1, <2>2
<1>5. ToLower(l) = l
  <2>1. ToLower(l) \in Texts /\ Len(ToLower(l)) = Len(l) /\ \A i \in 1 .. Len(l) : ToLower(l)[i] = l[i]
    BY <1>2, <1>3, CaseText
  <2> QED
    BY <1>2, <2>1, TextEqual
<1> QED
  BY <1>1, <1>2, <1>3, <1>4, <1>5 DEF l, u, TrimSpace

\* What net's texts are made of.
LEMMA IPFacts ==
    ASSUME NEW t \in IPs
    PROVE  /\ t \in Texts /\ t # <<>> /\ TrimSpace(t) = t
           /\ IPString[t] \in IPs /\ IPString[IPString[t]] = IPString[t]
           /\ Folded(t) \in IPs /\ IPString[Folded(t)] = IPString[t]
           /\ Folded(IPString[t]) = IPString[t]
<1>1. ASSUME NEW u \in IPs
      PROVE  u \in Texts /\ u # <<>> /\ TrimSpace(u) = u
  <2>1. u \in Texts /\ u # <<>> /\ AllIn(u, Hex \cup {":", "."})
    BY <1>1, IPAssumption DEF Texts
  <2>2. \A i \in 1 .. Len(u) : u[i] \in Hex \cup {":", "."}
    BY <2>1, TextFacts
  <2>3. \A i \in 1 .. Len(u) : u[i] \notin {" "}
    BY <2>2 DEF Hex, Digits
  <2> QED
    BY <2>1, <2>3, CleanText DEF TrimSpace
<1>2. /\ IPString[t] \in IPs /\ IPString[IPString[t]] = IPString[t]
      /\ ToLower(t) \in IPs /\ IPString[ToLower(t)] = IPString[t]
      /\ "A" \notin Range(IPString[t])
  BY IPAssumption
<1>3. ToLower(IPString[t]) = IPString[t]
  <2>1. IPString[t] \in Texts
    BY <1>1, <1>2
  <2>2. \A i \in 1 .. Len(IPString[t]) : IPString[t][i] # "A"
    BY <1>2, <2>1, TextFacts
  <2>3. \A i \in 1 .. Len(IPString[t]) : ToLower(IPString[t])[i] = IPString[t][i]
    BY <2>1, <2>2, CaseText DEF Lower
  <2>4. ToLower(IPString[t]) \in Texts /\ Len(ToLower(IPString[t])) = Len(IPString[t])
    BY <2>1, CaseText
  <2> QED
    BY <2>1, <2>3, <2>4, TextEqual
<1> QED
  BY <1>1, <1>2, <1>3 DEF Folded

\* The one name splitSANs finds in what canonicalTarget returns.
LEMMA CanonicalFacts ==
    ASSUME NEW t \in Texts
    PROVE  /\ canonicalTarget(t) \in Texts
           /\ canonicalTarget(t) = IF Folded(t) \in IPs THEN IPString[Folded(t)] ELSE Folded(t)
           /\ canonicalTarget(t) \in IPs <=> Folded(t) \in IPs
           /\ TrimSpace(canonicalTarget(t)) = canonicalTarget(t)
           /\ canonicalTarget(t) \in IPs => IPString[canonicalTarget(t)] = canonicalTarget(t)
           /\ Folded(canonicalTarget(t)) = canonicalTarget(t)
<1>1. canonicalTarget(t) = IF Folded(t) \in IPs THEN IPString[Folded(t)] ELSE Folded(t)
  BY DEF canonicalTarget, IsIP, Folded
<1>2. Folded(t) \in Texts /\ TrimSpace(Folded(t)) = Folded(t) /\ Folded(Folded(t)) = Folded(t)
  BY FoldedText DEF Folded
<1>3. CASE Folded(t) \in IPs
  BY <1>1, <1>3, IPFacts
<1>4. CASE Folded(t) \notin IPs
  BY <1>1, <1>2, <1>4
<1> QED
  BY <1>1, <1>3, <1>4

\* Accepted says when --issue makes a certificate for a canonical target.
Accepted(t) == t \in IPs \/ (t # <<>> /\ validIssuanceTarget({t}, {}))

\* Issue on a canonical target: that one name, or nothing.
LEMMA IssueFacts ==
    ASSUME NEW t \in Texts, TrimSpace(t) = t, t \in IPs => IPString[t] = t
    PROVE  Issue(t, FALSE) = IF Accepted(t) THEN {t} ELSE {}
<1>1. t \in IPs => t # <<>>
  BY IPFacts
<1>2. CASE t \in IPs
  <2>1. splitSANs({t}) = [dns |-> {}, ips |-> {t}]
    <3>1. {TrimSpace(i) : i \in {t}} \ {<<>>} = {t}
      BY <1>1, <1>2
    <3>2. {i \in {t} : ~IsIP(i)} = {}
      BY <1>2 DEF IsIP
    <3>3. {IPString[i] : i \in {j \in {t} : IsIP(j)}} = {t}
      BY <1>2 DEF IsIP
    <3> QED
      BY <3>1, <3>2, <3>3 DEF splitSANs
  <2>2. validIssuanceTarget({}, {t})
    BY DEF validIssuanceTarget
  <2>3. splitSANs({t}).dns = {} /\ splitSANs({t}).ips = {t}
    BY <2>1, SMT, Z3
  <2> QED
    BY <1>2, <2>2, <2>3 DEF Issue, Accepted
<1>3. CASE t \notin IPs /\ t # <<>>
  <2>1. splitSANs({t}) = [dns |-> {t}, ips |-> {}]
    <3>1. {TrimSpace(i) : i \in {t}} \ {<<>>} = {t}
      BY <1>3
    <3>2. {i \in {t} : ~IsIP(i)} = {t}
      BY <1>3 DEF IsIP
    <3>3. {IPString[i] : i \in {j \in {t} : IsIP(j)}} = {}
      BY <1>3 DEF IsIP
    <3> QED
      BY <3>1, <3>2, <3>3 DEF splitSANs
  <2>2. splitSANs({t}).dns = {t} /\ splitSANs({t}).ips = {}
    BY <2>1, SMT, Z3
  <2> QED
    BY <1>3, <2>2 DEF Issue, Accepted
<1>4. CASE t = <<>>
  <2>1. splitSANs({t}) = [dns |-> {}, ips |-> {}]
    <3>1. {TrimSpace(i) : i \in {t}} \ {<<>>} = {}
      BY <1>4
    <3>2. {i \in {} : ~IsIP(i)} = {} /\ {IPString[i] : i \in {j \in {} : IsIP(j)}} = {}
      OBVIOUS
    <3> QED
      BY <3>1, <3>2 DEF splitSANs
  <2>2. ~validIssuanceTarget({}, {})
    BY DEF validIssuanceTarget
  <2>3. splitSANs({t}).dns = {} /\ splitSANs({t}).ips = {}
    BY <2>1, SMT, Z3
  <2> QED
    BY <1>1, <1>4, <2>2, <2>3 DEF Issue, Accepted
<1> QED
  BY <1>2, <1>3, <1>4

\* Nothing is left of a text of blanks.
LEMMA AllTrimmed ==
    ASSUME NEW t \in Texts, NEW chars, AllIn(t, chars)
    PROVE  Trim(t, chars) = <<>>
<1>1. \A i \in 1 .. Len(t) : t[i] \in chars
  BY TextFacts
<1>2. ~ \E a, b : Bounds(t, chars, a, b)
  BY <1>1 DEF Bounds
<1> QED
  BY <1>2, TrimCases

\* TrimSpace keeps what lies between the first and the last character that is not a blank.
LEMMA TrimSpaceIs ==
    ASSUME NEW t \in Texts, NEW a, NEW b, Bounds(t, {" "}, a, b)
    PROVE  TrimSpace(t) = SubSeq(t, a, b)
<1> DEFINE blank == {" "}
<1>1. Bounds(t, blank, a, b) /\ TrimSpace(t) = Trim(t, blank)
  BY DEF TrimSpace
<1> HIDE DEF blank
<1>2. Trim(t, blank) = SubSeq(t, a, b)
  BY <1>1, TrimIs
<1> QED
  BY <1>1, <1>2

\* Upper case, and a blank before or after it, do not change what is read.
LEMMA UpperFolded ==
    ASSUME NEW t \in Texts
    PROVE  ToUpper(t) \in Texts /\ Folded(ToUpper(t)) = Folded(t)
<1> DEFINE s == ToUpper(t)
<1>1. s \in Texts /\ Len(s) = Len(t) /\ Len(t) \in Nat /\ \A i \in 1 .. Len(t) : s[i] = Upper(t[i])
  BY CaseText, TextFacts
<1> HIDE DEF s
<1>2. CASE AllIn(t, {" "})
  <2>1. \A i \in 1 .. Len(t) : t[i] \in {" "}
    BY <1>2, TextFacts
  <2>2. \A i \in 1 .. Len(t) : s[i] = t[i]
    BY <1>1, <2>1 DEF Upper
  <2>3. s = t
    BY <1>1, <2>2, TextEqual
  <2> QED
    BY <1>1, <2>3 DEF s
<1>3. CASE \E a, b : Bounds(t, {" "}, a, b)
  <2>1. PICK a, b : Bounds(t, {" "}, a, b)
    BY <1>3
  <2>2. \A i \in 1 .. Len(t) : s[i] \notin {" "} <=> t[i] \notin {" "}
    BY <1>1 DEF Upper
  <2>3. Bounds(s, {" "}, a, b)
    BY <1>1, <2>1, <2>2 DEF Bounds
  <2>4. /\ a \in Nat /\ b \in Nat /\ a <= b /\ a \in 1 .. Len(t) + 1 /\ b \in 0 .. Len(t)
        /\ TrimSpace(t) = SubSeq(t, a, b)
    BY <2>1, TrimIs DEF TrimSpace
  <2>9. TrimSpace(s) = SubSeq(s, a, b)
    <3>1. s \in Texts
      BY <1>1
    <3>2. ASSUME NEW w \in Texts, Bounds(w, {" "}, a, b)
          PROVE  TrimSpace(w) = SubSeq(w, a, b)
      BY <3>2, TrimSpaceIs
    <3> QED
      BY <2>3, <3>1, <3>2
  <2> DEFINE u == SubSeq(t, a, b)
             v == SubSeq(s, a, b)
  <2>5. /\ u \in Texts /\ v \in Texts /\ Len(u) = b - a + 1 /\ Len(v) = b - a + 1
        /\ \A i \in 1 .. b - a + 1 : u[i] = t[a + i - 1]
        /\ \A i \in 1 .. b - a + 1 : v[i] = s[a + i - 1]
    BY <1>1, <2>4, PartText
  <2>6. \A i \in 1 .. b - a + 1 : a + i - 1 \in 1 .. Len(t)
    BY <1>1, <2>4, SMT, Z3
  <2> HIDE DEF u, v
  <2>7. \A i \in 1 .. b - a + 1 : Lower(v[i]) = Lower(u[i])
    BY <1>1, <2>5, <2>6 DEF Lower, Upper
  <2>8. ToLower(v) = ToLower(u)
    <3>1. /\ ToLower(u) \in Texts /\ Len(ToLower(u)) = b - a + 1
          /\ \A i \in 1 .. b - a + 1 : ToLower(u)[i] = Lower(u[i])
      BY <2>5, CaseText
    <3>2. /\ ToLower(v) \in Texts /\ Len(ToLower(v)) = b - a + 1
          /\ \A i \in 1 .. b - a + 1 : ToLower(v)[i] = Lower(v[i])
      BY <2>5, CaseText
    <3>3. \A i \in 1 .. b - a + 1 : ToLower(v)[i] = ToLower(u)[i]
      BY <2>7, <3>1, <3>2
    <3> QED
      BY <3>1, <3>2, <3>3, TextEqual
  <2> QED
    BY <1>1, <2>4, <2>8, <2>9 DEF Folded, u, v, s
<1> QED
  BY <1>2, <1>3, TrimCases

\* The same characters between the bounds of two texts.
LEMMA SameTrim ==
    ASSUME NEW s \in Texts, NEW t \in Texts, NEW chars, NEW a, NEW b, NEW n \in Nat, NEW c, NEW d,
           c = a + n, d = b + n, Bounds(t, chars, a, b), Bounds(s, chars, c, d),
           \A i \in 1 .. Len(t) : s[i + n] = t[i]
    PROVE  Trim(s, chars) = Trim(t, chars)
<1>1. /\ a \in Nat /\ b \in Nat /\ a <= b /\ a \in 1 .. Len(t) + 1 /\ b \in 0 .. Len(t)
      /\ Trim(t, chars) = SubSeq(t, a, b)
  BY TrimIs
<1>2. /\ a + n \in 1 .. Len(s) + 1 /\ b + n \in 0 .. Len(s) /\ a + n <= b + n
      /\ Trim(s, chars) = SubSeq(s, a + n, b + n)
  BY TrimIs
<1>3. (b + n) - (a + n) + 1 = b - a + 1
  BY <1>1, SMT, Z3
<1> DEFINE u == SubSeq(t, a, b)
           v == SubSeq(s, a + n, b + n)
<1>4. /\ u \in Texts /\ v \in Texts /\ Len(u) = b - a + 1 /\ Len(v) = b - a + 1
      /\ \A i \in 1 .. b - a + 1 : u[i] = t[a + i - 1]
      /\ \A i \in 1 .. b - a + 1 : v[i] = s[(a + n) + i - 1]
  <2>1. /\ u \in Texts /\ Len(u) = b - a + 1
        /\ \A i \in 1 .. b - a + 1 : u[i] = t[a + i - 1]
    BY <1>1, PartText
  <2>2. /\ v \in Texts
        /\ Len(v) = IF a + n <= b + n THEN (b + n) - (a + n) + 1 ELSE 0
        /\ \A i \in 1 .. (b + n) - (a + n) + 1 : v[i] = s[(a + n) + i - 1]
    BY <1>2, PartText
  <2> QED
    BY <1>2, <1>3, <2>1, <2>2
<1>5. Len(t) \in Nat
  BY TextFacts
<1>6. \A i \in 1 .. b - a + 1 : a + i - 1 \in 1 .. Len(t) /\ (a + n) + i - 1 = (a + i - 1) + n
  BY <1>1, <1>5, SMT, Z3
<1> HIDE DEF u, v
<1>7. \A i \in 1 .. b - a + 1 : v[i] = u[i]
  BY <1>4, <1>6
<1>8. u = v
  BY <1>4, <1>7, TextEqual
<1> QED
  BY <1>1, <1>2, <1>8 DEF u, v

\* Blanks around a target are folded away.
LEMMA BlankFolded ==
    ASSUME NEW t \in Texts
    PROVE  /\ <<" ">> \o t \in Texts /\ Folded(<<" ">> \o t) = Folded(t)
           /\ t \o <<" ">> \in Texts /\ Folded(t \o <<" ">>) = Folded(t)
<1>0. Len(t) \in Nat /\ <<" ">> \in Texts /\ Len(<<" ">>) = 1 /\ <<" ">>[1] = " "
  BY TextFacts, CharText DEF Alphabet
<1> DEFINE s == <<" ">> \o t
           u == t \o <<" ">>
<1>1. /\ s \in Texts /\ Len(s) = 1 + Len(t) /\ s[1] = " "
      /\ \A i \in 1 .. Len(t) : s[1 + i] = t[i]
      /\ u \in Texts /\ Len(u) = Len(t) + 1 /\ u[Len(t) + 1] = " "
      /\ \A i \in 1 .. Len(t) : u[i] = t[i]
  <2>1. 1 \in 1 .. 1
    BY SMT, Z3
  <2> QED
    BY <1>0, <2>1, JoinedText
<1> HIDE DEF s, u
<1>n. Len(t) \in Nat /\ 0 \in Nat /\ 1 \in Nat
  BY TextFacts, SMT, Z3
<1>2. \A i \in 1 .. 1 + Len(t) : i = 1 \/ \E k \in 1 .. Len(t) : i = 1 + k
  <2>1. ASSUME NEW i \in 1 .. 1 + Len(t), i # 1
        PROVE  \E k \in 1 .. Len(t) : i = 1 + k
    <3>1. i - 1 \in 1 .. Len(t) /\ i = 1 + (i - 1)
      BY <1>n, <2>1, SMT, Z3
    <3> QED
      BY <3>1
  <2> QED
    BY <2>1
<1>3. \A i \in 1 .. Len(t) + 1 : i = Len(t) + 1 \/ i \in 1 .. Len(t)
  BY <1>n, SMT, Z3
<1>4. CASE AllIn(t, {" "})
  <2>1. \A i \in 1 .. Len(t) : t[i] \in {" "}
    BY <1>4, TextFacts
  <2>2. AllIn(s, {" "})
    <3>1. \A k \in 1 .. Len(t) : s[1 + k] \in {" "}
      BY <1>1, <2>1
    <3>2. \A i \in 1 .. Len(s) : s[i] \in {" "}
      BY <1>1, <1>2, <3>1
    <3> QED
      BY <1>1, <3>2, TextFacts
  <2>3. AllIn(u, {" "})
    <3>1. \A i \in 1 .. Len(u) : u[i] \in {" "}
      BY <1>1, <1>3, <2>1
    <3> QED
      BY <1>1, <3>1, TextFacts
  <2> QED
    BY <1>1, <1>4, <2>2, <2>3, AllTrimmed DEF Folded, TrimSpace, s, u
<1>5. CASE \E a, b : Bounds(t, {" "}, a, b)
  <2>1. PICK a, b : Bounds(t, {" "}, a, b)
    BY <1>5
  <2>2. /\ a \in 1 .. Len(t) /\ b \in 1 .. Len(t) /\ t[a] # " " /\ t[b] # " "
        /\ \A i \in 1 .. Len(t) : t[i] # " " => a <= i /\ i <= b
    BY <2>1 DEF Bounds
  <2>n. a \in 1 .. Len(t) /\ b \in 1 .. Len(t)
    BY <2>2
  <2>3. Bounds(s, {" "}, 1 + a, 1 + b)
    <3>1. 1 + a \in 1 .. 1 + Len(t) /\ 1 + b \in 1 .. 1 + Len(t)
      BY <1>n, <2>n, SMT, Z3
    <3>2. ASSUME NEW i \in 1 .. Len(s), s[i] # " "
          PROVE  1 + a <= i /\ i <= 1 + b
      <4>1. PICK k \in 1 .. Len(t) : i = 1 + k
        BY <1>1, <1>2, <3>2
      <4>2. a <= k /\ k <= b
        BY <1>1, <2>2, <3>2, <4>1
      <4> QED
        BY <1>n, <2>n, <4>1, <4>2, SMT, Z3
    <3> QED
      BY <1>1, <2>2, <3>1, <3>2 DEF Bounds
  <2>4. Bounds(u, {" "}, a, b)
    <3>1. a \in 1 .. Len(t) + 1 /\ b \in 1 .. Len(t) + 1
      BY <1>n, <2>n, SMT, Z3
    <3> QED
      BY <1>1, <1>3, <2>2, <3>1 DEF Bounds
  <2>5. /\ a + 1 = 1 + a /\ b + 1 = 1 + b /\ a + 0 = a /\ b + 0 = b
        /\ \A i \in 1 .. Len(t) : i + 1 = 1 + i /\ i + 0 = i
    BY <1>n, <2>n, SMT, Z3
  <2>6. Trim(s, {" "}) = Trim(t, {" "})
    <3> DEFINE c == 1 + a
               d == 1 + b
    <3>1. /\ c = a + 1 /\ d = b + 1 /\ Bounds(s, {" "}, c, d)
          /\ \A i \in 1 .. Len(t) : s[i + 1] = t[i]
      BY <1>1, <2>3, <2>5
    <3>2. s \in Texts /\ 1 \in Nat
      BY <1>n, <1>1
    <3> HIDE DEF c, d
    <3>3. \A n \in Nat : /\ c = a + n /\ d = b + n
                         /\ \A i \in 1 .. Len(t) : s[i + n] = t[i]
                         => Trim(s, {" "}) = Trim(t, {" "})
      BY <2>1, <3>1, <3>2, SameTrim
    <3> QED
      BY <3>1, <3>2, <3>3
  <2>7. Trim(u, {" "}) = Trim(t, {" "})
    <3>1. a = a + 0 /\ b = b + 0 /\ \A i \in 1 .. Len(t) : u[i + 0] = t[i]
      BY <1>1, <2>5
    <3> QED
      BY <1>n, <1>1, <2>1, <2>4, <3>1, SameTrim
  <2> QED
    BY <1>1, <2>6, <2>7 DEF Folded, TrimSpace, s, u
<1> QED
  BY <1>4, <1>5, TrimCases

\* A target of any length has one subject however it is spelled, and the
\* certificate --issue makes for it without --localhost has that one name.
THEOREM CertifiesSubject == Spec => []SubjectIsCertified
<1>1. ASSUME TypeOK
      PROVE  SubjectIsCertified
  <2> DEFINE t == canonicalTarget(text)
  <2> SUFFICES ASSUME NEW s \in {text, ToUpper(text), <<" ">> \o text, text \o <<" ">>} \cup
                                {ip \in IPs : IPString[ip] = t}
               PROVE  /\ canonicalTarget(s) = t
                      /\ Issued => Issue(canonicalTarget(s), FALSE) = {t}
    BY DEF SubjectIsCertified
  <2>1. text \in Texts
    BY <1>1 DEF TypeOK
  <2>2. t \in Texts /\ TrimSpace(t) = t /\ (t \in IPs => IPString[t] = t)
    BY <2>1, CanonicalFacts
  <2>3. Issued => Issue(t, FALSE) = {t}
    BY <2>2, IssueFacts DEF Issued
  <2>4. CASE s \in {text, ToUpper(text), <<" ">> \o text, text \o <<" ">>}
    <3>1. s \in Texts /\ Folded(s) = Folded(text)
      BY <2>1, <2>4, UpperFolded, BlankFolded
    <3>2. t = IF Folded(s) \in IPs THEN IPString[Folded(s)] ELSE Folded(s)
      BY <2>1, <3>1, CanonicalFacts
    <3>3. canonicalTarget(s) = IF Folded(s) \in IPs THEN IPString[Folded(s)] ELSE Folded(s)
      BY <3>1, CanonicalFacts
    <3> QED
      BY <2>3, <3>2, <3>3
  <2>5. CASE s \in IPs /\ IPString[s] = t
    <3>1. canonicalTarget(s) = IPString[s]
      BY <2>5, IPFacts, CanonicalFacts
    <3> QED
      BY <2>3, <2>5, <3>1
  <2> QED
    BY <2>4, <2>5
<1> QED
  BY <1>1, TypeCorrect, PTL

-----------------------------------------------------------------------------
(***************************************************************************)
(* Labels.  A name is cut at its dots and at its ends; At reads a dot      *)
(* outside the name, so that every cut is a dot.                           *)
(***************************************************************************)

At(b, i) == IF i \in 1 .. Len(b) THEN b[i] ELSE "."

Cuts(b) == {0, Len(b) + 1} \cup {i \in 1 .. Len(b) : b[i] = "."}

Neighbours(b, d, e) ==
    d \in Cuts(b) /\ e \in Cuts(b) /\ d < e /\ \A k \in Cuts(b) : k <= d \/ k >= e

LDH == Letters \cup Digits \cup {"-"}

\* The label between two cuts is valid.
LabelOK(b, d, e) ==
    /\ d + 1 < e /\ e <= d + 1 + MaxLabel
    /\ b[d + 1] # "-" /\ b[e - 1] # "-"
    /\ \A k \in (d + 1) .. (e - 1) : b[k] \in LDH

\* The cuts of a name are its dots and its two ends.
LEMMA CutFacts ==
    ASSUME NEW b \in Texts
    PROVE  /\ Len(b) \in Nat
           /\ Cuts(b) \subseteq 0 .. Len(b) + 1
           /\ \A k \in 0 .. Len(b) + 1 : k \in Cuts(b) <=> At(b, k) = "."
           /\ \A k \in 1 .. Len(b) : At(b, k) = b[k]
<1>1. Len(b) \in Nat
  BY TextFacts
<1>2. /\ 0 \in 0 .. Len(b) + 1 /\ Len(b) + 1 \in 0 .. Len(b) + 1
      /\ 1 .. Len(b) \subseteq 0 .. Len(b) + 1
      /\ 0 \notin 1 .. Len(b) /\ Len(b) + 1 \notin 1 .. Len(b)
      /\ \A k \in 0 .. Len(b) + 1 : k \in 1 .. Len(b) \/ k = 0 \/ k = Len(b) + 1
  BY <1>1, SMT, Z3
<1>3. Cuts(b) \subseteq 0 .. Len(b) + 1
  BY <1>2 DEF Cuts
<1>4. ASSUME NEW k \in 0 .. Len(b) + 1
      PROVE  k \in Cuts(b) <=> At(b, k) = "."
  BY <1>2 DEF Cuts, At
<1> QED
  BY <1>1, <1>3, <1>4 DEF At

\* The label that two neighbouring cuts enclose.
LEMMA LabelFacts ==
    ASSUME NEW b \in Texts, NEW d, NEW e, Neighbours(b, d, e)
    PROVE  validLabel(SubSeq(b, d + 1, e - 1)) <=> LabelOK(b, d, e)
<1>1. Len(b) \in Nat /\ MaxLabel \in Nat /\ d \in 0 .. Len(b) + 1 /\ e \in 0 .. Len(b) + 1 /\ d < e
  BY CutFacts, NamingAssumption DEF Neighbours
<1>2. d + 1 \in 1 .. Len(b) + 1 /\ e - 1 \in 0 .. Len(b) /\ (e - 1) - (d + 1) + 1 = e - d - 1
  BY <1>1, SMT, Z3
<1> DEFINE l == SubSeq(b, d + 1, e - 1)
<1>3. /\ l \in Texts /\ Len(l) = IF d + 1 <= e - 1 THEN e - d - 1 ELSE 0
      /\ \A i \in 1 .. e - d - 1 : l[i] = b[(d + 1) + i - 1]
  <2>1. /\ l \in Texts
        /\ Len(l) = IF d + 1 <= e - 1 THEN (e - 1) - (d + 1) + 1 ELSE 0
        /\ \A i \in 1 .. (e - 1) - (d + 1) + 1 : l[i] = b[(d + 1) + i - 1]
    BY <1>2, PartText
  <2> QED
    BY <1>2, <2>1
<1> HIDE DEF l
<1>4. \A i \in 1 .. e - d - 1 : (d + 1) + i - 1 = d + i
  BY <1>1, SMT, Z3
<1>5. Len(l) = e - d - 1 /\ e - d - 1 \in Nat
  <2>1. (IF d + 1 <= e - 1 THEN e - d - 1 ELSE 0) = e - d - 1 /\ e - d - 1 \in Nat
    BY <1>1, SMT, Z3
  <2> QED
    BY <1>3, <2>1
<1>6. \A i \in 1 .. Len(l) : l[i] = b[d + i]
  BY <1>3, <1>4, <1>5
<1>7. l # <<>> <=> d + 1 < e
  <2>1. e - d - 1 # 0 <=> d + 1 < e
    BY <1>1, SMT, Z3
  <2> QED
    BY <1>3, <1>5, <2>1, TextFacts
<1>8. Len(l) <= MaxLabel <=> e <= d + 1 + MaxLabel
  BY <1>1, <1>5, SMT, Z3
<1>9. ASSUME d + 1 < e
      PROVE  l[1] = b[d + 1] /\ l[Len(l)] = b[e - 1]
  <2>1. 1 \in 1 .. e - d - 1 /\ e - d - 1 \in 1 .. e - d - 1 /\ d + (e - d - 1) = e - 1
    BY <1>1, <1>9, SMT, Z3
  <2> QED
    BY <1>5, <1>6, <2>1
<1>10. AllIn(l, LDH) <=> \A k \in (d + 1) .. (e - 1) : b[k] \in LDH
  <2>1. \A i \in 1 .. e - d - 1 : d + i \in (d + 1) .. (e - 1)
    BY <1>1, SMT, Z3
  <2>2. \A k \in (d + 1) .. (e - 1) : k - d \in 1 .. e - d - 1 /\ d + (k - d) = k
    BY <1>1, SMT, Z3
  <2>3. AllIn(l, LDH) <=> \A i \in 1 .. Len(l) : l[i] \in LDH
    BY <1>3, TextFacts
  <2>4. ASSUME \A i \in 1 .. Len(l) : l[i] \in LDH, NEW k \in (d + 1) .. (e - 1)
        PROVE  b[k] \in LDH
    <3>1. k - d \in 1 .. Len(l) /\ d + (k - d) = k
      BY <1>5, <2>2
    <3>2. l[k - d] \in LDH /\ l[k - d] = b[d + (k - d)]
      BY <1>6, <2>4, <3>1
    <3> QED
      BY <3>1, <3>2
  <2>5. ASSUME \A k \in (d + 1) .. (e - 1) : b[k] \in LDH, NEW i \in 1 .. Len(l)
        PROVE  l[i] \in LDH
    <3>1. d + i \in (d + 1) .. (e - 1)
      BY <1>5, <2>1
    <3> QED
      BY <1>6, <2>5, <3>1
  <2> QED
    BY <2>3, <2>4, <2>5
<1>11. validLabel(l) <=> /\ l # <<>> /\ Len(l) <= MaxLabel
                         /\ l[1] # "-" /\ l[Len(l)] # "-" /\ AllIn(l, LDH)
  BY DEF validLabel, LDH
<1> QED
  BY <1>7, <1>8, <1>9, <1>10, <1>11 DEF LabelOK, l

\* The labels are valid when what lies between neighbouring cuts is.
LEMMA LabelsFacts ==
    ASSUME NEW b \in Texts
    PROVE  (\A label \in Labels(b) : validLabel(label))
              <=> \A d, e : Neighbours(b, d, e) => LabelOK(b, d, e)
<1>1. ASSUME NEW label \in Labels(b)
      PROVE  \E d, e : Neighbours(b, d, e) /\ label = SubSeq(b, d + 1, e - 1)
  <2>1. PICK p \in {q \in Cuts(b) \X Cuts(b) :
                      q[1] < q[2] /\ \A k \in Cuts(b) : k <= q[1] \/ k >= q[2]} :
               label = SubSeq(b, p[1] + 1, p[2] - 1)
    BY <1>1 DEF Labels, Cuts
  <2>2. Neighbours(b, p[1], p[2])
    BY <2>1 DEF Neighbours
  <2> QED
    BY <2>1, <2>2
<1>2. ASSUME NEW d, NEW e, Neighbours(b, d, e)
      PROVE  SubSeq(b, d + 1, e - 1) \in Labels(b)
  <2>1. <<d, e>> \in {q \in Cuts(b) \X Cuts(b) :
                        q[1] < q[2] /\ \A k \in Cuts(b) : k <= q[1] \/ k >= q[2]}
    BY <1>2 DEF Neighbours
  <2>2. SubSeq(b, <<d, e>>[1] + 1, <<d, e>>[2] - 1) \in Labels(b)
    BY <2>1 DEF Labels, Cuts
  <2> QED
    BY <2>2
<1> QED
  <2>1. ASSUME \A label \in Labels(b) : validLabel(label), NEW d, NEW e, Neighbours(b, d, e)
        PROVE  LabelOK(b, d, e)
    <3>1. SubSeq(b, d + 1, e - 1) \in Labels(b)
      BY <1>2, <2>1
    <3>2. validLabel(SubSeq(b, d + 1, e - 1))
      BY <2>1, <3>1
    <3> QED
      BY <2>1, <3>2, LabelFacts
  <2>2. ASSUME \A d, e : Neighbours(b, d, e) => LabelOK(b, d, e), NEW label \in Labels(b)
        PROVE  validLabel(label)
    <3>1. PICK d, e : Neighbours(b, d, e) /\ label = SubSeq(b, d + 1, e - 1)
      BY <1>1, <2>2
    <3>2. validLabel(SubSeq(b, d + 1, e - 1)) <=> LabelOK(b, d, e)
      BY <3>1, LabelFacts
    <3> QED
      BY <2>2, <3>1, <3>2
  <2> QED
    BY <2>1, <2>2

\* Every cut but the last has a next one, every one but the first a previous
\* one, and every other character lies between two.
LEMMA NextCut ==
    ASSUME NEW b \in Texts, NEW d \in Cuts(b), d # Len(b) + 1
    PROVE  \E e : Neighbours(b, d, e)
<1> DEFINE S == {k \in Cuts(b) : k > d}
<1>1. Len(b) \in Nat /\ Cuts(b) \subseteq 0 .. Len(b) + 1 /\ Len(b) + 1 \in Cuts(b)
  BY CutFacts DEF Cuts
<1>2. 0 .. Len(b) + 1 \subseteq Nat /\ Len(b) + 1 > d
  BY <1>1, SMT, Z3
<1>3. Min(S) \in S /\ \A y \in S : Min(S) <= y
  BY <1>1, <1>2, LeastElement
<1>4. Min(S) \in Cuts(b) /\ Min(S) > d
  BY <1>3
<1>5. ASSUME NEW k \in Cuts(b)
      PROVE  k <= d \/ k >= Min(S)
  <2>1. k > d => Min(S) <= k
    BY <1>3
  <2>2. d \in Nat /\ k \in Nat /\ Min(S) \in Nat
    BY <1>1, <1>2, <1>4
  <2> HIDE DEF S
  <2> QED
    BY <2>1, <2>2, SMT, Z3
<1>6. d < Min(S)
  <2>1. d \in Nat /\ Min(S) \in Nat /\ Min(S) > d
    BY <1>1, <1>2, <1>4
  <2> HIDE DEF S
  <2> QED
    BY <2>1, SMT, Z3
<1> QED
  BY <1>4, <1>5, <1>6 DEF Neighbours

\* Every cut but the first has a neighbour before it.
LEMMA PreviousCut ==
    ASSUME NEW b \in Texts, NEW e \in Cuts(b), e # 0
    PROVE  \E d : Neighbours(b, d, e)
<1> DEFINE S == {k \in Cuts(b) : k < e}
<1>1. Len(b) \in Nat /\ Cuts(b) \subseteq 0 .. Len(b) + 1 /\ 0 \in Cuts(b)
  BY CutFacts DEF Cuts
<1>2. 0 .. Len(b) + 1 \subseteq Nat /\ 0 < e /\ Len(b) + 1 \in Nat
  BY <1>1, SMT, Z3
<1>3. S \subseteq 0 .. Len(b) + 1 /\ 0 \in S
  BY <1>1, <1>2
<1>4. Max(S) \in S /\ \A y \in S : Max(S) >= y
  BY <1>2, <1>3, GreatestElement
<1>5. Max(S) \in Cuts(b) /\ Max(S) < e
  BY <1>4
<1>6. ASSUME NEW k \in Cuts(b)
      PROVE  k <= Max(S) \/ k >= e
  <2>1. k < e => Max(S) >= k
    BY <1>4
  <2>2. e \in Nat /\ k \in Nat /\ Max(S) \in Nat
    BY <1>1, <1>2, <1>5
  <2> HIDE DEF S
  <2> QED
    BY <2>1, <2>2, SMT, Z3
<1> QED
  BY <1>5, <1>6 DEF Neighbours

\* A character that is no dot lies between two neighbouring cuts.
LEMMA Around ==
    ASSUME NEW b \in Texts, NEW i \in 1 .. Len(b), b[i] # "."
    PROVE  \E d, e : Neighbours(b, d, e) /\ d < i /\ i < e
<1> DEFINE S == {k \in Cuts(b) : k < i}
<1>1. Len(b) \in Nat /\ Cuts(b) \subseteq 0 .. Len(b) + 1 /\ 0 \in Cuts(b)
  BY CutFacts DEF Cuts
<1>2. 0 .. Len(b) + 1 \subseteq Nat /\ 0 < i /\ Len(b) + 1 \in Nat /\ i \in 0 .. Len(b) + 1
  BY <1>1, SMT, Z3
<1>3. S \subseteq 0 .. Len(b) + 1 /\ 0 \in S
  BY <1>1, <1>2
<1>4. Max(S) \in S /\ \A y \in S : Max(S) >= y
  BY <1>2, <1>3, GreatestElement
<1>5. Max(S) \in Cuts(b) /\ Max(S) < i
  BY <1>4
<1>6. i \notin Cuts(b)
  BY <1>2, CutFacts
<1>7. Max(S) # Len(b) + 1
  BY <1>1, <1>2, <1>5, SMT, Z3
<1>8. PICK e : Neighbours(b, Max(S), e)
  BY <1>5, <1>7, NextCut
<1>9. e \in Cuts(b) /\ Max(S) < e
  BY <1>8 DEF Neighbours
<1>10. i < e
  <2>1. e < i => Max(S) >= e
    BY <1>4, <1>9
  <2>2. e \in Nat /\ i \in Nat /\ Max(S) \in Nat /\ e # i
    BY <1>1, <1>2, <1>5, <1>6, <1>9
  <2> HIDE DEF S
  <2> QED
    BY <1>9, <2>1, <2>2, SMT, Z3
<1> QED
  BY <1>5, <1>8, <1>10

\* The labels of a name are valid just when its characters have the right
\* neighbours.
Dotted(b) ==
    /\ b # <<>> /\ AllIn(b, Letters \cup Digits \cup {"-", "."})
    /\ \A i \in 1 .. Len(b) + 1 :
          At(b, i) = "." => At(b, i - 1) \notin {".", "-"} /\ At(b, i + 1) # "-"
    /\ \A i \in 1 .. Len(b) : At(b, 1) # "-" /\ \E k \in i .. i + MaxLabel : At(b, k) = "."

\* Valid labels make a dotted name.
LEMMA LabelsAreDotted ==
    ASSUME NEW b \in Texts, \A d, e : Neighbours(b, d, e) => LabelOK(b, d, e)
    PROVE  Dotted(b)
<1>1. /\ Len(b) \in Nat /\ MaxLabel \in Nat /\ Cuts(b) \subseteq 0 .. Len(b) + 1
      /\ 0 \in Cuts(b) /\ Len(b) + 1 \in Cuts(b)
      /\ \A k \in 0 .. Len(b) + 1 : k \in Cuts(b) <=> At(b, k) = "."
      /\ \A k \in 1 .. Len(b) : At(b, k) = b[k]
  BY CutFacts, NamingAssumption DEF Cuts
<1>n. Len(b) \in Nat /\ MaxLabel \in Nat
  BY <1>1
<1>2. b # <<>>
  <2>1. ASSUME Len(b) = 0
        PROVE  FALSE
    <3>1. Cuts(b) \subseteq {0, 1} /\ 0 < 1 /\ 1 \in Cuts(b)
      <4>1. 0 .. Len(b) + 1 = {0, 1} /\ Len(b) + 1 = 1 /\ 0 < 1
        BY <2>1, SMT, Z3
      <4> QED
        BY <1>1, <4>1
    <3>2. \A k \in {0, 1} : k <= 0 \/ k >= 1
      BY SMT, Z3
    <3>3. Neighbours(b, 0, 1)
      BY <1>1, <3>1, <3>2 DEF Neighbours
    <3>4. 0 + 1 < 1
      BY <3>3 DEF LabelOK
    <3> QED
      BY <3>4, SMT, Z3
  <2> QED
    BY <2>1, TextFacts
<1>3. ASSUME NEW i \in 1 .. Len(b), b[i] # "."
      PROVE  b[i] \in LDH /\ \E k \in i .. i + MaxLabel : At(b, k) = "."
  <2>1. PICK d, e : Neighbours(b, d, e) /\ d < i /\ i < e
    BY <1>3, Around
  <2>2. d \in Cuts(b) /\ e \in Cuts(b)
    BY <2>1 DEF Neighbours
  <2>3. d \in 0 .. Len(b) + 1 /\ e \in 0 .. Len(b) + 1 /\ At(b, e) = "."
    BY <1>1, <2>2
  <2>4. e <= d + 1 + MaxLabel /\ \A k \in (d + 1) .. (e - 1) : b[k] \in LDH
    BY <2>1 DEF LabelOK
  <2>5. e <= d + 1 + MaxLabel /\ d < i /\ i < e /\ d \in 0 .. Len(b) + 1 /\ e \in 0 .. Len(b) + 1
    BY <2>1, <2>3, <2>4
  <2>6. i \in (d + 1) .. (e - 1) /\ e \in i .. i + MaxLabel
    BY <1>n, <2>5, SMT, Z3
  <2> QED
    BY <2>3, <2>4, <2>6
<1>4. ASSUME NEW i \in 1 .. Len(b)
      PROVE  \E k \in i .. i + MaxLabel : At(b, k) = "."
  <2>1. CASE b[i] = "."
    <3>1. i \in i .. i + MaxLabel
      BY <1>n, SMT, Z3
    <3> QED
      BY <1>1, <2>1, <3>1
  <2> QED
    BY <1>3, <2>1
<1>5. ASSUME NEW i \in 1 .. Len(b) + 1, At(b, i) = "."
      PROVE  At(b, i - 1) \notin {".", "-"} /\ At(b, i + 1) # "-"
  <2>n. i \in 0 .. Len(b) + 1 /\ i # 0 /\ i - 1 \in 0 .. Len(b) + 1
    BY <1>n, SMT, Z3
  <2>1. i \in Cuts(b)
    BY <1>1, <1>5, <2>n
  <2>2. At(b, i - 1) \notin {".", "-"}
    <3>1. PICK d : Neighbours(b, d, i)
      BY <2>1, <2>n, PreviousCut
    <3>2. /\ d \in Cuts(b) /\ d + 1 < i /\ b[i - 1] # "-"
          /\ \A k \in Cuts(b) : k <= d \/ k >= i
      BY <3>1 DEF Neighbours, LabelOK
    <3>3. d \in 0 .. Len(b) + 1 /\ d + 1 < i
      BY <1>1, <3>2
    <3>4. i - 1 \in 1 .. Len(b) /\ ~ (i - 1 <= d) /\ ~ (i - 1 >= i)
      BY <1>n, <3>3, SMT, Z3
    <3>5. i - 1 \notin Cuts(b)
      BY <3>2, <3>4
    <3> QED
      BY <1>1, <2>n, <3>2, <3>4, <3>5
  <2>3. CASE i = Len(b) + 1
    <3>1. i + 1 \notin 1 .. Len(b)
      BY <1>n, <2>3, SMT, Z3
    <3> QED
      BY <2>2, <3>1 DEF At
  <2>4. CASE i # Len(b) + 1
    <3>1. PICK e : Neighbours(b, i, e)
      BY <2>1, <2>4, NextCut
    <3>2. e \in Cuts(b) /\ i + 1 < e /\ b[i + 1] # "-"
      BY <3>1 DEF Neighbours, LabelOK
    <3>3. i + 1 \in 1 .. Len(b)
      <4>1. e \in 0 .. Len(b) + 1 /\ i + 1 < e
        BY <1>1, <3>2
      <4> QED
        BY <1>n, <4>1, SMT, Z3
    <3> QED
      BY <1>1, <2>2, <3>2, <3>3
  <2> QED
    BY <2>3, <2>4
<1>6. At(b, 1) # "-"
  <2>1. Len(b) # 0
    BY <1>2, TextFacts
  <2>2. 0 # Len(b) + 1 /\ 1 \in 1 .. Len(b)
    BY <1>n, <2>1, SMT, Z3
  <2>3. PICK e : Neighbours(b, 0, e)
    BY <1>1, <2>2, NextCut
  <2>4. b[0 + 1] # "-" /\ 0 + 1 = 1
    BY <2>3, SMT, Z3 DEF LabelOK
  <2> QED
    BY <1>1, <2>2, <2>4
<1>7. AllIn(b, Letters \cup Digits \cup {"-", "."})
  <2>1. \A i \in 1 .. Len(b) : b[i] \in Letters \cup Digits \cup {"-", "."}
    BY <1>3 DEF LDH
  <2> QED
    BY <2>1, CharsIn
<1> QED
  BY <1>2, <1>4, <1>5, <1>6, <1>7 DEF Dotted

\* A dotted name has valid labels.
LEMMA DottedHasLabels ==
    ASSUME NEW b \in Texts, Dotted(b), NEW d, NEW e, Neighbours(b, d, e)
    PROVE  LabelOK(b, d, e)
<1>1. /\ Len(b) \in Nat /\ MaxLabel \in Nat /\ Cuts(b) \subseteq 0 .. Len(b) + 1
      /\ \A k \in 0 .. Len(b) + 1 : k \in Cuts(b) <=> At(b, k) = "."
      /\ \A k \in 1 .. Len(b) : At(b, k) = b[k]
  BY CutFacts, NamingAssumption
<1>2. /\ d \in Cuts(b) /\ e \in Cuts(b) /\ d < e /\ \A k \in Cuts(b) : k <= d \/ k >= e
  BY DEF Neighbours
<1>n. /\ Len(b) \in Nat /\ MaxLabel \in Nat
      /\ d \in 0 .. Len(b) + 1 /\ e \in 0 .. Len(b) + 1 /\ d < e
  BY <1>1, <1>2
<1>3. e \in 1 .. Len(b) + 1 /\ e - 1 \in 0 .. Len(b) + 1
  BY <1>n, SMT, Z3
<1>4. At(b, e - 1) \notin {".", "-"}
  BY <1>1, <1>2, <1>3 DEF Dotted
<1>5. d + 1 < e
  <2>1. e - 1 \notin Cuts(b)
    BY <1>1, <1>3, <1>4
  <2>2. e - 1 # d
    BY <1>2, <2>1
  <2> QED
    BY <1>n, <2>2, SMT, Z3
<1>6. d + 1 \in 1 .. Len(b) /\ e - 1 \in 1 .. Len(b)
  BY <1>n, <1>5, SMT, Z3
<1>7. e <= d + 1 + MaxLabel
  <2>1. PICK k \in (d + 1) .. (d + 1) + MaxLabel : At(b, k) = "."
    BY <1>6 DEF Dotted
  <2>2. CASE k \in 0 .. Len(b) + 1
    <3>1. k \in Cuts(b)
      BY <1>1, <2>1, <2>2
    <3>2. k <= d \/ k >= e
      BY <1>2, <3>1
    <3> QED
      BY <1>n, <3>2, SMT, Z3
  <2>3. CASE k \notin 0 .. Len(b) + 1
    BY <1>n, <2>3, SMT, Z3
  <2> QED
    BY <2>2, <2>3
<1>8. b[d + 1] # "-"
  <2>1. CASE d = 0
    <3>1. d + 1 = 1
      BY <2>1, SMT, Z3
    <3> QED
      BY <1>1, <1>6, <3>1 DEF Dotted
  <2>2. CASE d # 0
    <3>1. d \in 1 .. Len(b) + 1
      BY <1>n, <2>2, SMT, Z3
    <3>2. At(b, d) = "."
      BY <1>1, <1>2
    <3> QED
      BY <1>1, <1>6, <3>1, <3>2 DEF Dotted
  <2> QED
    BY <2>1, <2>2
<1>9. ASSUME NEW k \in (d + 1) .. (e - 1)
      PROVE  b[k] \in LDH
  <2>1. k \in 1 .. Len(b) /\ k \in 0 .. Len(b) + 1 /\ ~ (k <= d) /\ ~ (k >= e)
    BY <1>n, SMT, Z3
  <2>2. b[k] # "."
    BY <1>1, <1>2, <2>1
  <2>3. b[k] \in Letters \cup Digits \cup {"-", "."}
    BY <2>1, TextFacts DEF Dotted
  <2> QED
    BY <2>2, <2>3 DEF LDH
<1> QED
  BY <1>1, <1>4, <1>5, <1>6, <1>7, <1>8, <1>9 DEF LabelOK

-----------------------------------------------------------------------------
(* What --issue accepts *)

\* What TrimWildcard takes off.
LEMMA WildcardFacts ==
    ASSUME NEW t \in Texts
    PROVE  /\ TrimWildcard(t) \in Texts
           /\ \/ TrimWildcard(t) = t
              \/ /\ Len(t) \in Nat /\ Len(t) >= 2 /\ t[1] = "*" /\ t[2] = "."
                 /\ TrimWildcard(t) = SubSeq(t, 3, Len(t))
                 /\ \A i \in 3 .. Len(t) : \E k \in 1 .. Len(TrimWildcard(t)) :
                       t[i] = TrimWildcard(t)[k]
<1>1. Len(t) \in Nat /\ "*" \in Alphabet /\ "." \in Alphabet
  BY TextFacts DEF Alphabet
<1>2. CASE HasPrefix(t, <<"*", ".">>)
  <2>1. Len(t) >= 2 /\ t[1] = "*" /\ t[2] = "."
    BY <1>1, <1>2, PrefixFacts
  <2>2. TrimWildcard(t) = SubSeq(t, 3, Len(t))
    BY <1>2 DEF TrimWildcard
  <2>n. Len(t) \in Nat /\ Len(t) >= 2
    BY <1>1, <2>1
  <2>3. 3 \in 1 .. Len(t) + 1 /\ Len(t) \in 0 .. Len(t)
    BY <2>n, SMT, Z3
  <2> DEFINE b == SubSeq(t, 3, Len(t))
  <2>4. /\ b \in Texts /\ Len(b) = IF 3 <= Len(t) THEN Len(t) - 3 + 1 ELSE 0
        /\ \A i \in 1 .. Len(t) - 3 + 1 : b[i] = t[3 + i - 1]
    BY <2>3, PartText
  <2> HIDE DEF b
  <2>5. ASSUME NEW i \in 3 .. Len(t)
        PROVE  \E k \in 1 .. Len(b) : t[i] = b[k]
    <3>1. /\ i - 2 \in 1 .. Len(t) - 3 + 1 /\ 3 + (i - 2) - 1 = i
          /\ (IF 3 <= Len(t) THEN Len(t) - 3 + 1 ELSE 0) = Len(t) - 3 + 1
      BY <2>n, SMT, Z3
    <3>2. i - 2 \in 1 .. Len(b) /\ b[i - 2] = t[i]
      BY <2>4, <3>1
    <3> QED
      BY <3>2
  <2> QED
    BY <2>1, <2>2, <2>4, <2>5, <2>n DEF b
<1>3. CASE ~HasPrefix(t, <<"*", ".">>)
  BY <1>3 DEF TrimWildcard
<1> QED
  BY <1>2, <1>3

\* What --issue accepts, by characters instead of labels.
LEMMA AcceptedFacts ==
    ASSUME NEW t \in Texts
    PROVE  Accepted(t) <=> t \in IPs \/ DottedName(t)
<1> DEFINE b == TrimWildcard(t)
<1>1. b \in Texts
  BY WildcardFacts
<1>2. validIssuanceTarget({t}, {}) <=>
        "." \in Range(t) /\ Len(b) <= MaxName /\ \A label \in Labels(b) : validLabel(label)
  BY DEF validIssuanceTarget
<1>3. DottedName(t) <=> "." \in Range(t) /\ Len(b) <= MaxName /\ Dotted(b)
  BY DEF DottedName, Dotted, At
<1>4. "." \in Range(t) => t # <<>>
  <2>1. ASSUME "." \in Range(t), t = <<>>
        PROVE  FALSE
    <3>1. \E i \in 1 .. Len(t) : t[i] = "."
      BY <2>1, TextFacts
    <3>2. Len(t) = 0
      BY <2>1, TextFacts
    <3>3. 1 .. Len(t) = {}
      BY <3>2, SMT, Z3
    <3> QED
      BY <3>1, <3>3
  <2> QED
    BY <2>1
<1>5. (\A label \in Labels(b) : validLabel(label)) <=> Dotted(b)
  BY <1>1, LabelsFacts, LabelsAreDotted, DottedHasLabels
<1> HIDE DEF b
<1> QED
  BY <1>2, <1>3, <1>4, <1>5 DEF Accepted

\* What is issued, in terms of the canonical target.
LEMMA IssuedFacts ==
    ASSUME TypeOK
    PROVE  /\ canonicalTarget(text) \in Texts
           /\ Folded(canonicalTarget(text)) = canonicalTarget(text)
           /\ canonicalTarget(text) \in IPs =>
                 IPString[canonicalTarget(text)] = canonicalTarget(text)
           /\ Issued <=> IsTarget /\ Accepted(canonicalTarget(text))
<1> DEFINE t == canonicalTarget(text)
<1>1. text \in Texts
  BY DEF TypeOK
<1>2. /\ t \in Texts /\ TrimSpace(t) = t /\ (t \in IPs => IPString[t] = t) /\ Folded(t) = t
  BY <1>1, CanonicalFacts
<1>3. Issue(t, FALSE) = IF Accepted(t) THEN {t} ELSE {}
  BY <1>2, IssueFacts
<1> QED
  BY <1>2, <1>3 DEF Issued

\* --issue accepts the dotted names and the IPs: IssuesDottedNames for
\* targets of any length and all limits on names and labels.
THEOREM AcceptsDottedNames == Spec => []IssuesDottedNames
<1>1. ASSUME TypeOK
      PROVE  IssuesDottedNames
  <2>1. canonicalTarget(text) \in Texts /\ (Issued <=> IsTarget /\ Accepted(canonicalTarget(text)))
    BY <1>1, IssuedFacts
  <2>2. Accepted(canonicalTarget(text)) <=>
            canonicalTarget(text) \in IPs \/ DottedName(canonicalTarget(text))
    BY <2>1, AcceptedFacts
  <2> QED
    BY <2>1, <2>2 DEF IssuesDottedNames, IsIP
<1> QED
  BY <1>1, TypeCorrect, PTL

-----------------------------------------------------------------------------
(* The files of a target *)

\* What an accepted target is made of: a colon never stands before a dot at
\* the beginning, and an asterisk nowhere else.
WildBegin(t) == Len(t) >= 2 /\ t[2] = "."

Recoverable(t) ==
    \A i \in 1 .. Len(t) :
        \/ t[i] \in LDH \cup {"."}
        \/ t[i] = ":" /\ ~ (i = 1 /\ WildBegin(t))
        \/ t[i] = "*" /\ i = 1 /\ WildBegin(t)

\* An accepted target has no character that sanitizeName writes for others.
LEMMA AcceptedIsRecoverable ==
    ASSUME NEW t \in Texts, Accepted(t), t \in IPs => IPString[t] = t
    PROVE  Recoverable(t) /\ t # <<>>
<1>1. CASE t \in IPs
  <2>1. t # <<>> /\ AllIn(t, Hex \cup {":", "."}) /\ ~HasPrefix(t, <<":", ".">>)
    BY <1>1, IPAssumption
  <2>2. \A i \in 1 .. Len(t) : t[i] \in LDH \cup {"."} \/ t[i] = ":"
    <3>1. \A i \in 1 .. Len(t) : t[i] \in Hex \cup {":", "."}
      BY <2>1, TextFacts
    <3>2. \A c \in Hex \cup {":", "."} : c \in LDH \cup {"."} \/ c = ":"
      BY DEF Hex, LDH, Letters, Digits
    <3> QED
      BY <3>1, <3>2
  <2>3. ":" \in Alphabet /\ "." \in Alphabet
    BY DEF Alphabet
  <2>4. t[1] = ":" => ~WildBegin(t)
    BY <2>1, <2>3, PrefixFacts DEF WildBegin
  <2> QED
    BY <2>1, <2>2, <2>4 DEF Recoverable
<1>2. CASE DottedName(t)
  <2> DEFINE b == TrimWildcard(t)
  <2>1. b \in Texts
    BY WildcardFacts
  <2>2. b # <<>> /\ AllIn(b, Letters \cup Digits \cup {"-", "."})
    BY <1>2 DEF DottedName
  <2>3. \A k \in 1 .. Len(b) : b[k] \in LDH \cup {"."}
    <3>1. \A k \in 1 .. Len(b) : b[k] \in Letters \cup Digits \cup {"-", "."}
      BY <2>1, <2>2, CharsIn
    <3> QED
      BY <3>1 DEF LDH
  <2>4. CASE b = t
    BY <2>2, <2>3, <2>4 DEF Recoverable
  <2>5. CASE /\ Len(t) \in Nat /\ Len(t) >= 2 /\ t[1] = "*" /\ t[2] = "."
             /\ \A i \in 3 .. Len(t) : \E k \in 1 .. Len(b) : t[i] = b[k]
    <3>n. Len(t) \in Nat
      BY <2>5
    <3>1. \A i \in 1 .. Len(t) : i = 1 \/ i = 2 \/ i \in 3 .. Len(t)
      BY <3>n, SMT, Z3
    <3>2. \A i \in 3 .. Len(t) : t[i] \in LDH \cup {"."}
      BY <2>3, <2>5
    <3>3. Recoverable(t)
      BY <2>5, <3>1, <3>2 DEF Recoverable, WildBegin
    <3>4. Len(t) # 0
      <4>1. Len(t) \in Nat /\ Len(t) >= 2
        BY <2>5
      <4> QED
        BY <4>1, SMT, Z3
    <3> QED
      BY <3>3, <3>4, TextFacts
  <2> HIDE DEF b
  <2> QED
    BY <2>4, <2>5, WildcardFacts DEF b
<1> QED
  BY <1>1, <1>2, AcceptedFacts

\* The name of the files, character by character.
Sanitized(c) == IF c \in {":", "*", " "} THEN "_" ELSE c

\* sanitizeName, character by character.
LEMMA SanitizedText ==
    ASSUME NEW t \in Texts, Folded(t) = t, t # <<>>
    PROVE  /\ sanitizeName(t) \in Texts /\ Len(sanitizeName(t)) = Len(t)
           /\ \A i \in 1 .. Len(t) : sanitizeName(t)[i] = Sanitized(t[i])
<1> DEFINE l == [i \in 1 .. Len(t) |-> Sanitized(t[i])]
<1>1. Len(t) \in Nat /\ Len(t) # 0 /\ \A i \in 1 .. Len(t) : t[i] \in Alphabet
  BY TextFacts
<1>2. \A i \in 1 .. Len(t) : Sanitized(t[i]) \in Alphabet
  BY <1>1 DEF Sanitized, Alphabet
<1>3. l \in Texts /\ Len(l) = Len(t)
  <2>1. l \in [1 .. Len(t) -> Alphabet]
    BY <1>2
  <2> QED
    BY <1>1, <2>1, BuiltText
<1>4. l # <<>>
  BY <1>1, <1>3, TextFacts
<1>5. sanitizeName(t) = IF l = <<>> THEN <<"cert">> ELSE l
  BY DEF sanitizeName, EachChar, Folded, Sanitized
<1> QED
  BY <1>3, <1>4, <1>5

\* A target that --issue accepts without --localhost can be told from its
\* files: FilesNameTarget for targets of any length.
THEOREM FilesTellTarget == Spec => []FilesNameTarget
<1>1. ASSUME TypeOK, Issued
      PROVE  Recover(sanitizeName(canonicalTarget(text))) = canonicalTarget(text)
  <2> DEFINE t == canonicalTarget(text)
             f == sanitizeName(t)
  <2>1. t \in Texts /\ Folded(t) = t /\ (t \in IPs => IPString[t] = t) /\ Accepted(t)
    BY <1>1, IssuedFacts
  <2>2. Recoverable(t) /\ t # <<>> /\ Len(t) \in Nat
    BY <2>1, AcceptedIsRecoverable, TextFacts
  <2>3. f \in Texts /\ Len(f) = Len(t) /\ \A i \in 1 .. Len(t) : f[i] = Sanitized(t[i])
    BY <2>1, <2>2, SanitizedText
  <2> HIDE DEF t, f
  <2>4. HasPrefix(f, <<"_", ".">>) <=> Len(t) >= 2 /\ f[1] = "_" /\ f[2] = "."
    <3>1. "_" \in Alphabet /\ "." \in Alphabet
      BY DEF Alphabet
    <3>2. HasPrefix(f, <<"_", ".">>) <=> Len(f) >= 2 /\ f[1] = "_" /\ f[2] = "."
      BY <2>3, <3>1, PrefixFacts
    <3> QED
      BY <2>3, <3>2
  <2>5. ASSUME Len(t) >= 2
        PROVE  f[2] = "." <=> t[2] = "."
    <3>1. 2 \in 1 .. Len(t)
      BY <2>2, <2>5, SMT, Z3
    <3> QED
      BY <2>3, <3>1 DEF Sanitized
  <2>6. ASSUME NEW i \in 1 .. Len(t)
        PROVE  (IF f[i] # "_" THEN f[i]
                ELSE IF i = 1 /\ HasPrefix(f, <<"_", ".">>) THEN "*" ELSE ":") = t[i]
    <3>1. CASE t[i] \in LDH \cup {"."}
      <4>1. t[i] \notin {":", "*", " ", "_"}
        BY <3>1 DEF LDH, Letters, Digits
      <4> QED
        BY <2>3, <4>1 DEF Sanitized
    <3>2. CASE t[i] = ":" /\ ~ (i = 1 /\ WildBegin(t))
      BY <2>3, <2>4, <2>5, <3>2 DEF Sanitized, WildBegin
    <3>3. CASE t[i] = "*" /\ i = 1 /\ WildBegin(t)
      BY <2>3, <2>4, <2>5, <3>3 DEF Sanitized, WildBegin
    <3> QED
      BY <2>2, <3>1, <3>2, <3>3 DEF Recoverable
  <2>7. Recover(f) = [i \in 1 .. Len(t) |-> t[i]]
    BY <2>3, <2>6 DEF Recover
  <2>8. \A i \in 1 .. Len(t) : t[i] \in Alphabet
    BY <2>1, TextFacts
  <2>9. Recover(f) \in Texts /\ Len(Recover(f)) = Len(t)
    <3>1. Recover(f) \in [1 .. Len(t) -> Alphabet]
      BY <2>7, <2>8
    <3> QED
      BY <2>2, <3>1, BuiltText
  <2> QED
    BY <2>1, <2>7, <2>9, TextEqual DEF t, f
<1> QED
  BY <1>1, TypeCorrect, PTL DEF FilesNameTarget

=============================================================================
