------------------------------- MODULE Naming -------------------------------
(***************************************************************************)
(* How the program reads what people write: the target of --issue and      *)
(* --reissue, the serial of --revoke, and master_address.  Records, files  *)
(* and URLs are found again by the text these readings produce, so two     *)
(* spellings of one thing must agree and two things must differ.           *)
(*                                                                         *)
(* A text is a sequence of characters of the classes the code tells apart: *)
(* "a" and "A" stand for the letters (and hexadecimal digits above 9), "0" *)
(* and "1" for the digits, "h" for a letter that is no hexadecimal digit.  *)
(* The text is typed character by character; the properties hold of every  *)
(* text on the way.                                                        *)
(***************************************************************************)
EXTENDS Naturals, Sequences, FiniteSetsExt

Kinds == {"target", "name", "serial", "address"}

Letters == {"a", "h", "A"}

Digits == {"0", "1"}

Hex == {"a", "A"} \cup Digits

Alphabet == Letters \cup Digits \cup {"-", "+", ".", "*", ":", "_", "[", "]", " "}

CONSTANTS
    Chars,      \* the characters typed, for each kind of text
    MaxLength,  \* bound: characters typed, for each kind of text
    MaxName,    \* the longest DNS name, 253 in the code
    MaxLabel,   \* the longest label of one, 63 in the code
    IPs,        \* the texts that net.ParseIP reads
    IPString    \* the canonical text, IP.String, of the address each one denotes

-----------------------------------------------------------------------------
(* Strings *)

EachChar(t, f(_)) == [i \in 1 .. Len(t) |-> f(t[i])]

ToLower(t) == EachChar(t, LAMBDA c : IF c = "A" THEN "a" ELSE c)

ToUpper(t) == EachChar(t, LAMBDA c : IF c = "a" THEN "A" ELSE c)

\* From the first to the last character that is none of chars.
Trim(t, chars) ==
    LET used == {i \in 1 .. Len(t) : t[i] \notin chars}
    IN  IF used = {} THEN <<>> ELSE SubSeq(t, Min(used), Max(used))

TrimSpace(t) == Trim(t, {" "})

Without(t, chars) ==
    LET kept[n \in 0 .. Len(t)] ==
            IF n = 0 THEN <<>>
            ELSE IF t[n] \in chars THEN kept[n - 1] ELSE Append(kept[n - 1], t[n])
    IN  kept[Len(t)]

AllIn(t, chars) == Range(t) \subseteq chars

HasPrefix(t, p) == Len(p) <= Len(t) /\ SubSeq(t, 1, Len(p)) = p

\* Leading zeros dropped.
StripZeros(t) ==
    LET kept == {i \in 1 .. Len(t) : t[i] # "0"}
    IN  IF kept = {} THEN <<>> ELSE SubSeq(t, Min(kept), Len(t))

\* What lies between two neighbouring dots, or a dot and an end.
Labels(t) ==
    LET cuts == {0, Len(t) + 1} \cup {i \in 1 .. Len(t) : t[i] = "."}
    IN  {SubSeq(t, d[1] + 1, d[2] - 1) :
            d \in {e \in cuts \X cuts : e[1] < e[2] /\ \A k \in cuts : k <= e[1] \/ k >= e[2]}}

-----------------------------------------------------------------------------

ASSUME NamingAssumption ==
    /\ Chars \in [Kinds -> SUBSET Alphabet]
    /\ MaxLength \in [Kinds -> Nat]
    /\ MaxName \in Nat /\ MaxLabel \in Nat

\* What the code relies on in package net: an address is written with
\* hexadecimal digits, colons and dots, in either case; String gives one
\* text per address, in lower case, that ParseIP reads as that address and
\* that begins with a digit or two colons.
ASSUME IPAssumption ==
    /\ IPString \in [IPs -> IPs]
    /\ \A t \in IPs :
          /\ t \in Seq(Alphabet) /\ t # <<>> /\ AllIn(t, Hex \cup {":", "."})
          /\ ToLower(t) \in IPs /\ IPString[ToLower(t)] = IPString[t]
          /\ IPString[IPString[t]] = IPString[t]
          /\ "A" \notin Range(IPString[t])
          /\ ~HasPrefix(IPString[t], <<":", ".">>)

IsIP(t) == t \in IPs

VARIABLES
    kind,   \* what the text is typed as; a name is a target without colons
    text

vars == <<kind, text>>

Init == kind \in Kinds /\ text = <<>>

Type(c) ==
    /\ Len(text) < MaxLength[kind]
    /\ text' = Append(text, c)
    /\ UNCHANGED kind

Next == \E c \in Chars[kind] : Type(c)

Spec == Init /\ [][Next]_vars

-----------------------------------------------------------------------------
(* Targets of certificates *)

\* Mutant: blanks are not trimmed.
canonicalTarget_NoTrim(s) ==
    LET l == ToLower(s) IN IF IsIP(l) THEN IPString[l] ELSE l

canonicalTarget(s) ==
    LET l == ToLower(TrimSpace(s)) IN IF IsIP(l) THEN IPString[l] ELSE l

splitSANs(items) ==
    LET used == {TrimSpace(i) : i \in items} \ {<<>>}
    IN  [dns |-> {i \in used : ~IsIP(i)}, ips |-> {IPString[i] : i \in {j \in used : IsIP(j)}}]

\* Mutant: underscores pass.
validLabel_Underscore(label) ==
    /\ label # <<>> /\ Len(label) <= MaxLabel
    /\ label[1] # "-" /\ label[Len(label)] # "-"
    /\ AllIn(label, Letters \cup Digits \cup {"-", "_"})

\* Mutant: a hyphen at the end passes.
validLabel_HyphenEnds(label) ==
    /\ label # <<>> /\ Len(label) <= MaxLabel
    /\ label[1] # "-"
    /\ AllIn(label, Letters \cup Digits \cup {"-"})

validLabel(label) ==
    /\ label # <<>> /\ Len(label) <= MaxLabel
    /\ label[1] # "-" /\ label[Len(label)] # "-"
    /\ AllIn(label, Letters \cup Digits \cup {"-"})

TrimWildcard(name) ==
    IF HasPrefix(name, <<"*", ".">>) THEN SubSeq(name, 3, Len(name)) ELSE name

validIssuanceTarget(dns, ips) ==
    /\ dns \cup ips # {}
    /\ \A name \in dns :
          /\ "." \in Range(name)
          /\ Len(TrimWildcard(name)) <= MaxName
          /\ \A label \in Labels(TrimWildcard(name)) : validLabel(label)

\* What loopbackSANs has for "localhost".
LoopbackNames == {<<"localhost">>, <<"127.0.0.1">>, <<"::1">>}

\* The names of the certificate --issue makes, none if it refuses.  With
\* --localhost it takes any target, and the names are not the target's.
Issue(target, localhost) ==
    LET sans == splitSANs({target})
    IN  IF localhost THEN LoopbackNames
        ELSE IF validIssuanceTarget(sans.dns, sans.ips) THEN sans.dns \cup sans.ips ELSE {}

\* The base name of the files under issued/.
sanitizeName(s) ==
    LET l == EachChar(ToLower(TrimSpace(s)), LAMBDA c : IF c \in {":", "*", " "} THEN "_" ELSE c)
    IN  IF l = <<>> THEN <<"cert">> ELSE l

IsTarget == kind \in {"target", "name"}

\* The text is a target that --issue and --reissue accept without --localhost.
Issued == IsTarget /\ Issue(canonicalTarget(text), FALSE) # {}

-----------------------------------------------------------------------------
(* Serials *)

\* Mutant: the digits are kept as they are typed.
normalizeSerial_Digits(s) == Without(ToLower(TrimSpace(s)), {":"})

TrimPlus(t) == IF HasPrefix(t, <<"+">>) THEN SubSeq(t, 2, Len(t)) ELSE t

\* SetString reads an optional sign and hexadecimal digits; what it cannot
\* read, and what is not positive, is left as it is.
normalizeSerial(s) ==
    LET l == Without(ToLower(TrimSpace(s)), {":"})
        n == TrimPlus(l)
    IN  IF AllIn(n, Hex) /\ StripZeros(n) # <<>> THEN StripZeros(n) ELSE l

-----------------------------------------------------------------------------
(* Addresses *)

NoPort == [ok |-> FALSE, host |-> <<>>, port |-> <<>>]

LastColon(a) == Max({0} \cup {i \in 1 .. Len(a) : a[i] = ":"})

\* net.SplitHostPort: at the last colon, a host with colons in brackets.
SplitHostPort(a) ==
    LET i == LastColon(a)
        end == IF "]" \in Range(a) THEN Min({j \in 1 .. Len(a) : a[j] = "]"}) ELSE 0
        h == IF a[1] = "[" THEN SubSeq(a, 2, end - 1) ELSE SubSeq(a, 1, i - 1)
        p == SubSeq(a, i + 1, Len(a))
    IN  IF \/ i = 0
           \/ a[1] = "[" /\ end + 1 # i
           \/ a[1] # "[" /\ ":" \in Range(h)
           \/ {"[", "]"} \cap Range(h \o p) # {}
        THEN NoPort
        ELSE [ok |-> TRUE, host |-> h, port |-> p]

\* net.JoinHostPort brackets a host with colons.
JoinHostPort(h, p) ==
    (IF ":" \in Range(h) THEN <<"[">> \o h \o <<"]">> ELSE h) \o <<":">> \o p

TrimBrackets(a) == Trim(a, {"[", "]"})

host(addr) ==
    LET a == TrimSpace(addr)
    IN  IF a # <<>> /\ SplitHostPort(a).ok THEN SplitHostPort(a).host ELSE TrimBrackets(a)

\* Mutant: the control plane is looked for at the bootstrap port.
masterURL_SamePort(control, address, mgmt) ==
    LET addr == IF control /\ mgmt # <<>> THEN mgmt ELSE address
    IN  IF addr # <<>> /\ SplitHostPort(addr).ok
        THEN addr
        ELSE JoinHostPort(host(addr), IF control THEN <<"8443">> ELSE <<"443">>)

\* Host and port of the URLs, given master_address and the address of the
\* control plane, if there is one.
masterURL(control, address, mgmt) ==
    LET addr == IF ~control THEN address ELSE IF mgmt # <<>> THEN mgmt ELSE host(address)
    IN  IF addr # <<>> /\ SplitHostPort(addr).ok
        THEN addr
        ELSE JoinHostPort(host(addr), IF control THEN <<"8443">> ELSE <<"443">>)

-----------------------------------------------------------------------------
(* Properties *)

\* The target can be told from the name of its files, so no two targets that
\* --issue accepts without --localhost share files and locks:
\* validIssuanceTarget leaves out the characters sanitizeName writes for
\* others.  With --localhost it is not asked, and such a target may have the
\* files of another.
Recover(f) ==
    [i \in 1 .. Len(f) |-> IF f[i] # "_" THEN f[i]
                           ELSE IF i = 1 /\ HasPrefix(f, <<"_", ".">>) THEN "*" ELSE ":"]

FilesNameTarget ==
    Issued => Recover(sanitizeName(canonicalTarget(text))) = canonicalTarget(text)

\* Upper case, blanks and other spellings of an IP do not make another
\* subject, with or without --localhost, so that the lock, the files and the
\* predecessors replaceCertificate revokes are the same however the target
\* is spelled each time; and without --localhost the subject recorded is the
\* one name in the certificate.  (With it the subject is recorded all the
\* same, and the certificate names the loopbacks.)
SubjectIsCertified ==
    IsTarget => \A s \in {text, ToUpper(text), <<" ">> \o text, text \o <<" ">>} \cup
                         {ip \in IPs : IPString[ip] = canonicalTarget(text)} :
        /\ canonicalTarget(s) = canonicalTarget(text)
        /\ Issued => Issue(canonicalTarget(s), FALSE) = {canonicalTarget(text)}

\* "*.local, *.internal, any dotted DNS name, or any IP": what --issue
\* accepts, by the neighbours of each character and not by labels.
DottedName(t) ==
    LET b == TrimWildcard(t)
        At(i) == IF i \in 1 .. Len(b) THEN b[i] ELSE "."
    IN  /\ "." \in Range(t) /\ b # <<>> /\ AllIn(b, Letters \cup Digits \cup {"-", "."})
        /\ Len(b) <= MaxName
        /\ \A i \in 1 .. Len(b) + 1 : At(i) = "." => At(i - 1) \notin {".", "-"} /\ At(i + 1) # "-"
        /\ \A i \in 1 .. Len(b) : At(1) # "-" /\ \E k \in i .. i + MaxLabel : At(k) = "."

IssuesDottedNames ==
    LET t == canonicalTarget(text) IN IsTarget => (Issued <=> IsIP(t) \/ DottedName(t))

\* A serial is found by any spelling of its number, with a "+" or without:
\* normalizeSerial gives the digits that Text(16) has printed in the record.
Digit(c) == IF c \in Digits THEN IF c = "1" THEN 1 ELSE 0 ELSE 10

Value(t) ==
    LET value[n \in 0 .. Len(t)] == IF n = 0 THEN 0 ELSE 16 * value[n - 1] + Digit(t[n])
    IN  value[Len(t)]

SerialIsItsNumber ==
    LET digits == TrimPlus(Without(TrimSpace(text), {":"}))
        s == normalizeSerial(text)
    IN  kind = "serial" /\ AllIn(digits, Hex) /\ Value(digits) > 0
            => AllIn(s, Hex \ {"A"}) /\ s[1] # "0" /\ Value(s) = Value(digits)

\* The spellings of a host, with and without a port: names have no colons,
\* IPv6 addresses have two or more.
Hosts == {h \in {SubSeq(text, i, j) : i \in 1 .. Len(text), j \in 1 .. Len(text)} :
            /\ h # <<>> /\ AllIn(h, Letters \cup Digits \cup {"-", ".", ":"})
            /\ \A i \in 1 .. Len(h) : h[i] = ":" => \E k \in 1 .. Len(h) \ {i} : h[k] = ":"}

Ports == {p \in {SubSeq(text, i, Len(text)) : i \in 1 .. Len(text)} : p # <<>> /\ AllIn(p, Digits)}

Bracketed(h) == <<"[">> \o h \o <<"]">>

\* The bootstrap URL names the configured host and the configured port or
\* 443, the control URL the same host and 8443, for every form of address
\* ("Preserve an explicit bootstrap port and correctly bracket IPv6
\* addresses").  An address of its own for the control plane is read likewise.
URLNamesMaster ==
    kind = "address" => \A h \in Hosts :
        /\ text \in {h, Bracketed(h)} =>
              /\ masterURL(FALSE, text, <<>>) = JoinHostPort(h, <<"443">>)
              /\ masterURL(TRUE, text, <<>>) = JoinHostPort(h, <<"8443">>)
              /\ masterURL(TRUE, <<"a">>, text) = JoinHostPort(h, <<"8443">>)
        /\ \A p \in Ports : text = JoinHostPort(h, p) =>
              /\ masterURL(FALSE, text, <<>>) = text
              /\ masterURL(TRUE, text, <<>>) = JoinHostPort(h, <<"8443">>)
              /\ masterURL(TRUE, <<"a">>, text) = text

=============================================================================
