---------------------------- MODULE NamingProofs ----------------------------
(***************************************************************************)
(* The readings of serials and addresses, for texts of any length, and the *)
(* facts about texts that they rest on.                                    *)
(*                                                                         *)
(* The argument.  What was typed is a text (TypeCorrect), and the readings *)
(* of any text agree.  Texts are compared character by character: trimming *)
(* keeps what lies between the first and the last character that stays,    *)
(* which LeastElement and GreatestElement find.  What is computed          *)
(* digit by digit is a function of the length read so far, about which     *)
(* Induction reasons: a set of lengths that holds 0 and, with each length, *)
(* the next one, holds them all.                                           *)
(***************************************************************************)
EXTENDS Naming, TLAPS, SequenceTheorems, WellFoundedInduction

\* A step goes to Zenon unless it names other provers, which are tried in turn.
USE ZenonT(30)

Texts == Seq(Alphabet)

TypeOK == kind \in Kinds /\ text \in Texts

-----------------------------------------------------------------------------
(* Least and greatest elements *)

\* A set of natural numbers has a least element, which Min returns.
LEMMA LeastElement ==
    ASSUME NEW S, S \subseteq Nat, S # {}
    PROVE  Min(S) \in S /\ \A y \in S : Min(S) <= y
<1> DEFINE Less == {ss \in Nat \X Nat : ss[1] < ss[2]}
<1>1. IsWellFoundedOn(Less, Nat)
  BY NatLessThanWellFounded DEF OpToRel
<1> HIDE DEF Less
<1>2. PICK x \in S : \A y \in S : ~ (<<y, x>> \in Less)
  BY <1>1, WFMin
<1>3. ASSUME NEW y \in S
      PROVE  x <= y
  <2>1. x \in Nat /\ y \in Nat
    OBVIOUS
  <2>2. y < x => <<y, x>> \in Less
    BY <2>1 DEF Less
  <2>3. ~ (y < x)
    BY <2>2, <1>2
  <2> QED
    BY <2>1, <2>3, SMT, Z3
<1> QED
  BY <1>3 DEF Min

\* A bounded one has a greatest element, which Max returns.
LEMMA GreatestElement ==
    ASSUME NEW n \in Nat, NEW S, S \subseteq 0 .. n, S # {}
    PROVE  Max(S) \in S /\ \A y \in S : Max(S) >= y
<1> DEFINE R == {n - k : k \in S}
<1>1. R \subseteq Nat /\ R # {}
  <2>1. \A k \in 0 .. n : n - k \in Nat
    BY SMT, Z3
  <2> QED
    BY <2>1
<1>2. Min(R) \in R /\ \A y \in R : Min(R) <= y
  BY <1>1, LeastElement
<1>3. PICK k \in S : Min(R) = n - k
  BY <1>2
<1>4. \A y \in S : k >= y
  <2>1. ASSUME NEW y \in S
        PROVE  k >= y
    <3>1. n - k <= n - y
      BY <1>2, <1>3
    <3> QED
      BY <3>1, SMT, Z3
  <2> QED
    BY <2>1
<1> QED
  BY <1>4 DEF Max

-----------------------------------------------------------------------------
(* Texts *)

\* What is needed of a text to reason about its characters.
LEMMA TextFacts ==
    ASSUME NEW t \in Texts
    PROVE  /\ Len(t) \in Nat
           /\ DOMAIN t = 1 .. Len(t)
           /\ \A i \in 1 .. Len(t) : t[i] \in Alphabet
           /\ Len(t) = 0 <=> t = <<>>
           /\ \A c : c \in Range(t) <=> \E i \in 1 .. Len(t) : t[i] = c
           /\ \A chars : AllIn(t, chars) <=> \A i \in 1 .. Len(t) : t[i] \in chars
<1>1. Len(t) \in Nat /\ DOMAIN t = 1 .. Len(t) /\ \A i \in 1 .. Len(t) : t[i] \in Alphabet
  BY LenProperties, ElementOfSeq DEF Texts
<1>2. Len(t) = 0 <=> t = <<>>
  BY EmptySeq, SMT, Z3 DEF Texts
<1>3. \A c : c \in Range(t) <=> \E i \in 1 .. Len(t) : t[i] = c
  BY <1>1 DEF Range
<1>4. \A chars : AllIn(t, chars) <=> \A i \in 1 .. Len(t) : t[i] \in chars
  BY <1>1 DEF AllIn, Range
<1> QED
  BY <1>1, <1>2, <1>3, <1>4

\* AllIn, character by character.
LEMMA CharsIn ==
    ASSUME NEW t \in Texts, NEW chars
    PROVE  AllIn(t, chars) <=> \A i \in 1 .. Len(t) : t[i] \in chars
BY TextFacts

\* Two texts are equal when their characters are.
LEMMA TextEqual ==
    ASSUME NEW s \in Texts, NEW t \in Texts,
           Len(s) = Len(t), \A i \in 1 .. Len(s) : s[i] = t[i]
    PROVE  s = t
BY SeqEqual DEF Texts

\* A text built character by character.
LEMMA BuiltText ==
    ASSUME NEW n \in Nat, NEW f \in [1 .. n -> Alphabet]
    PROVE  f \in Texts /\ Len(f) = n
<1>2. f \in Texts
  BY SeqDef DEF Texts
<1>3. DOMAIN f = 1 .. n /\ DOMAIN f = 1 .. Len(f) /\ Len(f) \in Nat
  BY <1>2, TextFacts
<1> QED
  BY <1>2, <1>3, SMT, Z3

\* A part of a text, and two texts one after the other.
LEMMA PartText ==
    ASSUME NEW t \in Texts, NEW a \in 1 .. Len(t) + 1, NEW b \in 0 .. Len(t)
    PROVE  /\ SubSeq(t, a, b) \in Texts
           /\ Len(SubSeq(t, a, b)) = IF a <= b THEN b - a + 1 ELSE 0
           /\ \A i \in 1 .. b - a + 1 : SubSeq(t, a, b)[i] = t[a + i - 1]
<1>1. Len(t) \in Nat
  BY TextFacts
<1>2. a \in Int /\ b \in Int /\ a .. b \subseteq 1 .. Len(t)
  BY <1>1, SMT, Z3
<1>3. \A i \in a .. b : t[i] \in Alphabet
  BY <1>2, TextFacts
<1> QED
  BY <1>2, <1>3, SubSeqProperties, SMT, Z3 DEF Texts

\* Two texts one after the other.
LEMMA JoinedText ==
    ASSUME NEW s \in Texts, NEW t \in Texts
    PROVE  /\ s \o t \in Texts
           /\ Len(s \o t) = Len(s) + Len(t)
           /\ \A i \in 1 .. Len(s) : (s \o t)[i] = s[i]
           /\ \A i \in 1 .. Len(t) : (s \o t)[Len(s) + i] = t[i]
<1>1. /\ s \o t \in Texts
      /\ Len(s \o t) = Len(s) + Len(t)
      /\ \A i \in 1 .. Len(s) + Len(t) :
            (s \o t)[i] = IF i <= Len(s) THEN s[i] ELSE t[i - Len(s)]
  BY ConcatProperties DEF Texts
<1>2. Len(s) \in Nat /\ Len(t) \in Nat
  BY TextFacts
<1>3. \A i \in 1 .. Len(s) : i \in 1 .. Len(s) + Len(t) /\ i <= Len(s)
  BY <1>2, SMT, Z3
<1>4. \A i \in 1 .. Len(t) : /\ Len(s) + i \in 1 .. Len(s) + Len(t) /\ ~ (Len(s) + i <= Len(s))
                             /\ (Len(s) + i) - Len(s) = i
  BY <1>2, SMT, Z3
<1> QED
  BY <1>1, <1>3, <1>4

\* A text of one character.
LEMMA CharText ==
    ASSUME NEW c \in Alphabet
    PROVE  <<c>> \in Texts /\ Len(<<c>>) = 1 /\ <<c>>[1] = c
BY SMT, Z3 DEF Texts

\* The two cases of the letters.
Lower(c) == IF c = "A" THEN "a" ELSE c

Upper(c) == IF c = "a" THEN "A" ELSE c

\* The case of a text, character by character.
LEMMA CaseText ==
    ASSUME NEW t \in Texts
    PROVE  /\ ToLower(t) \in Texts /\ Len(ToLower(t)) = Len(t)
           /\ \A i \in 1 .. Len(t) : ToLower(t)[i] = Lower(t[i])
           /\ ToUpper(t) \in Texts /\ Len(ToUpper(t)) = Len(t)
           /\ \A i \in 1 .. Len(t) : ToUpper(t)[i] = Upper(t[i])
<1>1. ToLower(t) = [i \in 1 .. Len(t) |-> Lower(t[i])]
  BY DEF ToLower, EachChar, Lower
<1>2. ToUpper(t) = [i \in 1 .. Len(t) |-> Upper(t[i])]
  BY DEF ToUpper, EachChar, Upper
<1>3. Len(t) \in Nat /\ \A i \in 1 .. Len(t) : Lower(t[i]) \in Alphabet /\ Upper(t[i]) \in Alphabet
  BY TextFacts DEF Lower, Upper, Alphabet, Letters
<1>4. ToLower(t) \in Texts /\ Len(ToLower(t)) = Len(t)
  <2>1. ToLower(t) \in [1 .. Len(t) -> Alphabet]
    BY <1>1, <1>3
  <2> QED
    BY <1>3, <2>1, BuiltText
<1>5. ToUpper(t) \in Texts /\ Len(ToUpper(t)) = Len(t)
  <2>1. ToUpper(t) \in [1 .. Len(t) -> Alphabet]
    BY <1>2, <1>3
  <2> QED
    BY <1>3, <2>1, BuiltText
<1> QED
  BY <1>1, <1>2, <1>4, <1>5

\* A prefix of two characters.
LEMMA PrefixFacts ==
    ASSUME NEW c \in Alphabet, NEW d \in Alphabet, NEW t \in Texts
    PROVE  HasPrefix(t, <<c, d>>) <=> Len(t) >= 2 /\ t[1] = c /\ t[2] = d
<1>1. /\ <<c, d>> \in Texts /\ Len(<<c, d>>) = 2 /\ <<c, d>>[1] = c /\ <<c, d>>[2] = d
      /\ Len(t) \in Nat
  BY TextFacts, SMT, Z3 DEF Texts
<1>2. ASSUME Len(t) >= 2
      PROVE  SubSeq(t, 1, 2) = <<c, d>> <=> t[1] = c /\ t[2] = d
  <2>1. 1 \in 1 .. Len(t) + 1 /\ 2 \in 0 .. Len(t)
    BY <1>1, <1>2, SMT, Z3
  <2>2. /\ SubSeq(t, 1, 2) \in Texts /\ Len(SubSeq(t, 1, 2)) = 2
        /\ SubSeq(t, 1, 2)[1] = t[1] /\ SubSeq(t, 1, 2)[2] = t[2]
    BY <2>1, PartText, SMT, Z3
  <2>3. 1 .. 2 = {1, 2}
    BY SMT, Z3
  <2>4. t[1] = c /\ t[2] = d => SubSeq(t, 1, 2) = <<c, d>>
    BY <1>1, <2>2, <2>3, TextEqual
  <2> QED
    BY <1>1, <2>2, <2>4
<1>3. 2 <= Len(t) <=> Len(t) >= 2
  BY <1>1, SMT, Z3
<1> QED
  BY <1>1, <1>2, <1>3 DEF HasPrefix

-----------------------------------------------------------------------------
(* Trimming *)

\* a and b are the first and the last character of t that is none of chars.
Bounds(t, chars, a, b) ==
    /\ a \in 1 .. Len(t) /\ b \in 1 .. Len(t)
    /\ t[a] \notin chars /\ t[b] \notin chars
    /\ \A i \in 1 .. Len(t) : t[i] \notin chars => a <= i /\ i <= b

\* What is trimmed is what lies outside them.
LEMMA TrimIs ==
    ASSUME NEW t \in Texts, NEW chars, NEW a, NEW b, Bounds(t, chars, a, b)
    PROVE  /\ a \in Nat /\ b \in Nat /\ a <= b /\ a \in 1 .. Len(t) + 1 /\ b \in 0 .. Len(t)
           /\ Trim(t, chars) = SubSeq(t, a, b)
<1> DEFINE used == {i \in 1 .. Len(t) : t[i] \notin chars}
<1>1. Len(t) \in Nat /\ a \in 1 .. Len(t) /\ b \in 1 .. Len(t)
  BY TextFacts DEF Bounds
<1>2. /\ a \in Nat /\ b \in Nat /\ a \in 1 .. Len(t) + 1 /\ b \in 0 .. Len(t)
      /\ 1 .. Len(t) \subseteq Nat /\ 1 .. Len(t) \subseteq 0 .. Len(t)
  BY <1>1, SMT, Z3
<1>3. a \in used /\ b \in used /\ \A i \in used : a <= i /\ i <= b
  BY DEF Bounds
<1>4. used \subseteq Nat /\ used \subseteq 0 .. Len(t) /\ used # {}
  BY <1>2, <1>3
<1>5. /\ Min(used) \in used /\ \A y \in used : Min(used) <= y
      /\ Max(used) \in used /\ \A y \in used : Max(used) >= y
  BY <1>1, <1>4, LeastElement, GreatestElement
<1>6. Trim(t, chars) = SubSeq(t, Min(used), Max(used))
  BY <1>3 DEF Trim
<1> HIDE DEF used
<1>7. Min(used) = a /\ Max(used) = b
  <2>1. /\ Min(used) \in Nat /\ Max(used) \in Nat /\ Min(used) <= a /\ a <= Min(used)
        /\ Max(used) >= b /\ Max(used) <= b
    BY <1>3, <1>4, <1>5
  <2> QED
    BY <1>2, <2>1, SMT, Z3
<1>8. a <= b
  BY <1>3
<1> QED
  BY <1>2, <1>6, <1>7, <1>8

\* A text has such bounds, or nothing of it is left.
LEMMA TrimCases ==
    ASSUME NEW t \in Texts, NEW chars
    PROVE  \/ AllIn(t, chars) /\ Trim(t, chars) = <<>>
           \/ \E a, b : Bounds(t, chars, a, b)
<1> DEFINE used == {i \in 1 .. Len(t) : t[i] \notin chars}
<1>1. Len(t) \in Nat
  BY TextFacts
<1>2. CASE used = {}
  BY <1>2, TextFacts DEF Trim
<1>3. CASE used # {}
  <2>1. used \subseteq Nat /\ used \subseteq 0 .. Len(t)
    <3>1. 1 .. Len(t) \subseteq Nat /\ 1 .. Len(t) \subseteq 0 .. Len(t)
      BY <1>1, SMT, Z3
    <3> QED
      BY <3>1
  <2>2. /\ Min(used) \in used /\ \A y \in used : Min(used) <= y
        /\ Max(used) \in used /\ \A y \in used : Max(used) >= y
    BY <1>1, <1>3, <2>1, LeastElement, GreatestElement
  <2>3. \A y \in used : y <= Max(used)
    BY <2>1, <2>2, SMT, Z3
  <2>4. Bounds(t, chars, Min(used), Max(used))
    BY <2>2, <2>3 DEF Bounds
  <2> QED
    BY <2>4
<1> QED
  BY <1>2, <1>3

\* A trimmed text is a text, and nothing more can be trimmed from it.
LEMMA TrimmedText ==
    ASSUME NEW t \in Texts, NEW chars
    PROVE  /\ Trim(t, chars) \in Texts
           /\ Trim(t, chars) # <<>> =>
                 Bounds(Trim(t, chars), chars, 1, Len(Trim(t, chars)))
<1>1. CASE Trim(t, chars) = <<>>
  BY <1>1, EmptySeq DEF Texts
<1>2. CASE \E a, b : Bounds(t, chars, a, b)
  <2>1. PICK a, b : Bounds(t, chars, a, b)
    BY <1>2
  <2> DEFINE u == SubSeq(t, a, b)
  <2>2. /\ a \in Nat /\ b \in Nat /\ a <= b /\ Trim(t, chars) = u
        /\ a \in 1 .. Len(t) + 1 /\ b \in 0 .. Len(t)
    BY <2>1, TrimIs
  <2>3. /\ u \in Texts /\ Len(u) = b - a + 1
        /\ \A i \in 1 .. b - a + 1 : u[i] = t[a + i - 1]
    BY <2>2, PartText
  <2> HIDE DEF u
  <2>4. /\ 1 \in 1 .. Len(u) /\ Len(u) \in 1 .. Len(u) /\ Len(u) \in Nat
        /\ u[1] = t[a] /\ u[Len(u)] = t[b]
    <3>1. 1 \in 1 .. b - a + 1 /\ b - a + 1 \in 1 .. b - a + 1 /\ b - a + 1 \in Nat
          /\ a + 1 - 1 = a /\ a + (b - a + 1) - 1 = b
      BY <2>2, SMT, Z3
    <3> QED
      BY <2>3, <3>1
  <2>5. \A i \in 1 .. Len(u) : 1 <= i /\ i <= Len(u)
    BY <2>4, SMT, Z3
  <2> QED
    BY <2>1, <2>2, <2>3, <2>4, <2>5 DEF Bounds
<1> QED
  BY <1>1, <1>2, TrimCases

\* Nothing is trimmed from a text without the characters.
LEMMA NothingToTrim ==
    ASSUME NEW t \in Texts, NEW chars, t = <<>> \/ Bounds(t, chars, 1, Len(t))
    PROVE  Trim(t, chars) = t
<1>1. CASE t = <<>>
  <2>1. 1 .. Len(t) = {}
    BY <1>1, TextFacts, SMT, Z3
  <2> QED
    BY <1>1, <2>1 DEF Trim
<1>2. CASE Bounds(t, chars, 1, Len(t))
  <2>1. Trim(t, chars) = SubSeq(t, 1, Len(t))
    BY <1>2, TrimIs
  <2>2. SubSeq(t, 1, Len(t)) = t
    BY SubSeqFull DEF Texts
  <2> QED
    BY <2>1, <2>2
<1> QED
  BY <1>1, <1>2

\* Trim leaves a text that has none of the characters as it is.
LEMMA CleanText ==
    ASSUME NEW t \in Texts, NEW chars, \A i \in 1 .. Len(t) : t[i] \notin chars
    PROVE  Trim(t, chars) = t
<1>1. Len(t) \in Nat /\ (Len(t) = 0 <=> t = <<>>)
  BY TextFacts
<1>2. CASE Len(t) # 0
  <2>1. 1 \in 1 .. Len(t) /\ Len(t) \in 1 .. Len(t) /\ \A i \in 1 .. Len(t) : 1 <= i /\ i <= Len(t)
    BY <1>1, <1>2, SMT, Z3
  <2>2. Bounds(t, chars, 1, Len(t))
    BY <2>1 DEF Bounds
  <2> QED
    BY <2>2, NothingToTrim
<1> QED
  BY <1>1, <1>2, NothingToTrim

-----------------------------------------------------------------------------

\* A text typed is a text.
LEMMA TypeCorrect == Spec => []TypeOK
<1>1. Init => TypeOK
  BY EmptySeq DEF Init, TypeOK, Texts
<1>2. ASSUME TypeOK, [Next]_vars
      PROVE  TypeOK'
  <2>1. CASE Next
    <3>1. PICK c \in Chars[kind] : Type(c)
      BY <2>1 DEF Next
    <3>2. c \in Alphabet
      BY <1>2, NamingAssumption DEF TypeOK
    <3>3. Append(text, c) \in Texts
      BY <1>2, <3>2, AppendProperties DEF TypeOK, Texts
    <3> QED
      BY <1>2, <3>1, <3>3 DEF Type, TypeOK
  <2> QED
    BY <1>2, <2>1 DEF TypeOK, vars
<1> QED
  BY <1>1, <1>2, PTL DEF Spec

-----------------------------------------------------------------------------
(***************************************************************************)
(* Induction, and functions defined by recursion.                          *)
(***************************************************************************)

\* A set that holds 0, and n with n - 1, holds the numbers up to N.
LEMMA Induction ==
    ASSUME NEW N \in Nat, NEW S, 0 \in S, \A n \in 1 .. N : n - 1 \in S => n \in S
    PROVE  0 .. N \subseteq S
<1> DEFINE Bad == (0 .. N) \ S
<1>1. SUFFICES ASSUME Bad # {}
               PROVE  FALSE
  OBVIOUS
<1>2. 0 .. N \subseteq Nat
  BY SMT, Z3
<1>3. Min(Bad) \in Bad /\ \A y \in Bad : Min(Bad) <= y
  BY <1>1, <1>2, LeastElement
<1> DEFINE n == Min(Bad)
<1>4. n \in 0 .. N /\ n \notin S /\ n # 0
  BY <1>3
<1>5. ASSUME n - 1 \in 0 .. N, n - 1 \notin S
      PROVE  n <= n - 1
  BY <1>3, <1>5
<1> HIDE DEF n, Bad
<1>6. n \in 1 .. N /\ n - 1 \in 0 .. N /\ ~(n <= n - 1)
  BY <1>4, SMT, Z3
<1>7. n - 1 \in S
  BY <1>5, <1>6
<1> QED
  BY <1>4, <1>6, <1>7

\* A function whose value at n is F[n] of its value at n - 1.
Follows(f, N, b, F) == f[0] = b /\ \A n \in 1 .. N : f[n] = F[n][f[n - 1]]

\* A recursion over 0 .. N has a solution.
LEMMA RecursiveFunction ==
    ASSUME NEW N \in Nat, NEW S, NEW b \in S, NEW F \in [1 .. N -> [S -> S]]
    PROVE  \E f \in [0 .. N -> S] : Follows(f, N, b, F)
<1> DEFINE Good == {n \in 0 .. N : \E f \in [0 .. n -> S] : Follows(f, n, b, F)}
<1>1. 0 \in Good
  <2> DEFINE f == [k \in 0 .. 0 |-> b]
  <2>1. 0 \in 0 .. N /\ 0 \in 0 .. 0 /\ 1 .. 0 = {}
    BY SMT, Z3
  <2>2. f \in [0 .. 0 -> S] /\ f[0] = b
    BY <2>1
  <2> HIDE DEF f
  <2>3. Follows(f, 0, b, F)
    BY <2>1, <2>2 DEF Follows
  <2> QED
    BY <2>1, <2>2, <2>3
<1>2. ASSUME NEW n \in 1 .. N, n - 1 \in Good
      PROVE  n \in Good
  <2>1. PICK f \in [0 .. n - 1 -> S] : Follows(f, n - 1, b, F)
    BY <1>2
  <2> DEFINE g == [k \in 0 .. n |-> IF k = n THEN F[n][f[n - 1]] ELSE f[k]]
  <2>2. /\ n \in 0 .. N /\ n \in 0 .. n /\ n - 1 \in 0 .. n - 1 /\ 0 \in 0 .. n /\ 0 # n /\ n - 1 # n
        /\ n - 1 \in 0 .. n
        /\ \A k \in 0 .. n : k # n => k \in 0 .. n - 1
        /\ \A k \in 1 .. n : k # n => k \in 1 .. n - 1
        /\ \A k \in 1 .. n : k \in 0 .. n /\ k - 1 \in 0 .. n /\ k - 1 # n
    BY SMT, Z3
  <2>3. F[n][f[n - 1]] \in S
    BY <2>2
  <2>4. g \in [0 .. n -> S]
    BY <2>2, <2>3
  <2>5. g[0] = b
    BY <2>1, <2>2 DEF Follows
  <2>6. ASSUME NEW k \in 1 .. n
        PROVE  g[k] = F[k][g[k - 1]]
    <3>1. g[k - 1] = f[k - 1]
      BY <2>2
    <3>2. CASE k = n
      BY <2>2, <3>1, <3>2
    <3>3. CASE k # n
      <4>1. g[k] = f[k] /\ f[k] = F[k][f[k - 1]]
        BY <2>1, <2>2, <3>3 DEF Follows
      <4> QED
        BY <3>1, <4>1
    <3> QED
      BY <3>2, <3>3
  <2> HIDE DEF g
  <2>7. Follows(g, n, b, F)
    BY <2>5, <2>6 DEF Follows
  <2> QED
    BY <2>2, <2>4, <2>7
<1> HIDE DEF Good
<1>3. 0 .. N \subseteq Good
  BY <1>1, <1>2, Induction
<1>4. N \in 0 .. N
  BY SMT, Z3
<1> QED
  BY <1>3, <1>4 DEF Good

\* The numbers that Value reads, and the texts that Without keeps.
Reads(f, t) ==
    /\ f \in [0 .. Len(t) -> Nat] /\ f[0] = 0
    /\ \A n \in 1 .. Len(t) : f[n] = 16 * f[n - 1] + Digit(t[n])

Keeps(f, t, chars) ==
    /\ f \in [0 .. Len(t) -> Texts] /\ f[0] = <<>>
    /\ \A n \in 1 .. Len(t) : f[n] = IF t[n] \in chars THEN f[n - 1] ELSE Append(f[n - 1], t[n])

\* The positions of a text and the steps of a recursion over it.
LEMMA RangeFacts ==
    ASSUME NEW N \in Nat
    PROVE  /\ 0 \in 0 .. N /\ N \in 0 .. N /\ 0 \notin 1 .. N
           /\ \A n \in 1 .. N : n \in 0 .. N /\ n - 1 \in 0 .. N /\ n # 0
           /\ \A n \in 0 .. N : n # 0 => n \in 1 .. N
BY SMT, Z3

\* Value computes what its recursion says.
LEMMA ValueIsRead ==
    ASSUME NEW t \in Texts
    PROVE  \E f : Reads(f, t) /\ Value(t) = f[Len(t)]
<1> DEFINE N == Len(t)
           Step(v, n) == 16 * v + Digit(t[n])
           F == [n \in 1 .. N |-> [v \in Nat |-> Step(v, n)]]
           Body(f) == [n \in 0 .. N |-> IF n = 0 THEN 0 ELSE Step(f[n - 1], n)]
           f == CHOOSE g : g = Body(g)
<1>1. N \in Nat
  BY TextFacts
<1>2. \A v \in Nat, n \in 1 .. N : Step(v, n) \in Nat
  <2> TAKE v \in Nat, n \in 1 .. N
  <2>1. Digit(t[n]) \in {0, 1, 10}
    BY DEF Digit
  <2>2. \A d \in {0, 1, 10} : 16 * v + d \in Nat
    BY SMT, Z3
  <2> QED
    BY <2>1, <2>2
<1>3. Value(t) = f[N]
  BY DEF Value
<1> HIDE DEF Step
<1>4. F \in [1 .. N -> [Nat -> Nat]]
  BY <1>2
<1> HIDE DEF N
<1>5. PICK g \in [0 .. N -> Nat] : Follows(g, N, 0, F)
  <2>1. 0 \in Nat
    BY SMT, Z3
  <2> HIDE DEF F
  <2> QED
    BY <1>1, <1>4, <2>1, RecursiveFunction
<1>6. \A n \in 0 .. N : g[n] = IF n = 0 THEN 0 ELSE Step(g[n - 1], n)
  <2> TAKE n \in 0 .. N
  <2>1. CASE n = 0
    BY <1>5, <2>1 DEF Follows
  <2>2. CASE n # 0
    <3>1. n \in 1 .. N /\ n - 1 \in 0 .. N
      BY <1>1, <2>2, RangeFacts
    <3>2. g[n] = F[n][g[n - 1]] /\ g[n - 1] \in Nat
      BY <1>5, <3>1 DEF Follows
    <3> QED
      BY <2>2, <3>1, <3>2
  <2> QED
    BY <2>1, <2>2
<1>7. g = Body(g)
  BY <1>5, <1>6
<1>8. f = Body(f)
  BY <1>7
<1> HIDE DEF f, F
<1>9. f[0] = 0 /\ DOMAIN f = 0 .. N /\ f = [n \in 0 .. N |-> f[n]]
  BY <1>1, <1>8, RangeFacts
<1>10. \A n \in 1 .. N : f[n] = Step(f[n - 1], n)
  BY <1>1, <1>8, RangeFacts
<1>11. 0 .. N \subseteq {n \in 0 .. N : f[n] \in Nat}
  <2> DEFINE S == {n \in 0 .. N : f[n] \in Nat}
  <2>1. 0 \in S
    <3>1. 0 \in Nat
      BY SMT, Z3
    <3> QED
      BY <1>1, <1>9, <3>1, RangeFacts
  <2>2. ASSUME NEW n \in 1 .. N, n - 1 \in S
        PROVE  n \in S
    <3>1. f[n - 1] \in Nat /\ n \in 0 .. N
      BY <1>1, <2>2, RangeFacts
    <3>2. f[n] \in Nat
      BY <1>2, <1>10, <3>1
    <3> QED
      BY <3>1, <3>2
  <2> HIDE DEF S
  <2>3. 0 .. N \subseteq S
    BY <1>1, <2>1, <2>2, Induction
  <2> QED
    BY <2>3 DEF S
<1>12. f \in [0 .. N -> Nat]
  BY <1>9, <1>11
<1>13. Reads(f, t)
  BY <1>9, <1>10, <1>12 DEF Reads, Step, N
<1> QED
  BY <1>3, <1>13 DEF N

\* Without computes what its recursion says.
LEMMA WithoutIsKept ==
    ASSUME NEW t \in Texts, NEW chars
    PROVE  \E f : Keeps(f, t, chars) /\ Without(t, chars) = f[Len(t)]
<1> DEFINE N == Len(t)
           Step(w, n) == IF t[n] \in chars THEN w ELSE Append(w, t[n])
           F == [n \in 1 .. N |-> [w \in Texts |-> Step(w, n)]]
           Body(f) == [n \in 0 .. N |-> IF n = 0 THEN <<>>
                                        ELSE IF t[n] \in chars THEN f[n - 1] ELSE Append(f[n - 1], t[n])]
           f == CHOOSE g : g = Body(g)
<1>1. N \in Nat /\ <<>> \in Texts
  <2>1. <<>> \in Texts
    BY EmptySeq DEF Texts
  <2> QED
    BY <2>1, TextFacts
<1>2. \A w \in Texts, n \in 1 .. N : Step(w, n) \in Texts
  <2> TAKE w \in Texts, n \in 1 .. N
  <2>1. t[n] \in Alphabet
    BY TextFacts
  <2>2. Append(w, t[n]) \in Texts
    BY <2>1, AppendProperties DEF Texts
  <2> QED
    BY <2>2
<1>3. Without(t, chars) = f[N]
  BY DEF Without
<1>b. ASSUME NEW g, NEW n
      PROVE (IF n = 0 THEN <<>> ELSE IF t[n] \in chars THEN g[n - 1] ELSE Append(g[n - 1], t[n])) =
                 (IF n = 0 THEN <<>> ELSE Step(g[n - 1], n))
  OBVIOUS
<1> HIDE DEF Step
<1>4. F \in [1 .. N -> [Texts -> Texts]]
  BY <1>2
<1> HIDE DEF N
<1>5. PICK g \in [0 .. N -> Texts] : Follows(g, N, <<>>, F)
  <2> HIDE DEF F
  <2> QED
    BY <1>1, <1>4, RecursiveFunction
<1>6. \A n \in 0 .. N : g[n] = IF n = 0 THEN <<>> ELSE Step(g[n - 1], n)
  <2> TAKE n \in 0 .. N
  <2>1. CASE n = 0
    BY <1>5, <2>1 DEF Follows
  <2>2. CASE n # 0
    <3>1. n \in 1 .. N /\ n - 1 \in 0 .. N
      BY <1>1, <2>2, RangeFacts
    <3>2. g[n] = F[n][g[n - 1]] /\ g[n - 1] \in Texts
      BY <1>5, <3>1 DEF Follows
    <3> QED
      BY <2>2, <3>1, <3>2
  <2> QED
    BY <2>1, <2>2
<1>7. g = Body(g)
  BY <1>5, <1>6, <1>b
<1>8. f = Body(f)
  BY <1>7
<1> HIDE DEF f, F
<1>9. f[0] = <<>> /\ DOMAIN f = 0 .. N /\ f = [n \in 0 .. N |-> f[n]]
  BY <1>1, <1>8, RangeFacts
<1>10. \A n \in 1 .. N : f[n] = Step(f[n - 1], n)
  BY <1>1, <1>8, RangeFacts DEF Step
<1>11. 0 .. N \subseteq {n \in 0 .. N : f[n] \in Texts}
  <2> DEFINE S == {n \in 0 .. N : f[n] \in Texts}
  <2>1. 0 \in S
    BY <1>1, <1>9, RangeFacts
  <2>2. ASSUME NEW n \in 1 .. N, n - 1 \in S
        PROVE  n \in S
    <3>1. f[n - 1] \in Texts /\ n \in 0 .. N
      BY <1>1, <2>2, RangeFacts
    <3>2. f[n] \in Texts
      BY <1>2, <1>10, <3>1
    <3> QED
      BY <3>1, <3>2
  <2> HIDE DEF S
  <2>3. 0 .. N \subseteq S
    BY <1>1, <2>1, <2>2, Induction
  <2> QED
    BY <2>3 DEF S
<1>12. f \in [0 .. N -> Texts]
  BY <1>9, <1>11
<1>13. Keeps(f, t, chars)
  BY <1>9, <1>10, <1>12 DEF Keeps, Step, N
<1> QED
  BY <1>3, <1>13 DEF N

-----------------------------------------------------------------------------
(* Serials *)

\* A text with one more character.
LEMMA AppendedText ==
    ASSUME NEW w \in Texts, NEW c \in Alphabet
    PROVE  /\ Append(w, c) \in Texts /\ Len(Append(w, c)) = Len(w) + 1
           /\ Append(w, c)[Len(w) + 1] = c
           /\ \A i \in 1 .. Len(w) : Append(w, c)[i] = w[i]
<1>1. w \in Seq(Alphabet)
  BY DEF Texts
<1>2. Append(w, c) \in Seq(Alphabet) /\ Len(Append(w, c)) = Len(w) + 1
  BY <1>1, AppendProperties
<1>3. Append(w, c)[Len(w) + 1] = c
  BY <1>1, SMT, Z3
<1>4. \A i \in 1 .. Len(w) : Append(w, c)[i] = w[i]
  BY <1>1, SMT, Z3
<1> QED
  BY <1>2, <1>3, <1>4 DEF Texts

\* The lower case of a text with one more character.
LEMMA LowerAppend ==
    ASSUME NEW w \in Texts, NEW c \in Alphabet
    PROVE  /\ Append(w, c) \in Texts /\ Lower(c) \in Alphabet
           /\ ToLower(Append(w, c)) = Append(ToLower(w), Lower(c))
<1> DEFINE x == Append(w, c)
           l == ToLower(w)
           y == Append(l, Lower(c))
<1>1. Lower(c) \in Alphabet
  BY DEF Lower, Alphabet, Letters
<1>2. /\ x \in Texts /\ Len(x) = Len(w) + 1 /\ x[Len(w) + 1] = c
      /\ \A i \in 1 .. Len(w) : x[i] = w[i]
  BY AppendedText
<1>3. l \in Texts /\ Len(l) = Len(w) /\ \A i \in 1 .. Len(w) : l[i] = Lower(w[i])
  BY CaseText
<1>4. /\ y \in Texts /\ Len(y) = Len(l) + 1 /\ y[Len(l) + 1] = Lower(c)
      /\ \A i \in 1 .. Len(l) : y[i] = l[i]
  BY <1>1, <1>3, AppendedText
<1>5. /\ ToLower(x) \in Texts /\ Len(ToLower(x)) = Len(x)
      /\ \A i \in 1 .. Len(x) : ToLower(x)[i] = Lower(x[i])
  BY <1>2, CaseText
<1>n. Len(w) \in Nat
  BY TextFacts
<1>6. \A i \in 1 .. Len(w) + 1 : i \in 1 .. Len(w) \/ i = Len(w) + 1
  BY <1>n, SMT, Z3
<1> HIDE DEF x, y, l
<1>7. ASSUME NEW i \in 1 .. Len(w) + 1
      PROVE  ToLower(x)[i] = y[i]
  <2>1. ToLower(x)[i] = Lower(x[i])
    BY <1>2, <1>5
  <2>2. CASE i \in 1 .. Len(w)
    <3>1. x[i] = w[i] /\ y[i] = l[i] /\ l[i] = Lower(w[i])
      BY <1>2, <1>3, <1>4, <2>2
    <3> QED
      BY <2>1, <3>1
  <2>3. CASE i = Len(w) + 1
    BY <1>2, <1>3, <1>4, <2>1, <2>3
  <2> QED
    BY <1>6, <2>2, <2>3
<1>8. ToLower(x) = y
  <2>1. Len(ToLower(x)) = Len(w) + 1 /\ Len(y) = Len(w) + 1
    BY <1>2, <1>3, <1>4, <1>5
  <2> QED
    BY <1>4, <1>5, <1>7, <2>1, TextEqual
<1> QED
  BY <1>1, <1>2, <1>8 DEF x, y, l

\* Lower case and leaving out colons commute.
LEMMA LowerWithout ==
    ASSUME NEW t \in Texts
    PROVE  /\ Without(t, {":"}) \in Texts
           /\ Without(ToLower(t), {":"}) = ToLower(Without(t, {":"}))
<1> DEFINE chars == {":"}
           N == Len(t)
           l == ToLower(t)
<1>1. N \in Nat /\ \A i \in 1 .. N : t[i] \in Alphabet
  BY TextFacts
<1>2. l \in Texts /\ Len(l) = N /\ \A i \in 1 .. N : l[i] = Lower(t[i])
  BY CaseText
<1>3. \A c : Lower(c) \in chars <=> c \in chars
  BY DEF Lower
<1>4. PICK f : Keeps(f, t, chars) /\ Without(t, chars) = f[Len(t)]
  BY WithoutIsKept
<1> HIDE DEF l
<1>5. PICK g : Keeps(g, l, chars) /\ Without(l, chars) = g[Len(l)]
  BY <1>2, WithoutIsKept
<1> HIDE DEF chars, N
<1>6. /\ f \in [0 .. N -> Texts] /\ f[0] = <<>>
      /\ \A n \in 1 .. N : f[n] = IF t[n] \in chars THEN f[n - 1] ELSE Append(f[n - 1], t[n])
  BY <1>4 DEF Keeps, N
<1>7. /\ g[0] = <<>>
      /\ \A n \in 1 .. N : g[n] = IF l[n] \in chars THEN g[n - 1] ELSE Append(g[n - 1], l[n])
  BY <1>2, <1>5 DEF Keeps
<1> DEFINE S == {n \in 0 .. N : g[n] = ToLower(f[n])}
<1>8. 0 \in S
  <2>1. <<>> \in Texts /\ Len(<<>>) = 0
    BY EmptySeq DEF Texts
  <2>2. ToLower(<<>>) \in Texts /\ Len(ToLower(<<>>)) = 0
    BY <2>1, CaseText
  <2>3. ToLower(<<>>) = <<>>
    BY <2>2, TextFacts
  <2> QED
    BY <1>1, <1>6, <1>7, <2>3, RangeFacts
<1>9. ASSUME NEW n \in 1 .. N, n - 1 \in S
      PROVE  n \in S
  <2>1. g[n - 1] = ToLower(f[n - 1]) /\ n \in 0 .. N /\ f[n - 1] \in Texts
    BY <1>1, <1>6, <1>9, RangeFacts
  <2>2. l[n] = Lower(t[n]) /\ t[n] \in Alphabet
    BY <1>1, <1>2
  <2>3. CASE t[n] \in chars
    <3>1. g[n] = g[n - 1] /\ f[n] = f[n - 1]
      BY <1>3, <1>6, <1>7, <2>2, <2>3
    <3> QED
      BY <2>1, <3>1
  <2>4. CASE t[n] \notin chars
    <3>1. f[n] = Append(f[n - 1], t[n])
      BY <1>6, <2>4
    <3>2. g[n] = Append(g[n - 1], Lower(t[n]))
      BY <1>3, <1>7, <2>2, <2>4
    <3>3. ToLower(Append(f[n - 1], t[n])) = Append(ToLower(f[n - 1]), Lower(t[n]))
      BY <2>1, <2>2, LowerAppend
    <3> QED
      BY <2>1, <3>1, <3>2, <3>3
  <2> QED
    BY <2>3, <2>4
<1> HIDE DEF S
<1>10. 0 .. N \subseteq S
  BY <1>1, <1>8, <1>9, Induction
<1>11. N \in 0 .. N
  BY <1>1, RangeFacts
<1>12. g[N] = ToLower(f[N]) /\ f[N] \in Texts
  BY <1>6, <1>10, <1>11 DEF S
<1> QED
  BY <1>2, <1>4, <1>5, <1>12 DEF N, chars, l

\* A text without the m zeros it begins with reads as the same number.
LEMMA SameValue ==
    ASSUME NEW s \in Texts, NEW t \in Texts,
           NEW m \in Nat, Len(t) = m + Len(s), \A i \in 1 .. m : t[i] = "0",
           \A i \in 1 .. Len(s) : Digit(s[i]) = Digit(t[m + i])
    PROVE  Value(s) = Value(t)
<1>f. PICK f : Reads(f, t) /\ Value(t) = f[Len(t)]
  BY ValueIsRead
<1>g. PICK g : Reads(g, s) /\ Value(s) = g[Len(s)]
  BY ValueIsRead
<1>1. Len(s) \in Nat
  BY TextFacts
<1>2. /\ f[0] = 0 /\ \A n \in 1 .. Len(t) : f[n] = 16 * f[n - 1] + Digit(t[n])
      /\ g[0] = 0 /\ \A n \in 1 .. Len(s) : g[n] = 16 * g[n - 1] + Digit(s[n])
  BY <1>f, <1>g DEF Reads
<1> DEFINE S == {n \in 0 .. m : f[n] = 0}
           R == {n \in 0 .. Len(s) : g[n] = f[m + n]}
<1>3. f[m] = 0
  <2>1. 0 \in S
    BY <1>2, RangeFacts
  <2>2. ASSUME NEW n \in 1 .. m, n - 1 \in S
        PROVE  n \in S
    <3>1. f[n - 1] = 0 /\ n \in 0 .. m /\ t[n] = "0"
      BY <2>2, RangeFacts
    <3>2. n \in 1 .. Len(t)
      BY <1>1, SMT, Z3
    <3>3. Digit(t[n]) = 0
      BY <3>1 DEF Digit, Digits
    <3>4. f[n] = 16 * 0 + 0
      BY <1>2, <3>1, <3>2, <3>3
    <3>5. f[n] = 0
      BY <3>4, SMT, Z3
    <3> QED
      BY <3>1, <3>5
  <2> HIDE DEF S
  <2>3. 0 .. m \subseteq S
    BY <2>1, <2>2, Induction
  <2>4. m \in S
    BY <2>3, RangeFacts
  <2> QED
    BY <2>4 DEF S
<1>4. 0 \in R
  <2>1. m + 0 = m
    BY SMT, Z3
  <2> QED
    BY <1>1, <1>2, <1>3, <2>1, RangeFacts
<1>5. ASSUME NEW n \in 1 .. Len(s), n - 1 \in R
      PROVE  n \in R
  <2>1. g[n - 1] = f[m + (n - 1)] /\ n \in 0 .. Len(s) /\ Digit(s[n]) = Digit(t[m + n])
    BY <1>1, <1>5, RangeFacts
  <2>2. m + n \in 1 .. Len(t) /\ m + (n - 1) = (m + n) - 1
    BY <1>1, SMT, Z3
  <2>3. g[n] = 16 * g[n - 1] + Digit(s[n])
    BY <1>2
  <2>4. f[m + n] = 16 * f[(m + n) - 1] + Digit(t[m + n])
    BY <1>2, <2>2
  <2> QED
    BY <2>1, <2>2, <2>3, <2>4
<1> HIDE DEF R
<1>6. 0 .. Len(s) \subseteq R
  BY <1>1, <1>4, <1>5, Induction
<1>7. Len(s) \in R
  BY <1>1, <1>6, RangeFacts
<1>8. g[Len(s)] = f[Len(t)]
  BY <1>7 DEF R
<1> QED
  BY <1>f, <1>g, <1>8

\* Lower case keeps the number.
LEMMA LowerValue ==
    ASSUME NEW t \in Texts
    PROVE  Value(ToLower(t)) = Value(t)
<1>1. /\ ToLower(t) \in Texts /\ Len(ToLower(t)) = Len(t)
      /\ \A i \in 1 .. Len(t) : ToLower(t)[i] = Lower(t[i])
  BY CaseText
<1>n. Len(t) \in Nat
  BY TextFacts
<1>2. 0 \in Nat /\ Len(t) = 0 + Len(t) /\ 1 .. 0 = {} /\ \A i \in 1 .. Len(t) : 0 + i = i
  BY <1>n, SMT, Z3
<1>3. \A c : Digit(Lower(c)) = Digit(c)
  BY DEF Digit, Digits, Lower
<1>4. \A i \in 1 .. Len(t) : Digit(ToLower(t)[i]) = Digit(t[0 + i])
  BY <1>1, <1>2, <1>3
<1>5. Len(t) = 0 + Len(ToLower(t)) /\ \A i \in 1 .. 0 : t[i] = "0"
  BY <1>1, <1>2
<1>6. \A i \in 1 .. Len(ToLower(t)) : Digit(ToLower(t)[i]) = Digit(t[0 + i])
  BY <1>1, <1>4
<1> HIDE DEF ToLower
<1> QED
  BY <1>1, <1>2, <1>5, <1>6, SameValue

\* What StripZeros leaves: nothing of a text of zeros, and otherwise a text
\* of the same value that does not begin with a zero.
LEMMA StripFacts ==
    ASSUME NEW t \in Texts
    PROVE  \/ StripZeros(t) = <<>> /\ Value(t) = 0
           \/ /\ StripZeros(t) \in Texts /\ StripZeros(t) # <<>> /\ StripZeros(t)[1] # "0"
              /\ Value(StripZeros(t)) = Value(t)
              /\ \A i \in 1 .. Len(StripZeros(t)) : \E k \in 1 .. Len(t) : StripZeros(t)[i] = t[k]
<1> DEFINE kept == {i \in 1 .. Len(t) : t[i] # "0"}
<1>n. Len(t) \in Nat
  BY TextFacts
<1>1. CASE kept = {}
  <2>1. StripZeros(t) = <<>>
    BY <1>1 DEF StripZeros
  <2> DEFINE e == <<>>
  <2>2. e \in Texts /\ Len(e) = 0
    BY EmptySeq DEF Texts
  <2> HIDE DEF e
  <2>3. 1 .. Len(e) = {} /\ Len(t) = Len(t) + Len(e)
    BY <1>n, <2>2, SMT, Z3
  <2>4. \A i \in 1 .. Len(t) : t[i] = "0"
    BY <1>1
  <2>5. Value(e) = Value(t)
    BY <1>n, <2>2, <2>3, <2>4, SameValue
  <2>6. Value(e) = 0
    <3>1. PICK f : Reads(f, e) /\ Value(e) = f[Len(e)]
      BY <2>2, ValueIsRead
    <3> QED
      BY <2>2, <3>1 DEF Reads
  <2> QED
    BY <2>1, <2>5, <2>6
<1>2. CASE kept # {}
  <2>1. 1 .. Len(t) \subseteq Nat
    BY <1>n, SMT, Z3
  <2> DEFINE d == Min(kept)
             s == SubSeq(t, d, Len(t))
             m == d - 1
  <2>2. d \in kept /\ \A y \in kept : d <= y
    BY <1>2, <2>1, LeastElement
  <2>3. StripZeros(t) = s
    BY <1>2 DEF StripZeros
  <2>4. d \in 1 .. Len(t) /\ t[d] # "0"
    BY <2>2
  <2>5. \A i \in 1 .. Len(t) : t[i] # "0" => d <= i
    BY <2>2
  <2> HIDE DEF d, kept
  <2>d. d \in 1 .. Len(t)
    BY <2>4
  <2>6. /\ d \in 1 .. Len(t) + 1 /\ Len(t) \in 0 .. Len(t) /\ d <= Len(t)
        /\ m \in Nat /\ \A i \in 1 .. m : i \in 1 .. Len(t) /\ ~(d <= i)
        /\ Len(t) = m + (Len(t) - d + 1) /\ 1 \in 1 .. Len(t) - d + 1 /\ d + 1 - 1 = d
        /\ Len(t) - d + 1 # 0
        /\ \A i \in 1 .. Len(t) - d + 1 : d + i - 1 = m + i /\ d + i - 1 \in 1 .. Len(t)
    BY <1>n, <2>d, SMT, Z3
  <2> HIDE DEF m
  <2>7. /\ s \in Texts /\ Len(s) = IF d <= Len(t) THEN Len(t) - d + 1 ELSE 0
        /\ \A i \in 1 .. Len(t) - d + 1 : s[i] = t[d + i - 1]
    BY <2>6, PartText
  <2> HIDE DEF s
  <2>8. Len(s) = Len(t) - d + 1
    BY <2>6, <2>7
  <2>9. s # <<>> /\ s[1] # "0"
    <3>1. s[1] = t[d + 1 - 1]
      BY <2>6, <2>7
    <3>2. s[1] = t[d]
      BY <2>6, <3>1
    <3> QED
      BY <2>4, <2>6, <2>7, <2>8, <3>2, TextFacts
  <2>10. \A i \in 1 .. Len(s) : s[i] = t[m + i] /\ \E k \in 1 .. Len(t) : s[i] = t[k]
    BY <2>6, <2>7, <2>8
  <2>11. \A i \in 1 .. m : t[i] = "0"
    BY <2>5, <2>6
  <2>12. Len(t) = m + Len(s) /\ \A i \in 1 .. Len(s) : Digit(s[i]) = Digit(t[m + i])
    BY <2>6, <2>8, <2>10
  <2>13. Value(s) = Value(t)
    BY <2>6, <2>7, <2>11, <2>12, SameValue
  <2> QED
    BY <2>3, <2>7, <2>9, <2>10, <2>13
<1> QED
  BY <1>1, <1>2

\* Lower case and dropping a leading "+" commute.
LEMMA PlusFacts ==
    ASSUME NEW t \in Texts
    PROVE  TrimPlus(t) \in Texts /\ TrimPlus(ToLower(t)) = ToLower(TrimPlus(t))
<1> DEFINE l == ToLower(t)
           n == Len(t)
           d == SubSeq(t, 2, n)
           e == SubSeq(l, 2, n)
<1>1. n \in Nat /\ (n = 0 <=> t = <<>>) /\ (n = 0 => TrimPlus(t) = t)
  <2>1. n \in Nat /\ (n = 0 <=> t = <<>>)
    BY TextFacts
  <2>2. n = 0 => ~HasPrefix(t, <<"+">>)
    BY SMT, Z3 DEF HasPrefix
  <2> QED
    BY <2>1, <2>2 DEF TrimPlus
<1>2. l \in Texts /\ Len(l) = n /\ \A i \in 1 .. n : l[i] = Lower(t[i])
  BY CaseText
<1> HIDE DEF l, n
<1>3. ASSUME NEW x \in Texts, Len(x) = n, n > 0
      PROVE  HasPrefix(x, <<"+">>) <=> x[1] = "+"
  <2>1. "+" \in Alphabet
    BY DEF Alphabet
  <2>2. <<"+">> \in Texts /\ Len(<<"+">>) = 1 /\ <<"+">>[1] = "+"
    BY <2>1, CharText
  <2>3. 1 \in 1 .. Len(x) + 1 /\ 1 \in 0 .. Len(x) /\ 1 <= Len(x) /\ 1 .. 1 = {1}
    BY <1>1, <1>3, SMT, Z3
  <2>4. SubSeq(x, 1, 1) \in Texts /\ Len(SubSeq(x, 1, 1)) = 1 /\ SubSeq(x, 1, 1)[1] = x[1]
    BY <2>3, PartText, SMT, Z3
  <2>5. x[1] = "+" => SubSeq(x, 1, 1) = <<"+">>
    BY <2>2, <2>3, <2>4, TextEqual
  <2> QED
    BY <2>2, <2>3, <2>4, <2>5 DEF HasPrefix
<1>4. CASE n = 0
  <2>1. l = t
    <3>1. \A i \in 1 .. Len(l) : l[i] = t[i]
      BY <1>2, <1>4, SMT, Z3
    <3> QED
      BY <1>2, <3>1, TextEqual DEF n
  <2> QED
    BY <1>1, <1>4, <2>1 DEF l
<1>5. CASE n > 0
  <2>1. /\ HasPrefix(t, <<"+">>) <=> t[1] = "+"
        /\ HasPrefix(l, <<"+">>) <=> l[1] = "+"
    BY <1>2, <1>3, <1>5 DEF n
  <2>2. l[1] = "+" <=> t[1] = "+"
    <3>1. 1 \in 1 .. n
      BY <1>1, <1>5, SMT, Z3
    <3> QED
      BY <1>2, <3>1 DEF Lower
  <2>3. 2 \in 1 .. n + 1 /\ n \in 0 .. n /\ n - 2 + 1 \in Nat
        /\ (IF 2 <= n THEN n - 2 + 1 ELSE 0) = n - 2 + 1
    BY <1>1, <1>5, SMT, Z3
  <2>4. /\ d \in Texts /\ Len(d) = n - 2 + 1
        /\ \A i \in 1 .. n - 2 + 1 : d[i] = t[2 + i - 1]
    BY <2>3, PartText DEF n
  <2>5. /\ e \in Texts /\ Len(e) = n - 2 + 1
        /\ \A i \in 1 .. n - 2 + 1 : e[i] = l[2 + i - 1]
    BY <1>2, <2>3, PartText
  <2> HIDE DEF d, e
  <2>6. /\ ToLower(d) \in Texts /\ Len(ToLower(d)) = Len(d)
        /\ \A i \in 1 .. Len(d) : ToLower(d)[i] = Lower(d[i])
    BY <2>4, CaseText
  <2>7. \A i \in 1 .. n - 2 + 1 : 2 + i - 1 \in 1 .. n
    BY <1>1, <1>5, SMT, Z3
  <2>8. e = ToLower(d)
    <3>1. \A i \in 1 .. Len(e) : e[i] = ToLower(d)[i]
      BY <1>2, <2>4, <2>5, <2>6, <2>7
    <3> QED
      BY <2>4, <2>5, <2>6, <3>1, TextEqual
  <2>9. CASE t[1] = "+"
    <3>1. TrimPlus(t) = d /\ TrimPlus(l) = e
      BY <1>2, <2>1, <2>2, <2>9 DEF TrimPlus, d, e, n
    <3> QED
      BY <2>4, <2>8, <3>1 DEF l
  <2>10. CASE t[1] # "+"
    <3>1. TrimPlus(t) = t /\ TrimPlus(l) = l
      BY <2>1, <2>2, <2>10 DEF TrimPlus
    <3> QED
      BY <3>1 DEF l
  <2> QED
    BY <2>9, <2>10
<1>6. n = 0 \/ n > 0
  BY <1>1, SMT, Z3
<1> QED
  BY <1>4, <1>5, <1>6

\* normalizeSerial writes the number of a serial of any length, however it
\* is typed, as Text(16) does: SerialIsItsNumber without a bound.
THEOREM SerialsAreNumbers == Spec => []SerialIsItsNumber
<1> DEFINE t == TrimSpace(text)
           typed == Without(t, {":"})
           digits == TrimPlus(typed)
           lower == Without(ToLower(t), {":"})
           l == TrimPlus(lower)
           s == normalizeSerial(text)
<1>1. ASSUME TypeOK, AllIn(digits, Hex), Value(digits) > 0
      PROVE  AllIn(s, Hex \ {"A"}) /\ s[1] # "0" /\ Value(s) = Value(digits)
  <2>1. text \in Texts
    BY <1>1 DEF TypeOK
  <2>2. t \in Texts
    BY <2>1, TrimmedText DEF TrimSpace
  <2>s. s = IF AllIn(l, Hex) /\ StripZeros(l) # <<>> THEN StripZeros(l) ELSE lower
    BY DEF normalizeSerial
  <2> HIDE DEF t, s
  <2>p. typed \in Texts /\ lower = ToLower(typed)
    BY <2>2, LowerWithout
  <2> HIDE DEF typed, lower
  <2>3. digits \in Texts /\ l = ToLower(digits)
    BY <2>p, PlusFacts
  <2> HIDE DEF digits, l
  <2>4. /\ l \in Texts /\ Len(l) = Len(digits)
        /\ \A i \in 1 .. Len(digits) : l[i] = Lower(digits[i])
    BY <2>3, CaseText
  <2>5. \A i \in 1 .. Len(digits) : digits[i] \in Hex
    BY <1>1, <2>3, CharsIn
  <2>6. \A c \in Hex : Lower(c) \in Hex \ {"A"}
    BY DEF Lower, Hex, Digits
  <2>7. \A i \in 1 .. Len(l) : l[i] \in Hex \ {"A"}
    BY <2>4, <2>5, <2>6
  <2>8. AllIn(l, Hex)
    <3>1. \A i \in 1 .. Len(l) : l[i] \in Hex
      BY <2>7
    <3> QED
      BY <2>4, <3>1, CharsIn
  <2>9. Value(l) = Value(digits)
    BY <2>3, LowerValue
  <2>10. Value(l) # 0
    <3>1. Value(l) > 0
      BY <1>1, <2>9
    <3> QED
      BY <3>1, SMT, Z3
  <2> DEFINE z == StripZeros(l)
  <2>11. /\ z \in Texts /\ z # <<>> /\ z[1] # "0" /\ Value(z) = Value(l)
         /\ \A i \in 1 .. Len(z) : \E k \in 1 .. Len(l) : z[i] = l[k]
    BY <2>4, <2>10, StripFacts
  <2>12. s = z
    BY <2>s, <2>8, <2>11
  <2> HIDE DEF z
  <2>13. \A i \in 1 .. Len(z) : z[i] \in Hex \ {"A"}
    BY <2>7, <2>11
  <2>14. AllIn(z, Hex \ {"A"})
    BY <2>11, <2>13, CharsIn
  <2> QED
    BY <2>9, <2>11, <2>12, <2>14
<1>2. TypeOK => SerialIsItsNumber
  BY <1>1 DEF SerialIsItsNumber
<1> QED
  BY <1>2, TypeCorrect, PTL

-----------------------------------------------------------------------------
(***************************************************************************)
(* Addresses.  A host is a name without colons or an IPv6 address, which   *)
(* has several.                                                            *)
(***************************************************************************)

HostChars == Letters \cup Digits \cup {"-", ".", ":"}

HostText(h) ==
    /\ h \in Texts /\ h # <<>>
    /\ \A i \in 1 .. Len(h) : h[i] \in HostChars
    /\ \A i \in 1 .. Len(h) : h[i] = ":" => \E k \in 1 .. Len(h) \ {i} : h[k] = ":"

PortText(p) == p \in Texts /\ \A i \in 1 .. Len(p) : p[i] \in Digits

\* The characters of a host.
LEMMA HostFacts ==
    ASSUME NEW h, HostText(h)
    PROVE  /\ h \in Texts /\ h # <<>> /\ Len(h) \in Nat /\ Len(h) # 0
           /\ 1 \in 1 .. Len(h) /\ Len(h) \in 1 .. Len(h)
           /\ \A i \in 1 .. Len(h) : h[i] \in HostChars /\ h[i] \notin {"[", "]", " "}
<1>1. h \in Texts /\ h # <<>> /\ \A i \in 1 .. Len(h) : h[i] \in HostChars
  BY DEF HostText
<1>2. Len(h) \in Nat /\ Len(h) # 0
  BY <1>1, TextFacts
<1>3. 1 \in 1 .. Len(h) /\ Len(h) \in 1 .. Len(h)
  BY <1>2, SMT, Z3
<1>4. \A c \in HostChars : c \notin {"[", "]", " "}
  BY DEF HostChars, Letters, Digits
<1> QED
  BY <1>1, <1>2, <1>3, <1>4

\* h in brackets, and x with the port p.
LEMMA BracketedText ==
    ASSUME NEW h \in Texts
    PROVE  /\ Bracketed(h) \in Texts /\ Len(Bracketed(h)) = Len(h) + 2
           /\ Bracketed(h)[1] = "[" /\ Bracketed(h)[Len(h) + 2] = "]"
           /\ \A i \in 1 .. Len(h) : Bracketed(h)[1 + i] = h[i]
<1>1. /\ Len(h) \in Nat /\ 1 \in 1 .. 1
      /\ <<"[">> \in Texts /\ Len(<<"[">>) = 1 /\ <<"[">>[1] = "["
      /\ <<"]">> \in Texts /\ Len(<<"]">>) = 1 /\ <<"]">>[1] = "]"
  <2>1. 1 \in 1 .. 1
    BY SMT, Z3
  <2>2. "[" \in Alphabet /\ "]" \in Alphabet
    BY DEF Alphabet
  <2> QED
    BY <2>1, <2>2, TextFacts, CharText
<1> DEFINE x == <<"[">> \o h
<1>2. /\ x \in Texts /\ Len(x) = 1 + Len(h) /\ x[1] = "["
      /\ \A i \in 1 .. Len(h) : x[1 + i] = h[i]
  <2> DEFINE y == <<"[">>
  <2>1. y \in Texts /\ Len(y) = 1 /\ y[1] = "[" /\ 1 \in 1 .. 1
    BY <1>1
  <2> HIDE DEF y
  <2>2. /\ y \o h \in Texts /\ Len(y \o h) = Len(y) + Len(h)
        /\ \A i \in 1 .. Len(y) : (y \o h)[i] = y[i]
        /\ \A i \in 1 .. Len(h) : (y \o h)[Len(y) + i] = h[i]
    BY <2>1, JoinedText
  <2>3. /\ y \o h \in Texts /\ Len(y \o h) = 1 + Len(h) /\ (y \o h)[1] = "["
        /\ \A i \in 1 .. Len(h) : (y \o h)[1 + i] = h[i]
    BY <2>1, <2>2
  <2> QED
    BY <2>3 DEF y
<1> HIDE DEF x
<1>3. /\ x \o <<"]">> \in Texts /\ Len(x \o <<"]">>) = (1 + Len(h)) + 1
      /\ \A i \in 1 .. 1 + Len(h) : (x \o <<"]">>)[i] = x[i]
      /\ (x \o <<"]">>)[(1 + Len(h)) + 1] = "]"
  <2> DEFINE y == <<"]">>
  <2>1. y \in Texts /\ Len(y) = 1 /\ y[1] = "]" /\ 1 \in 1 .. 1
    BY <1>1
  <2> HIDE DEF y
  <2>2. /\ x \o y \in Texts /\ Len(x \o y) = Len(x) + Len(y)
        /\ \A i \in 1 .. Len(x) : (x \o y)[i] = x[i]
        /\ \A i \in 1 .. Len(y) : (x \o y)[Len(x) + i] = y[i]
    BY <1>2, <2>1, JoinedText
  <2>3. /\ x \o y \in Texts /\ Len(x \o y) = (1 + Len(h)) + 1
        /\ \A i \in 1 .. 1 + Len(h) : (x \o y)[i] = x[i]
        /\ (x \o y)[(1 + Len(h)) + 1] = "]"
    BY <1>2, <2>1, <2>2
  <2> QED
    BY <2>3 DEF y
<1>n. Len(h) \in Nat
  BY <1>1
<1>4. /\ (1 + Len(h)) + 1 = Len(h) + 2 /\ 1 \in 1 .. 1 + Len(h)
      /\ \A i \in 1 .. Len(h) : 1 + i \in 1 .. 1 + Len(h)
  BY <1>n, SMT, Z3
<1> QED
  BY <1>2, <1>3, <1>4 DEF Bracketed, x

\* A text, a colon and a port.
LEMMA PortedText ==
    ASSUME NEW x \in Texts, NEW p \in Texts
    PROVE  /\ x \o <<":">> \o p \in Texts /\ Len(x \o <<":">> \o p) = Len(x) + 1 + Len(p)
           /\ \A i \in 1 .. Len(x) : (x \o <<":">> \o p)[i] = x[i]
           /\ (x \o <<":">> \o p)[Len(x) + 1] = ":"
           /\ \A i \in 1 .. Len(p) : (x \o <<":">> \o p)[Len(x) + 1 + i] = p[i]
<1>1. /\ Len(x) \in Nat /\ Len(p) \in Nat /\ 1 \in 1 .. 1
      /\ <<":">> \in Texts /\ Len(<<":">>) = 1 /\ <<":">>[1] = ":"
  <2>1. 1 \in 1 .. 1
    BY SMT, Z3
  <2>2. ":" \in Alphabet
    BY DEF Alphabet
  <2> QED
    BY <2>1, <2>2, TextFacts, CharText
<1> DEFINE y == x \o <<":">>
<1>2. /\ y \in Texts /\ Len(y) = Len(x) + 1 /\ y[Len(x) + 1] = ":"
      /\ \A i \in 1 .. Len(x) : y[i] = x[i]
  BY <1>1, JoinedText
<1> HIDE DEF y
<1>3. /\ y \o p \in Texts /\ Len(y \o p) = Len(y) + Len(p)
      /\ \A i \in 1 .. Len(y) : (y \o p)[i] = y[i]
      /\ \A i \in 1 .. Len(p) : (y \o p)[Len(y) + i] = p[i]
  BY <1>2, JoinedText
<1>n. Len(x) \in Nat
  BY <1>1
<1>4. Len(x) + 1 \in 1 .. Len(x) + 1 /\ \A i \in 1 .. Len(x) : i \in 1 .. Len(x) + 1
  BY <1>n, SMT, Z3
<1>5. /\ (y \o p)[Len(x) + 1] = ":"
      /\ \A i \in 1 .. Len(x) : (y \o p)[i] = x[i]
  BY <1>2, <1>3, <1>4
<1> QED
  BY <1>2, <1>3, <1>5 DEF y

\* The last colon.
LEMMA LastColonFacts ==
    ASSUME NEW a \in Texts
    PROVE  /\ LastColon(a) \in 0 .. Len(a)
           /\ LastColon(a) # 0 => a[LastColon(a)] = ":"
           /\ \A i \in 1 .. Len(a) : a[i] = ":" => i <= LastColon(a)
<1> DEFINE S == {0} \cup {i \in 1 .. Len(a) : a[i] = ":"}
<1>1. Len(a) \in Nat
  BY TextFacts
<1>2. 0 \in 0 .. Len(a) /\ 1 .. Len(a) \subseteq 0 .. Len(a)
  BY <1>1, SMT, Z3
<1>3. S \subseteq 0 .. Len(a) /\ S # {}
  BY <1>2
<1>4. Max(S) \in S /\ \A y \in S : Max(S) >= y
  BY <1>1, <1>3, GreatestElement
<1>5. LastColon(a) = Max(S)
  BY DEF LastColon
<1>6. LastColon(a) \in S /\ \A y \in S : LastColon(a) >= y
  BY <1>4, <1>5
<1>7. ASSUME NEW i \in 1 .. Len(a), a[i] = ":"
      PROVE  i <= LastColon(a)
  <2>1. LastColon(a) >= i /\ LastColon(a) \in 0 .. Len(a)
    BY <1>3, <1>6, <1>7
  <2> QED
    BY <1>1, <2>1, SMT, Z3
<1> QED
  BY <1>3, <1>6, <1>7

\* SplitHostPort on an address that does not begin with a bracket, and on one
\* that does and whose first closing bracket is at e.
LEMMA SplitPlain ==
    ASSUME NEW a \in Texts, a[1] # "["
    PROVE  SplitHostPort(a) =
              IF \/ LastColon(a) = 0
                 \/ ":" \in Range(SubSeq(a, 1, LastColon(a) - 1))
                 \/ {"[", "]"} \cap Range(SubSeq(a, 1, LastColon(a) - 1)
                                            \o SubSeq(a, LastColon(a) + 1, Len(a))) # {}
              THEN NoPort
              ELSE [ok |-> TRUE, host |-> SubSeq(a, 1, LastColon(a) - 1),
                    port |-> SubSeq(a, LastColon(a) + 1, Len(a))]
BY DEF SplitHostPort

\* SplitHostPort of an address that begins with a bracket.
LEMMA SplitBracketed ==
    ASSUME NEW a \in Texts, a[1] = "[", NEW e \in 1 .. Len(a), a[e] = "]",
           \A j \in 1 .. Len(a) : a[j] = "]" => e <= j
    PROVE  SplitHostPort(a) =
              IF \/ LastColon(a) = 0
                 \/ e + 1 # LastColon(a)
                 \/ {"[", "]"} \cap Range(SubSeq(a, 2, e - 1)
                                            \o SubSeq(a, LastColon(a) + 1, Len(a))) # {}
              THEN NoPort
              ELSE [ok |-> TRUE, host |-> SubSeq(a, 2, e - 1),
                    port |-> SubSeq(a, LastColon(a) + 1, Len(a))]
<1> DEFINE S == {j \in 1 .. Len(a) : a[j] = "]"}
<1>1. Len(a) \in Nat
  BY TextFacts
<1>2. 1 .. Len(a) \subseteq Nat
  BY <1>1, SMT, Z3
<1>3. S \subseteq Nat /\ e \in S
  BY <1>2
<1>4. Min(S) \in S /\ Min(S) <= e
  BY <1>3, LeastElement
<1>5. e <= Min(S) /\ Min(S) \in Nat /\ e \in Nat /\ Min(S) <= e
  BY <1>2, <1>3, <1>4
<1>6. Min(S) = e
  BY <1>5, SMT, Z3
<1>7. "]" \in Range(a)
  BY TextFacts
<1> QED
  BY <1>6, <1>7 DEF SplitHostPort

\* A host alone has no port.
LEMMA HostAlone ==
    ASSUME NEW h, HostText(h)
    PROVE  SplitHostPort(h) = NoPort
<1>1. h \in Texts /\ 1 \in 1 .. Len(h) /\ Len(h) \in Nat /\ h[1] # "["
  BY HostFacts
<1> DEFINE i == LastColon(h)
<1>2. CASE i = 0
  BY <1>1, <1>2, SplitPlain
<1>3. CASE i # 0
  <2>1. i \in 0 .. Len(h) /\ h[i] = ":" /\ \A k \in 1 .. Len(h) : h[k] = ":" => k <= i
    BY <1>1, <1>3, LastColonFacts
  <2> HIDE DEF i
  <2>n. Len(h) \in Nat /\ i \in 0 .. Len(h)
    BY <1>1, <2>1
  <2>2. i \in 1 .. Len(h)
    BY <2>n, <1>3, SMT, Z3
  <2>3. PICK k \in 1 .. Len(h) \ {i} : h[k] = ":"
    BY <2>1, <2>2 DEF HostText
  <2>4. k <= i
    BY <2>1, <2>3
  <2>m. k \in 1 .. Len(h) /\ k # i
    BY <2>3
  <2>5. /\ 1 \in 1 .. Len(h) + 1 /\ i - 1 \in 0 .. Len(h) /\ k \in 1 .. (i - 1) - 1 + 1
        /\ 1 <= i - 1 /\ (i - 1) - 1 + 1 = i - 1 /\ 1 + k - 1 = k
    BY <2>n, <2>2, <2>4, <2>m, SMT, Z3
  <2> DEFINE w == SubSeq(h, 1, i - 1)
  <2>6. w \in Texts /\ Len(w) = i - 1 /\ w[k] = ":"
    <3>1. /\ w \in Texts /\ Len(w) = IF 1 <= i - 1 THEN i - 1 - 1 + 1 ELSE 0
          /\ \A j \in 1 .. (i - 1) - 1 + 1 : w[j] = h[1 + j - 1]
      BY <1>1, <2>5, PartText
    <3> HIDE DEF w
    <3>2. w[k] = h[1 + k - 1]
      BY <3>1, <2>5
    <3>3. w[k] = h[k]
      BY <3>2, <2>5
    <3> QED
      BY <3>1, <3>3, <2>3, <2>5
  <2> HIDE DEF w
  <2>7. ":" \in Range(w)
    BY <2>5, <2>6, TextFacts
  <2> QED
    BY <1>1, <2>7, SplitPlain DEF w, i
<1> QED
  BY <1>2, <1>3

\* Nor has a host in brackets.
LEMMA BracketedHostAlone ==
    ASSUME NEW h, HostText(h)
    PROVE  SplitHostPort(Bracketed(h)) = NoPort
<1> DEFINE a == Bracketed(h)
<1>1. /\ h \in Texts /\ Len(h) \in Nat
      /\ \A i \in 1 .. Len(h) : h[i] \notin {"[", "]", " "}
  BY HostFacts
<1>2. /\ a \in Texts /\ Len(a) = Len(h) + 2 /\ a[1] = "[" /\ a[Len(h) + 2] = "]"
      /\ \A i \in 1 .. Len(h) : a[1 + i] = h[i]
  BY <1>1, BracketedText
<1>3. LastColon(a) \in 0 .. Len(a)
  BY <1>2, LastColonFacts
<1> HIDE DEF a
<1>n. Len(h) \in Nat /\ Len(a) = Len(h) + 2 /\ LastColon(a) \in 0 .. Len(a)
  BY <1>1, <1>2, <1>3
<1>4. Len(a) \in 1 .. Len(a) /\ Len(a) + 1 # LastColon(a)
  BY <1>n, SMT, Z3
<1>5. ASSUME NEW j \in 1 .. Len(a), a[j] = "]"
      PROVE  Len(a) <= j
  <2>1. j = 1 \/ (j - 1 \in 1 .. Len(h) /\ 1 + (j - 1) = j) \/ Len(a) <= j
    BY <1>n, SMT, Z3
  <2> QED
    BY <1>1, <1>2, <1>5, <2>1
<1>6. a[Len(a)] = "]"
  BY <1>2
<1> QED
  BY <1>2, <1>4, <1>5, <1>6, SplitBracketed DEF a

\* An address is split at the colon that precedes its port.
LEMMA PortedColon ==
    ASSUME NEW x \in Texts, NEW p, PortText(p), NEW a, a = x \o <<":">> \o p
    PROVE  /\ a \in Texts /\ LastColon(a) = Len(x) + 1
           /\ SubSeq(a, LastColon(a) + 1, Len(a)) = p
<1>1. p \in Texts /\ Len(x) \in Nat /\ Len(p) \in Nat /\ \A i \in 1 .. Len(p) : p[i] # ":"
  <2>1. \A c \in Digits : c # ":"
    BY DEF Digits
  <2> QED
    BY <2>1, TextFacts DEF PortText
<1>2. /\ a \in Texts /\ Len(a) = Len(x) + 1 + Len(p)
      /\ a[Len(x) + 1] = ":"
      /\ \A i \in 1 .. Len(p) : a[Len(x) + 1 + i] = p[i]
  BY <1>1, PortedText
<1>3. /\ LastColon(a) \in 0 .. Len(a)
      /\ LastColon(a) # 0 => a[LastColon(a)] = ":"
      /\ \A i \in 1 .. Len(a) : a[i] = ":" => i <= LastColon(a)
  BY <1>2, LastColonFacts
<1>n. /\ Len(x) \in Nat /\ Len(p) \in Nat /\ Len(a) = Len(x) + 1 + Len(p)
      /\ LastColon(a) \in 0 .. Len(a)
  BY <1>1, <1>2, <1>3
<1>4. Len(x) + 1 \in 1 .. Len(a)
  BY <1>n, SMT, Z3
<1>5. Len(x) + 1 <= LastColon(a)
  BY <1>2, <1>3, <1>4
<1>6. LastColon(a) = Len(x) + 1
  <2>1. SUFFICES ASSUME LastColon(a) # Len(x) + 1
                 PROVE  FALSE
    OBVIOUS
  <2> DEFINE k == LastColon(a) - (Len(x) + 1)
  <2>2. k \in 1 .. Len(p) /\ Len(x) + 1 + k = LastColon(a) /\ LastColon(a) # 0
    BY <1>n, <1>5, <2>1, SMT, Z3
  <2> HIDE DEF k
  <2> QED
    BY <1>1, <1>2, <1>3, <2>2
<1> DEFINE b == Len(x) + 2
           w == SubSeq(a, b, Len(a))
<1>7. /\ b \in 1 .. Len(a) + 1 /\ Len(a) \in 0 .. Len(a) /\ LastColon(a) + 1 = b
      /\ Len(a) - b + 1 = Len(p) /\ (b <= Len(a) <=> Len(p) # 0)
      /\ \A i \in 1 .. Len(p) : b + i - 1 = Len(x) + 1 + i
  BY <1>n, <1>6, SMT, Z3
<1> HIDE DEF b
<1>8. /\ w \in Texts /\ Len(w) = IF b <= Len(a) THEN Len(a) - b + 1 ELSE 0
      /\ \A i \in 1 .. Len(a) - b + 1 : w[i] = a[b + i - 1]
  BY <1>2, <1>7, PartText
<1> HIDE DEF w
<1>9. Len(w) = Len(p)
  BY <1>7, <1>8
<1>10. \A i \in 1 .. Len(p) : w[i] = a[b + i - 1]
  BY <1>7, <1>8
<1>11. \A i \in 1 .. Len(p) : w[i] = p[i]
  BY <1>2, <1>7, <1>10
<1>12. w = p
  BY <1>1, <1>8, <1>9, <1>11, TextEqual
<1> QED
  BY <1>2, <1>6, <1>7, <1>12 DEF w

\* The brackets and what is between them.
LEMMA InnerText ==
    ASSUME NEW a \in Texts, NEW h \in Texts, Len(h) # 0, NEW d \in {1, 2}, Len(h) + d - 1 <= Len(a),
           \A i \in 1 .. Len(h) : a[d + i - 1] = h[i]
    PROVE  SubSeq(a, d, Len(h) + d - 1) = h
<1>n. Len(h) \in Nat /\ Len(a) \in Nat
  BY TextFacts
<1> DEFINE e == Len(h) + d - 1
           w == SubSeq(a, d, e)
<1>1. /\ d \in 1 .. Len(a) + 1 /\ e \in 0 .. Len(a) /\ d <= e /\ e - d + 1 = Len(h)
  BY <1>n, SMT, Z3
<1> HIDE DEF e
<1>2. /\ w \in Texts /\ Len(w) = IF d <= e THEN e - d + 1 ELSE 0
      /\ \A i \in 1 .. e - d + 1 : w[i] = a[d + i - 1]
  BY <1>1, PartText
<1> HIDE DEF w
<1>3. Len(w) = Len(h) /\ \A i \in 1 .. Len(h) : w[i] = h[i]
  BY <1>1, <1>2
<1>4. w = h
  BY <1>2, <1>3, TextEqual
<1> QED
  BY <1>4 DEF w, e

\* No bracket is in a host or a port.
LEMMA NoBrackets ==
    ASSUME NEW h, HostText(h), NEW p, PortText(p)
    PROVE  {"[", "]"} \cap Range(h \o p) = {}
<1>1. /\ h \in Texts /\ Len(h) \in Nat
      /\ \A i \in 1 .. Len(h) : h[i] \notin {"[", "]"}
  BY HostFacts
<1>2. p \in Texts /\ Len(p) \in Nat /\ \A i \in 1 .. Len(p) : p[i] \notin {"[", "]"}
  <2>1. \A c \in Digits : c \notin {"[", "]"}
    BY DEF Digits
  <2> QED
    BY <2>1, TextFacts DEF PortText
<1> DEFINE y == h \o p
<1>3. /\ y \in Texts /\ Len(y) = Len(h) + Len(p)
      /\ \A i \in 1 .. Len(h) : y[i] = h[i]
      /\ \A i \in 1 .. Len(p) : y[Len(h) + i] = p[i]
  BY <1>1, <1>2, JoinedText
<1> HIDE DEF y
<1>n. Len(h) \in Nat /\ Len(p) \in Nat /\ Len(y) = Len(h) + Len(p)
  BY <1>1, <1>2, <1>3
<1>4. \A i \in 1 .. Len(y) : i \in 1 .. Len(h) \/ (i - Len(h) \in 1 .. Len(p) /\ Len(h) + (i - Len(h)) = i)
  BY <1>n, SMT, Z3
<1>5. \A i \in 1 .. Len(y) : y[i] \notin {"[", "]"}
  BY <1>1, <1>2, <1>3, <1>4
<1>6. \A c : c \in Range(y) <=> \E i \in 1 .. Len(y) : y[i] = c
  BY <1>3, TextFacts
<1>7. \A c \in Range(y) : c \notin {"[", "]"}
  <2> TAKE c \in Range(y)
  <2>1. PICK i \in 1 .. Len(y) : y[i] = c
    BY <1>6
  <2> QED
    BY <1>5, <2>1
<1> QED
  BY <1>7 DEF y

\* What JoinHostPort puts together SplitHostPort takes apart.
LEMMA JoinThenSplit ==
    ASSUME NEW h, HostText(h), NEW p, PortText(p)
    PROVE  /\ JoinHostPort(h, p) \in Texts
           /\ SplitHostPort(JoinHostPort(h, p)) = [ok |-> TRUE, host |-> h, port |-> p]
<1> DEFINE a == JoinHostPort(h, p)
<1>1. /\ h \in Texts /\ Len(h) \in Nat /\ Len(h) # 0 /\ 1 \in 1 .. Len(h)
      /\ \A i \in 1 .. Len(h) : h[i] \notin {"[", "]"}
  BY HostFacts
<1>2. p \in Texts
  BY DEF PortText
<1>n. Len(h) \in Nat /\ Len(p) \in Nat /\ Len(h) # 0
  BY <1>1, <1>2, TextFacts
<1>3. CASE ":" \notin Range(h)
  <2>1. a = h \o <<":">> \o p
    BY <1>3 DEF JoinHostPort
  <2> HIDE DEF a
  <2>2. a \in Texts /\ LastColon(a) = Len(h) + 1 /\ SubSeq(a, LastColon(a) + 1, Len(a)) = p
    BY <1>1, <2>1, PortedColon
  <2>3. Len(a) = Len(h) + 1 + Len(p) /\ \A i \in 1 .. Len(h) : a[i] = h[i]
    BY <1>1, <1>2, <2>1, PortedText
  <2>m. Len(a) = Len(h) + 1 + Len(p) /\ LastColon(a) = Len(h) + 1
    BY <2>2, <2>3
  <2>4. /\ LastColon(a) # 0 /\ LastColon(a) - 1 = Len(h) + 1 - 1
        /\ Len(h) + 1 - 1 <= Len(a) /\ \A i \in 1 .. Len(h) : 1 + i - 1 = i
    BY <1>n, <2>m, SMT, Z3
  <2>5. SubSeq(a, 1, Len(h) + 1 - 1) = h
    BY <1>1, <2>2, <2>3, <2>4, InnerText
  <2>6. SubSeq(a, 1, LastColon(a) - 1) = h /\ a[1] # "["
    BY <1>1, <2>3, <2>4, <2>5
  <2>7. {"[", "]"} \cap Range(h \o p) = {}
    BY NoBrackets
  <2>8. SplitHostPort(a) = [ok |-> TRUE, host |-> h, port |-> p]
    BY <1>3, <2>2, <2>4, <2>6, <2>7, SplitPlain
  <2> QED
    BY <2>2, <2>8 DEF a
<1>4. CASE ":" \in Range(h)
  <2> DEFINE x == Bracketed(h)
  <2>1. a = x \o <<":">> \o p
    BY <1>4 DEF JoinHostPort, Bracketed
  <2>2. /\ x \in Texts /\ Len(x) = Len(h) + 2
        /\ x[1] = "[" /\ x[Len(h) + 2] = "]" /\ \A i \in 1 .. Len(h) : x[1 + i] = h[i]
    BY <1>1, BracketedText
  <2> HIDE DEF a, x
  <2>3. a \in Texts /\ LastColon(a) = Len(x) + 1 /\ SubSeq(a, LastColon(a) + 1, Len(a)) = p
    BY <2>1, <2>2, PortedColon
  <2>4. Len(a) = Len(x) + 1 + Len(p) /\ \A i \in 1 .. Len(x) : a[i] = x[i]
    BY <1>2, <2>1, <2>2, PortedText
  <2> DEFINE e == Len(h) + 2
  <2>m. Len(a) = Len(x) + 1 + Len(p) /\ Len(x) = Len(h) + 2 /\ LastColon(a) = Len(x) + 1
    BY <2>2, <2>3, <2>4
  <2>5. /\ e \in 1 .. Len(a) /\ e \in 1 .. Len(x) /\ 1 \in 1 .. Len(x)
        /\ e + 1 = LastColon(a) /\ LastColon(a) # 0 /\ e - 1 = Len(h) + 2 - 1
        /\ Len(h) + 2 - 1 <= Len(a)
    BY <1>n, <2>m, SMT, Z3
  <2>6. \A i \in 1 .. Len(h) : 2 + i - 1 = 1 + i /\ 1 + i \in 1 .. Len(x)
    BY <1>n, <2>m, SMT, Z3
  <2>7. ASSUME NEW j \in 1 .. Len(a), a[j] = "]"
        PROVE  e <= j
    <3>1. e <= j \/ (j \in 1 .. Len(x) /\ (j = 1 \/ (j - 1 \in 1 .. Len(h) /\ 1 + (j - 1) = j)))
      BY <1>n, <2>m, SMT, Z3
    <3> HIDE DEF e
    <3>2. CASE j \in 1 .. Len(x) /\ j = 1
      BY <2>2, <2>4, <2>7, <3>2
    <3>3. CASE j \in 1 .. Len(x) /\ j - 1 \in 1 .. Len(h) /\ 1 + (j - 1) = j
      <4>1. a[j] = x[j] /\ x[j] = h[j - 1]
        BY <2>2, <2>4, <3>3
      <4> QED
        BY <1>1, <2>7, <3>3, <4>1
    <3> QED
      BY <3>1, <3>2, <3>3
  <2>8. SubSeq(a, 2, Len(h) + 2 - 1) = h
    <3>1. \A i \in 1 .. Len(h) : a[2 + i - 1] = h[i]
      BY <2>2, <2>4, <2>6
    <3> QED
      BY <1>1, <2>3, <2>5, <3>1, InnerText
  <2>9. a[1] = "[" /\ a[e] = "]" /\ SubSeq(a, 2, e - 1) = h
    BY <2>2, <2>4, <2>5, <2>8
  <2> HIDE DEF e
  <2>10. {"[", "]"} \cap Range(h \o p) = {}
    BY NoBrackets
  <2>11. SplitHostPort(a) = [ok |-> TRUE, host |-> h, port |-> p]
    BY <2>3, <2>5, <2>7, <2>9, <2>10, SplitBracketed
  <2> QED
    BY <2>3, <2>11 DEF a
<1> QED
  BY <1>3, <1>4

\* The host of the forms of an address.
LEMMA HostOfHost ==
    ASSUME NEW h, HostText(h)
    PROVE  host(h) = h
<1>1. /\ h \in Texts /\ \A i \in 1 .. Len(h) : h[i] \notin {"[", "]", " "}
  BY HostFacts
<1>2. \A i \in 1 .. Len(h) : h[i] \notin {" "} /\ h[i] \notin {"[", "]"}
  BY <1>1
<1>3. TrimSpace(h) = h /\ TrimBrackets(h) = h
  BY <1>1, <1>2, CleanText DEF TrimSpace, TrimBrackets
<1>4. SplitHostPort(h).ok = FALSE
  <2>1. SplitHostPort(h) = NoPort
    BY HostAlone
  <2>2. NoPort.ok = FALSE
    BY SMT, Z3 DEF NoPort
  <2> QED
    BY <2>1, <2>2
<1> QED
  BY <1>3, <1>4 DEF host

\* host drops the brackets around a host.
LEMMA HostOfBracketed ==
    ASSUME NEW h, HostText(h)
    PROVE  host(Bracketed(h)) = h /\ Bracketed(h) # <<>>
<1> DEFINE a == Bracketed(h)
<1>1. /\ h \in Texts /\ Len(h) \in Nat /\ Len(h) # 0 /\ 1 \in 1 .. Len(h) /\ Len(h) \in 1 .. Len(h)
      /\ \A i \in 1 .. Len(h) : h[i] \notin {"[", "]", " "}
  BY HostFacts
<1>2. /\ a \in Texts /\ Len(a) = Len(h) + 2 /\ a[1] = "[" /\ a[Len(h) + 2] = "]"
      /\ \A i \in 1 .. Len(h) : a[1 + i] = h[i]
  BY <1>1, BracketedText
<1>3. SplitHostPort(a).ok = FALSE
  <2>1. SplitHostPort(a) = NoPort
    BY BracketedHostAlone
  <2>2. NoPort.ok = FALSE
    BY SMT, Z3 DEF NoPort
  <2> QED
    BY <2>1, <2>2
<1> HIDE DEF a
<1>n. Len(h) \in Nat /\ Len(h) # 0 /\ Len(a) = Len(h) + 2
  BY <1>1, <1>2
<1>4. /\ \A i \in 1 .. Len(a) : i = 1 \/ i = Len(h) + 2 \/ (i - 1 \in 1 .. Len(h) /\ 1 + (i - 1) = i)
      /\ 2 \in 1 .. Len(a) /\ Len(h) + 1 \in 1 .. Len(a) /\ 2 = 1 + 1 /\ Len(h) + 1 = 1 + Len(h)
      /\ Len(h) + 1 = Len(h) + 2 - 1 /\ Len(h) + 2 - 1 <= Len(a) /\ Len(a) # 0
      /\ \A i \in 1 .. Len(h) : 2 + i - 1 = 1 + i
  BY <1>n, SMT, Z3
<1>5. ASSUME NEW i \in 1 .. Len(a)
      PROVE  a[i] \notin {" "}
  <2>1. CASE i = 1
    BY <1>2, <2>1
  <2>2. CASE i = Len(h) + 2
    BY <1>2, <2>2
  <2>3. CASE i - 1 \in 1 .. Len(h) /\ 1 + (i - 1) = i
    <3>1. a[i] = h[i - 1]
      BY <1>2, <2>3
    <3> QED
      BY <1>1, <2>3, <3>1
  <2> QED
    BY <1>4, <2>1, <2>2, <2>3
<1>6. TrimSpace(a) = a
  BY <1>2, <1>5, CleanText DEF TrimSpace
<1>7. Bounds(a, {"[", "]"}, 2, Len(h) + 1)
  <2>1. a[2] = h[1] /\ a[Len(h) + 1] = h[Len(h)]
    BY <1>1, <1>2, <1>4
  <2>2. a[2] \notin {"[", "]"} /\ a[Len(h) + 1] \notin {"[", "]"}
    BY <1>1, <2>1
  <2>3. ASSUME NEW i \in 1 .. Len(a), a[i] \notin {"[", "]"}
        PROVE  2 <= i /\ i <= Len(h) + 1
    <3>1. i # 1 /\ i # Len(h) + 2
      BY <1>2, <2>3
    <3> QED
      BY <1>n, <3>1, SMT, Z3
  <2> QED
    BY <1>4, <2>2, <2>3 DEF Bounds
<1>8. TrimBrackets(a) = SubSeq(a, 2, Len(h) + 1)
  <2> DEFINE chars == {"[", "]"}
  <2>1. a \in Texts /\ Bounds(a, chars, 2, Len(h) + 1)
    BY <1>2, <1>7
  <2> HIDE DEF chars
  <2>2. Trim(a, chars) = SubSeq(a, 2, Len(h) + 1)
    BY <2>1, TrimIs
  <2> QED
    BY <2>2 DEF TrimBrackets, chars
<1>9. \A i \in 1 .. Len(h) : a[2 + i - 1] = h[i]
  BY <1>2, <1>4
<1>10. SubSeq(a, 2, Len(h) + 2 - 1) = h
  BY <1>1, <1>2, <1>4, <1>9, InnerText
<1>11. TrimBrackets(a) = h
  BY <1>4, <1>8, <1>10
<1>12. a # <<>>
  BY <1>2, <1>4, TextFacts
<1> QED
  BY <1>3, <1>6, <1>11, <1>12 DEF host, a

\* host drops the port that JoinHostPort has added.
LEMMA HostOfJoined ==
    ASSUME NEW h, HostText(h), NEW p, PortText(p)
    PROVE  /\ host(JoinHostPort(h, p)) = h /\ JoinHostPort(h, p) # <<>>
           /\ SplitHostPort(JoinHostPort(h, p)).ok
<1> DEFINE a == JoinHostPort(h, p)
<1>1. /\ h \in Texts /\ \A i \in 1 .. Len(h) : h[i] \notin {"[", "]", " "}
  BY HostFacts
<1>2. p \in Texts /\ \A i \in 1 .. Len(p) : p[i] \notin {" "}
  <2>1. \A c \in Digits : c \notin {" "}
    BY DEF Digits
  <2> QED
    BY <2>1 DEF PortText
<1>3. a \in Texts /\ SplitHostPort(a) = [ok |-> TRUE, host |-> h, port |-> p]
  BY JoinThenSplit
<1>4. PICK x \in Texts : a = x \o <<":">> \o p /\ \A i \in 1 .. Len(x) : x[i] \notin {" "}
  <2>1. CASE ":" \notin Range(h)
    BY <1>1, <2>1 DEF JoinHostPort
  <2>2. CASE ":" \in Range(h)
    <3> DEFINE b == Bracketed(h)
    <3>1. a = b \o <<":">> \o p
      BY <2>2 DEF JoinHostPort, Bracketed
    <3>2. /\ b \in Texts /\ Len(b) = Len(h) + 2 /\ b[1] = "[" /\ b[Len(h) + 2] = "]"
          /\ \A i \in 1 .. Len(h) : b[1 + i] = h[i]
      BY <1>1, BracketedText
    <3> HIDE DEF a, b
    <3>n. Len(h) \in Nat /\ Len(b) = Len(h) + 2
      BY <1>1, <3>2, TextFacts
    <3>3. ASSUME NEW i \in 1 .. Len(b)
          PROVE  b[i] \notin {" "}
      <4>1. i = 1 \/ i = Len(h) + 2 \/ (i - 1 \in 1 .. Len(h) /\ 1 + (i - 1) = i)
        BY <3>n, SMT, Z3
      <4>2. CASE i = 1
        BY <3>2, <4>2
      <4>3. CASE i = Len(h) + 2
        BY <3>2, <4>3
      <4>4. CASE i - 1 \in 1 .. Len(h) /\ 1 + (i - 1) = i
        <5>1. b[i] = h[i - 1]
          BY <3>2, <4>4
        <5> QED
          BY <1>1, <4>4, <5>1
      <4> QED
        BY <4>1, <4>2, <4>3, <4>4
    <3> QED
      BY <3>1, <3>2, <3>3
  <2> QED
    BY <2>1, <2>2
<1> HIDE DEF a
<1>5. /\ Len(a) = Len(x) + 1 + Len(p) /\ a[Len(x) + 1] = ":"
      /\ \A i \in 1 .. Len(x) : a[i] = x[i]
      /\ \A i \in 1 .. Len(p) : a[Len(x) + 1 + i] = p[i]
  BY <1>2, <1>4, PortedText
<1>n. Len(x) \in Nat /\ Len(p) \in Nat /\ Len(a) = Len(x) + 1 + Len(p)
  BY <1>2, <1>5, TextFacts
<1>6. ASSUME NEW i \in 1 .. Len(a)
      PROVE  a[i] \notin {" "}
  <2>1. \/ i \in 1 .. Len(x)
        \/ i = Len(x) + 1
        \/ i - (Len(x) + 1) \in 1 .. Len(p) /\ Len(x) + 1 + (i - (Len(x) + 1)) = i
    BY <1>n, SMT, Z3
  <2>2. CASE i \in 1 .. Len(x)
    BY <1>4, <1>5, <2>2
  <2>3. CASE i = Len(x) + 1
    BY <1>5, <2>3
  <2>4. CASE i - (Len(x) + 1) \in 1 .. Len(p) /\ Len(x) + 1 + (i - (Len(x) + 1)) = i
    <3>1. a[i] = p[i - (Len(x) + 1)]
      BY <1>5, <2>4
    <3> QED
      BY <1>2, <2>4, <3>1
  <2> QED
    BY <2>1, <2>2, <2>3, <2>4
<1>7. TrimSpace(a) = a
  BY <1>3, <1>6, CleanText DEF TrimSpace
<1>8. Len(a) # 0
  BY <1>n, SMT, Z3
<1>9. a # <<>>
  BY <1>3, <1>8, TextFacts
<1>s. SplitHostPort(a) = [ok |-> TRUE, host |-> h, port |-> p]
  BY <1>3
<1>10. SplitHostPort(a).ok = TRUE /\ SplitHostPort(a).host = h
  BY <1>s, SMT, Z3
<1> QED
  BY <1>7, <1>9, <1>10 DEF host, a

\* A host and a port of a text are a host and a port.
LEMMA HostsArePartsOfTexts ==
    ASSUME TypeOK
    PROVE  (\A h \in Hosts : HostText(h)) /\ (\A p \in Ports : PortText(p))
<1>1. text \in Texts /\ Len(text) \in Nat
  BY TextFacts DEF TypeOK
<1>n. Len(text) \in Nat
  BY <1>1
<1>2. 1 .. Len(text) \subseteq 1 .. Len(text) + 1 /\ 1 .. Len(text) \subseteq 0 .. Len(text)
      /\ Len(text) \in 0 .. Len(text)
  BY <1>n, SMT, Z3
<1>3. \A i \in 1 .. Len(text), j \in 0 .. Len(text) : SubSeq(text, i, j) \in Texts
  BY <1>1, <1>2, PartText
<1>4. ASSUME NEW h \in Hosts
      PROVE  HostText(h)
  <2> DEFINE Parts == {SubSeq(text, i, j) : i \in 1 .. Len(text), j \in 1 .. Len(text)}
  <2>p. \A g \in Parts : \E i \in 1 .. Len(text), j \in 1 .. Len(text) : g = SubSeq(text, i, j)
    BY SMT, Z3
  <2>h. Hosts = {g \in Parts :
                    /\ g # <<>> /\ AllIn(g, HostChars)
                    /\ \A i \in 1 .. Len(g) : g[i] = ":" => \E k \in 1 .. Len(g) \ {i} : g[k] = ":"}
    BY SMT, Z3 DEF Hosts, HostChars
  <2> HIDE DEF Parts
  <2>1. h \in Texts
    <3>1. h \in Parts
      BY <2>h
    <3>2. PICK i \in 1 .. Len(text), j \in 1 .. Len(text) : h = SubSeq(text, i, j)
      BY <2>p, <3>1
    <3>3. j \in 0 .. Len(text)
      BY <1>2
    <3> QED
      BY <1>3, <3>2, <3>3
  <2>2. h # <<>> /\ AllIn(h, HostChars)
    BY <2>h
  <2>3. \A i \in 1 .. Len(h) : h[i] = ":" => \E k \in 1 .. Len(h) \ {i} : h[k] = ":"
    BY <2>h
  <2>4. \A i \in 1 .. Len(h) : h[i] \in HostChars
    BY <2>1, <2>2, CharsIn
  <2> QED
    BY <2>1, <2>2, <2>3, <2>4 DEF HostText
<1>5. ASSUME NEW p \in Ports
      PROVE  PortText(p)
  <2>1. p \in Texts
    BY <1>2, <1>3 DEF Ports
  <2>2. AllIn(p, Digits)
    BY DEF Ports
  <2> QED
    BY <2>1, <2>2, CharsIn DEF PortText
<1> QED
  BY <1>4, <1>5

\* A URL is built from an address without a port by adding one, and is the
\* address when that has one.
LEMMA URLOfHost ==
    ASSUME NEW h, HostText(h), NEW a \in {h, Bracketed(h)}
    PROVE  /\ host(a) = h /\ a # <<>>
           /\ SplitHostPort(a).ok = FALSE
<1>1. NoPort.ok = FALSE
  BY SMT, Z3 DEF NoPort
<1>2. CASE a = h
  <2>1. h # <<>>
    BY DEF HostText
  <2> QED
    BY <1>1, <1>2, <2>1, HostOfHost, HostAlone
<1>3. CASE a = Bracketed(h)
  BY <1>1, <1>3, HostOfBracketed, BracketedHostAlone
<1> QED
  BY <1>2, <1>3

\* Whatever the length of the address, the URLs name its host, its port or
\* 443, and 8443: URLNamesMaster for every configured address.
THEOREM URLsNameMaster == Spec => []URLNamesMaster
<1>1. ASSUME TypeOK, NEW h \in Hosts
      PROVE  /\ text \in {h, Bracketed(h)} =>
                  /\ masterURL(FALSE, text, <<>>) = JoinHostPort(h, <<"443">>)
                  /\ masterURL(TRUE, text, <<>>) = JoinHostPort(h, <<"8443">>)
                  /\ masterURL(TRUE, <<"a">>, text) = JoinHostPort(h, <<"8443">>)
             /\ \A p \in Ports : text = JoinHostPort(h, p) =>
                  /\ masterURL(FALSE, text, <<>>) = text
                  /\ masterURL(TRUE, text, <<>>) = JoinHostPort(h, <<"8443">>)
                  /\ masterURL(TRUE, <<"a">>, text) = text
  <2>1. HostText(h) /\ \A p \in Ports : PortText(p)
    BY <1>1, HostsArePartsOfTexts
  <2>2. host(h) = h /\ SplitHostPort(h).ok = FALSE
    BY <2>1, URLOfHost
  <2>3. host(text) = h => masterURL(TRUE, text, <<>>) = JoinHostPort(h, <<"8443">>)
    BY <2>2 DEF masterURL
  <2>4. ASSUME text \in {h, Bracketed(h)}
        PROVE  /\ masterURL(FALSE, text, <<>>) = JoinHostPort(h, <<"443">>)
               /\ masterURL(TRUE, text, <<>>) = JoinHostPort(h, <<"8443">>)
               /\ masterURL(TRUE, <<"a">>, text) = JoinHostPort(h, <<"8443">>)
    <3>1. host(text) = h /\ text # <<>> /\ SplitHostPort(text).ok = FALSE
      BY <2>1, <2>4, URLOfHost
    <3>2. masterURL(FALSE, text, <<>>) = JoinHostPort(h, <<"443">>)
      BY <3>1 DEF masterURL
    <3>3. masterURL(TRUE, <<"a">>, text) = JoinHostPort(h, <<"8443">>)
      BY <3>1 DEF masterURL
    <3> QED
      BY <2>3, <3>1, <3>2, <3>3
  <2>5. ASSUME NEW p \in Ports, text = JoinHostPort(h, p)
        PROVE  /\ masterURL(FALSE, text, <<>>) = text
               /\ masterURL(TRUE, text, <<>>) = JoinHostPort(h, <<"8443">>)
               /\ masterURL(TRUE, <<"a">>, text) = text
    <3>1. host(text) = h /\ text # <<>> /\ SplitHostPort(text).ok
      BY <2>1, <2>5, HostOfJoined
    <3>2. masterURL(FALSE, text, <<>>) = text /\ masterURL(TRUE, <<"a">>, text) = text
      BY <3>1 DEF masterURL
    <3> QED
      BY <2>3, <3>1, <3>2
  <2> QED
    BY <2>4, <2>5
<1>2. TypeOK => URLNamesMaster
  BY <1>1 DEF URLNamesMaster
<1> QED
  BY <1>2, TypeCorrect, PTL

=============================================================================
