--------------------------- MODULE ParsingProofs ---------------------------
(* Proofs about what the parsers make of a text, for any alphabet, any keys  *)
(* and texts of any length.                                                  *)
EXTENDS Parsing, SequenceTheorems, FiniteSetTheorems, WellFoundedInduction, TLAPS

(* Texts, and what is known of every state.                                  *)
Texts == Seq(Char \ {NUL})

(* Every set of natural numbers that is not empty has a least member.        *)
LEMMA LeastMember ==
    ASSUME NEW T \in SUBSET Nat, T # {}
    PROVE  \E i \in T : \A j \in T : i <= j
<1> DEFINE R == {ss \in Nat \X Nat : ss[1] < ss[2]}
<1>1. IsWellFoundedOn(R, Nat)
    BY NatLessThanWellFounded DEF OpToRel
<1>2. PICK i \in T : \A j \in T : ~(<<j, i>> \in R)
    <2> HIDE DEF R
    <2> QED BY <1>1, WFMin
<1>3. \A j \in T : ~(j < i)
    BY <1>2
<1> QED BY <1>3

LEMMA MinIs ==
    ASSUME NEW T \in SUBSET Int, NEW i \in T, \A j \in T : i <= j
    PROVE  Min(T) = i
<1>1. Min(T) \in T /\ \A j \in T : Min(T) <= j
    BY DEF Min
<1>2. Min(T) <= i /\ i <= Min(T) /\ Min(T) \in Int /\ i \in Int
    BY <1>1
<1> QED BY <1>2

LEMMA MinProperties ==
    ASSUME NEW T \in SUBSET Nat, T # {}
    PROVE  Min(T) \in T /\ \A j \in T : Min(T) <= j
BY LeastMember DEF Min

LEMMA MinOfTwo ==
    ASSUME NEW a \in Int, NEW b \in Int
    PROVE  Min({a, b}) = IF a <= b THEN a ELSE b
<1>1. CASE a <= b
    BY <1>1, MinIs
<1>2. CASE ~(a <= b)
    BY <1>2, MinIs
<1> QED BY <1>1, <1>2

LEMMA InductionOnNat ==
    ASSUME NEW T, 0 \in T, \A n \in Nat : n \in T => n + 1 \in T
    PROVE  Nat \subseteq T
<1> SUFFICES ASSUME Nat \ T # {} PROVE FALSE
    OBVIOUS
<1>1. PICK n \in Nat \ T : \A m \in Nat \ T : n <= m
    BY LeastMember
<1>2. n # 0 /\ n - 1 \in Nat /\ n - 1 \in T
    BY <1>1
<1> QED BY <1>1, <1>2

-----------------------------------------------------------------------------
(* Searches: FindIf stops at the first character of the set, or at the end.  *)
StopsAt(s, from, C, p) ==
    /\ p \in from..End(s)
    /\ \A i \in from..(p - 1) : s[i] \notin C
    /\ p # End(s) => s[p] \in C

LEMMA FindIfStops ==
    ASSUME NEW S, NEW s \in Seq(S), NEW from \in 1..End(s), NEW C
    PROVE  StopsAt(s, from, C, FindIf(s, from, C))
<1> DEFINE I == {i \in from..Len(s) : s[i] \in C}
<1>1. Len(s) \in Nat /\ I \in SUBSET Nat /\ End(s) = Len(s) + 1
    BY LenProperties DEF End
<1>2. SelectInSubSeq(s, from, Len(s), LAMBDA c : c \in C) = IF I # {} THEN Min(I) ELSE 0
    BY DEF SelectInSubSeq
<1>3. CASE I = {}
    <2>1. FindIf(s, from, C) = End(s)
        BY <1>2, <1>3 DEF FindIf
    <2> QED BY <1>1, <1>3, <2>1 DEF StopsAt
<1>4. CASE I # {}
    <2>1. Min(I) \in I /\ \A j \in I : Min(I) <= j
        BY <1>1, <1>4, MinProperties
    <2>2. FindIf(s, from, C) = Min(I)
        BY <1>1, <1>2, <1>4, <2>1 DEF FindIf
    <2>3. ASSUME NEW i \in from..(Min(I) - 1) PROVE s[i] \notin C
        BY <1>1, <2>1
    <2> QED BY <1>1, <2>1, <2>2, <2>3 DEF StopsAt
<1> QED BY <1>3, <1>4

LEMMA StopsOnce ==
    ASSUME NEW S, NEW s \in Seq(S), NEW from \in 1..End(s), NEW C,
           NEW p, StopsAt(s, from, C, p), NEW q, StopsAt(s, from, C, q)
    PROVE  p = q
<1>1. Len(s) \in Nat /\ End(s) = Len(s) + 1
    BY LenProperties DEF End
<1>2. p \in from..End(s) /\ q \in from..End(s)
    BY DEF StopsAt
<1>3. ~(p < q)
    BY <1>1, <1>2 DEF StopsAt
<1>4. ~(q < p)
    BY <1>1, <1>2 DEF StopsAt
<1> QED BY <1>1, <1>2, <1>3, <1>4

LEMMA FindIfIs ==
    ASSUME NEW S, NEW s \in Seq(S), NEW from \in 1..End(s), NEW C,
           NEW p, StopsAt(s, from, C, p)
    PROVE  FindIf(s, from, C) = p
BY FindIfStops, StopsOnce

(* A search from the end on finds the end.                                   *)
LEMMA FindIfAtEnd ==
    ASSUME NEW S, NEW s \in Seq(S), NEW C
    PROVE  FindIf(s, End(s), C) = End(s)
<1>1. Len(s) \in Nat
    BY LenProperties
<1>2. End(s) \in 1..End(s) /\ StopsAt(s, End(s), C, End(s))
    BY <1>1 DEF StopsAt, End
<1> QED BY <1>2, FindIfIs

(* AfterDashes is the position after the first two dashes in a row, or the   *)
(* end.                                                                      *)
DashesAt(s, i) == i \in 1..(Len(s) - 1) /\ s[i] = dash /\ s[i+1] = dash

LEMMA AfterDashesIs ==
    ASSUME NEW S, NEW s \in Seq(S), NEW i, DashesAt(s, i),
           \A j \in 1..(i - 1) : ~DashesAt(s, j)
    PROVE  AfterDashes(s) = i + 2
<1> DEFINE I == {j \in 1..(Len(s) - 1) : s[j] = dash /\ s[j+1] = dash}
<1>1. Len(s) \in Nat /\ I \in SUBSET Int /\ i \in I
    BY LenProperties DEF DashesAt
<1>2. ASSUME NEW j \in I PROVE i <= j
    <2>1. DashesAt(s, j) /\ j \in 1..(Len(s) - 1)
        BY DEF DashesAt
    <2> QED BY <1>1, <2>1
<1>3. Min(I) = i
    BY <1>1, <1>2, MinIs
<1>4. AfterDashes(s) = IF I = {} THEN End(s) ELSE Min(I) + 2
    BY DEF AfterDashes
<1> QED BY <1>1, <1>3, <1>4

LEMMA AfterNoDashes ==
    ASSUME NEW s, \A i \in 1..(Len(s) - 1) : ~DashesAt(s, i)
    PROVE  AfterDashes(s) = End(s)
<1>1. {i \in 1..(Len(s) - 1) : s[i] = dash /\ s[i+1] = dash} = {}
    BY DEF DashesAt
<1> QED BY <1>1 DEF AfterDashes

(* The first of the positions that have dashes, if any has.                  *)
LEMMA FirstDashes ==
    ASSUME NEW S, NEW s \in Seq(S)
    PROVE  \/ \A i \in 1..(Len(s) - 1) : ~DashesAt(s, i)
           \/ \E i \in 1..(Len(s) - 1) : /\ DashesAt(s, i)
                                         /\ \A j \in 1..(i - 1) : ~DashesAt(s, j)
<1> DEFINE I == {j \in 1..(Len(s) - 1) : DashesAt(s, j)}
<1> SUFFICES ASSUME I # {}
             PROVE  \E i \in 1..(Len(s) - 1) : /\ DashesAt(s, i)
                                               /\ \A j \in 1..(i - 1) : ~DashesAt(s, j)
    OBVIOUS
<1>1. Len(s) \in Nat /\ I \in SUBSET Nat
    BY LenProperties
<1>2. PICK i \in I : \A j \in I : i <= j
    BY <1>1, LeastMember
<1>3. ASSUME NEW j \in 1..(i - 1) PROVE ~DashesAt(s, j)
    BY <1>1, <1>2
<1> QED BY <1>2, <1>3

-----------------------------------------------------------------------------
(* Texts and the literals made of them.                                      *)

LEMMA TextProperties ==
    ASSUME NEW t \in Texts
    PROVE  /\ t \in Seq(Char) /\ Len(t) \in Nat /\ DOMAIN t = 1..Len(t)
           /\ End(t) = Len(t) + 1
           /\ \A i \in 1..Len(t) : t[i] \in Char /\ t[i] # NUL
<1>1. t \in Seq(Char) /\ Len(t) \in Nat /\ DOMAIN t = 1..Len(t)
    BY SeqMonotonic, LenProperties DEF Texts
<1>2. \A i \in 1..Len(t) : t[i] \in Char /\ t[i] # NUL
    BY ElementOfSeq DEF Texts
<1> QED BY <1>1, <1>2 DEF End

LEMMA LiteralProperties ==
    ASSUME NEW t \in Texts
    PROVE  /\ literal(t) \in Seq(Char)
           /\ Len(literal(t)) = Len(t) + 1
           /\ End(literal(t)) = Len(t) + 2
           /\ \A i \in 1..Len(t) : literal(t)[i] = t[i]
           /\ literal(t)[Len(t) + 1] = NUL
<1>1. NUL \in Char /\ t \in Seq(Char) /\ Len(t) \in Nat
    BY TextProperties DEF NUL, Char
<1>2. /\ Append(t, NUL) \in Seq(Char)
      /\ Len(Append(t, NUL)) = Len(t) + 1
      /\ \A i \in 1..Len(t) : Append(t, NUL)[i] = t[i]
      /\ Append(t, NUL)[Len(t) + 1] = NUL
    BY <1>1, AppendProperties
<1> QED BY <1>1, <1>2 DEF literal, End

(* A literal has its dashes where the text has them.                         *)
LEMMA LiteralDashes ==
    ASSUME NEW t \in Texts, NEW i \in Nat
    PROVE  DashesAt(literal(t), i) <=> DashesAt(t, i)
<1> SUFFICES ASSUME NEW c, c = literal(t)
             PROVE  DashesAt(c, i) <=> DashesAt(t, i)
    OBVIOUS
<1>1. /\ Len(t) \in Nat /\ Len(c) = Len(t) + 1 /\ c[Len(t) + 1] = NUL
      /\ \A j \in 1..Len(t) : c[j] = t[j]
    BY TextProperties, LiteralProperties
<1>2. NUL # dash
    BY DEF NUL, dash
<1>3. CASE i \in 1..(Len(t) - 1)
    <2>1. i \in 1..Len(t) /\ i + 1 \in 1..Len(t) /\ i \in 1..(Len(c) - 1)
        BY <1>1, <1>3
    <2>2. c[i] = t[i] /\ c[i+1] = t[i+1]
        BY <1>1, <2>1
    <2> QED BY <1>3, <2>1, <2>2 DEF DashesAt
<1>4. CASE i \notin 1..(Len(t) - 1)
    <2>1. CASE i \in 1..(Len(c) - 1)
        <3>1. i + 1 = Len(t) + 1
            BY <1>1, <1>4, <2>1
        <3>2. c[i+1] = NUL
            BY <1>1, <3>1
        <3> QED BY <1>2, <1>4, <3>2 DEF DashesAt
    <2>2. CASE i \notin 1..(Len(c) - 1)
        BY <1>4, <2>2 DEF DashesAt
    <2> QED BY <2>1, <2>2
<1> QED BY <1>3, <1>4

LEMMA LiteralAfterDashes ==
    ASSUME NEW t \in Texts
    PROVE  \/ /\ AfterDashes(t) = End(t)
              /\ AfterDashes(literal(t)) = End(literal(t))
           \/ /\ AfterDashes(t) \in 3..End(t)
              /\ AfterDashes(literal(t)) = AfterDashes(t)
<1>1. /\ t \in Seq(Char) /\ literal(t) \in Seq(Char) /\ Len(t) \in Nat
      /\ Len(literal(t)) = Len(t) + 1 /\ End(t) = Len(t) + 1
    BY TextProperties, LiteralProperties
<1>2. CASE \A i \in 1..(Len(t) - 1) : ~DashesAt(t, i)
    <2>1. \A i \in 1..(Len(literal(t)) - 1) : ~DashesAt(literal(t), i)
        <3> SUFFICES ASSUME NEW i \in 1..(Len(literal(t)) - 1), DashesAt(literal(t), i)
                     PROVE  FALSE
            OBVIOUS
        <3>1. DashesAt(t, i)
            BY <1>1, LiteralDashes
        <3> QED BY <1>2, <3>1 DEF DashesAt
    <2> QED BY <1>2, <2>1, AfterNoDashes
<1>3. CASE \E i \in 1..(Len(t) - 1) : DashesAt(t, i) /\ \A j \in 1..(i - 1) : ~DashesAt(t, j)
    <2>1. PICK i \in 1..(Len(t) - 1) : DashesAt(t, i) /\ \A j \in 1..(i - 1) : ~DashesAt(t, j)
        BY <1>3
    <2>2. AfterDashes(t) = i + 2
        BY <1>1, <2>1, AfterDashesIs
    <2>3. DashesAt(literal(t), i) /\ \A j \in 1..(i - 1) : ~DashesAt(literal(t), j)
        BY <1>1, <2>1, LiteralDashes
    <2>4. AfterDashes(literal(t)) = i + 2
        BY <1>1, <2>3, AfterDashesIs
    <2> QED BY <1>1, <2>1, <2>2, <2>4
<1> QED BY <1>1, <1>2, <1>3, FirstDashes

-----------------------------------------------------------------------------
(* Two parsers of one notation.                                              *)

(* The two sets of characters that a long key stops at.                      *)
LEMMA StopsDiffer ==
    ASSUME NEW c \in Char
    PROVE  /\ c \in Stops /\ isalnum(c) => c > 90 /\ ~is_word(c)
           /\ c \notin Stops /\ ~isalnum(c) => upper(c) /\ c # 90
BY DEF Char, Stops, isalnum, isalpha, is_word, lower, upper, digit, dash, colon

IsView(v, S, s, from, to) ==
    /\ v \in Seq(S)
    /\ Len(v) = to - from
    /\ \A i \in 1..(to - from) : v[i] = s[from + i - 1]

LEMMA ViewIs ==
    ASSUME NEW S, NEW s \in Seq(S), NEW from \in 1..End(s), NEW to \in from..End(s)
    PROVE  IsView(View(s, from, to), S, s, from, to)
<1>1. Len(s) \in Nat /\ End(s) = Len(s) + 1
    BY LenProperties DEF End
<1>2. \A i \in from..(to - 1) : s[i] \in S
    BY <1>1, ElementOfSeq
<1>3. /\ SubSeq(s, from, to - 1) \in Seq(S)
      /\ Len(SubSeq(s, from, to - 1)) = IF from <= to - 1 THEN (to - 1) - from + 1 ELSE 0
      /\ \A i \in 1..((to - 1) - from + 1) : SubSeq(s, from, to - 1)[i] = s[from + i - 1]
    BY <1>1, <1>2, SubSeqProperties
<1> QED BY <1>1, <1>3 DEF View, IsView

LEMMA LongKeys ==
    ASSUME text \in Texts
    PROVE  LongKeysAgree
<1> DEFINE a  == AfterDashes(text)
           b  == AfterDashes(literal(text))
           N  == {c \in Char : ~isalnum(c)}
           p  == FindIf(text, a, Stops)
           q  == FindIf(literal(text), b, N)
           k  == View(text, a, p)
           l  == View(literal(text), b, q)
<1>1. basic(text).key = k
    BY DEF basic, locate_key, locate_end
<1>2. argument(text).long_option = l
    BY DEF argument, fecth_long_option
<1>3. /\ text \in Seq(Char) /\ Len(text) \in Nat /\ End(text) = Len(text) + 1
      /\ \A i \in 1..Len(text) : text[i] \in Char /\ text[i] # NUL
      /\ literal(text) \in Seq(Char) /\ Len(literal(text)) = Len(text) + 1
      /\ End(literal(text)) = Len(text) + 2
      /\ \A i \in 1..Len(text) : literal(text)[i] = text[i]
      /\ literal(text)[Len(text) + 1] = NUL
    BY TextProperties, LiteralProperties
<1>4. CASE a = End(text) /\ b = End(literal(text))
    <2>1. p = End(text) /\ q = End(literal(text))
        BY <1>3, <1>4, FindIfAtEnd
    <2> HIDE DEF a, b, N, p, q
    <2>2. k = <<>>
        BY <1>3, <1>4, <2>1, SubSeqEmpty DEF View
    <2>3. l = <<>>
        BY <1>3, <1>4, <2>1, SubSeqEmpty DEF View
    <2> QED BY <1>1, <1>2, <2>2, <2>3 DEF LongKeysAgree
<1>5. CASE a \in 3..End(text) /\ b = a
    <2>1. StopsAt(text, a, Stops, p)
        BY <1>3, <1>5, FindIfStops
    <2>2. StopsAt(literal(text), a, N, q)
        BY <1>3, <1>5, FindIfStops
    <2>3. NUL \in N
        BY DEF NUL, Char, isalnum, isalpha, lower, digit
    <2>0. l = View(literal(text), a, q)
        BY <1>5
    <2> HIDE DEF a, b, N, p, q
    <2>4. p \in a..(Len(text) + 1) /\ q \in a..(Len(text) + 1)
        BY <1>3, <1>5, <2>1, <2>2, <2>3 DEF StopsAt
    <2>5. /\ k \in Seq(Char) /\ Len(k) = p - a
          /\ \A i \in 1..(p - a) : k[i] = text[a + i - 1]
        <3>1. a \in 1..End(text) /\ p \in a..End(text)
            BY <1>3, <1>5, <2>4
        <3>2. IsView(k, Char, text, a, p)
            BY <1>3, <3>1, ViewIs
        <3> QED BY <3>2 DEF IsView
    <2>6. /\ l \in Seq(Char) /\ Len(l) = q - a
          /\ \A i \in 1..(q - a) : l[i] = literal(text)[a + i - 1]
        <3>1. a \in 1..End(literal(text)) /\ q \in a..End(literal(text))
            BY <1>3, <1>5, <2>4
        <3>2. IsView(l, Char, literal(text), a, q)
            BY <1>3, <2>0, <3>1, ViewIs
        <3> HIDE DEF l
        <3> QED BY <3>2 DEF IsView
    <2> HIDE DEF k, l
    <2>7. CASE p = q
        <3>1. ASSUME NEW i \in 1..Len(k) PROVE k[i] = l[i]
            <4>1. i \in 1..(p - a) /\ i \in 1..(q - a) /\ a + i - 1 \in 1..Len(text)
                BY <1>3, <1>5, <2>4, <2>5, <2>7
            <4> QED BY <1>3, <2>5, <2>6, <4>1
        <3>2. k = l
            BY <2>5, <2>6, <2>7, <3>1, SeqEqual
        <3> QED BY <1>1, <1>2, <3>2 DEF LongKeysAgree
    <2> DEFINE c == text[a + Min({Len(k), Len(l)})]
    <2>8. ASSUME (upper(c) /\ c # 90) \/ (c > 90 /\ ~is_word(c))
          PROVE  LongKeysAgree
        BY <1>1, <1>2, <2>8 DEF LongKeysAgree, a
    <2> HIDE DEF c
    <2>9. Len(k) \in Int /\ Len(l) \in Int
        BY <1>3, <1>5, <2>4, <2>5, <2>6
    <2>10. CASE p < q
        <3>1. p \in 1..Len(text)
            BY <1>3, <1>5, <2>4, <2>10
        <3>2. Min({Len(k), Len(l)}) = p - a
            <4>1. Len(k) <= Len(l)
                BY <1>3, <1>5, <2>4, <2>5, <2>6, <2>10
            <4> QED BY <2>5, <2>6, <2>9, <4>1, MinOfTwo
        <3>3. c = text[p]
            BY <1>3, <1>5, <2>4, <3>2 DEF c
        <3>4. c \in Char /\ c \in Stops
            BY <1>3, <2>1, <3>1, <3>3 DEF StopsAt
        <3>5. isalnum(c)
            BY <1>3, <2>2, <2>4, <2>10, <3>1, <3>3, <3>4 DEF StopsAt, N
        <3>6. c > 90 /\ ~is_word(c)
            BY <3>4, <3>5, StopsDiffer
        <3> QED BY <2>8, <3>6
    <2>11. CASE q < p
        <3>1. q \in 1..Len(text)
            BY <1>3, <1>5, <2>4, <2>11
        <3>2. Min({Len(k), Len(l)}) = q - a
            <4>1. ~(Len(k) <= Len(l))
                BY <1>3, <1>5, <2>4, <2>5, <2>6, <2>11
            <4> QED BY <2>5, <2>6, <2>9, <4>1, MinOfTwo
        <3>3. c = text[q]
            BY <1>3, <1>5, <2>4, <3>2 DEF c
        <3>4. c \in Char /\ c \notin Stops
            BY <1>3, <2>1, <2>4, <2>11, <3>1, <3>3 DEF StopsAt
        <3>5. ~isalnum(c)
            BY <1>3, <2>2, <3>1, <3>3 DEF StopsAt, N
        <3>6. upper(c) /\ c # 90
            BY <3>4, <3>5, StopsDiffer
        <3> QED BY <2>8, <3>6
    <2>12. p \in Int /\ q \in Int
        BY <1>3, <1>5, <2>4
    <2> QED BY <2>7, <2>10, <2>11, <2>12
<1> QED BY <1>4, <1>5, LiteralAfterDashes

LEMMA LiteralSize ==
    ASSUME NEW t \in Texts
    PROVE  size(literal(t)) = Len(t)
<1>1. Len(literal(t)) = Len(t) + 1 /\ Len(t) \in Nat /\ Last(literal(t)) = NUL
    BY TextProperties, LiteralProperties DEF Last
<1> QED BY <1>1 DEF size

(* The first dash of a literal is that of its text.                          *)
LEMMA FirstDash ==
    ASSUME NEW t \in Texts, NEW i, i = Find(t, 1, dash)
    PROVE  /\ StopsAt(t, 1, {dash}, i)
           /\ Find(literal(t), 1, dash) = IF i <= Len(t) THEN i ELSE End(literal(t))
<1>1. /\ t \in Seq(Char) /\ Len(t) \in Nat /\ End(t) = Len(t) + 1
      /\ literal(t) \in Seq(Char) /\ End(literal(t)) = Len(t) + 2
      /\ \A j \in 1..Len(t) : literal(t)[j] = t[j]
      /\ literal(t)[Len(t) + 1] = NUL
    BY TextProperties, LiteralProperties
<1>2. StopsAt(t, 1, {dash}, i)
    BY <1>1, FindIfStops DEF Find
<1>3. StopsAt(literal(t), 1, {dash}, IF i <= Len(t) THEN i ELSE End(literal(t)))
    <2>1. CASE i <= Len(t)
        BY <1>1, <1>2, <2>1 DEF StopsAt
    <2>2. CASE ~(i <= Len(t))
        <3>1. i = Len(t) + 1
            BY <1>1, <1>2, <2>2 DEF StopsAt
        <3>2. ASSUME NEW j \in 1..(Len(t) + 1) PROVE literal(t)[j] # dash
            <4>1. CASE j \in 1..Len(t)
                BY <1>1, <1>2, <3>1, <4>1 DEF StopsAt
            <4>2. CASE j = Len(t) + 1
                BY <1>1, <4>2 DEF NUL, dash
            <4> QED BY <1>1, <4>1, <4>2
        <3> QED BY <1>1, <2>2, <3>2 DEF StopsAt
    <2> QED BY <2>1, <2>2
<1>4. 1 \in 1..End(literal(t))
    BY <1>1
<1> QED BY <1>1, <1>2, <1>3, <1>4, FindIfIs DEF Find

(* The short option is the character after the first dash.                   *)
LEMMA ShortOptionIs ==
    ASSUME NEW t \in Texts, NEW i, i = Find(t, 1, dash)
    PROVE  fetch_short_option(literal(t)) = IF i < Len(t) THEN t[i+1] ELSE NUL
<1> SUFFICES ASSUME NEW c, c = literal(t)
             PROVE  fetch_short_option(c) = IF i < Len(t) THEN t[i+1] ELSE NUL
    OBVIOUS
<1>1. /\ t \in Seq(Char) /\ Len(t) \in Nat /\ End(t) = Len(t) + 1
      /\ c \in Seq(Char) /\ End(c) = Len(t) + 2 /\ Len(c) = Len(t) + 1
      /\ \A j \in 1..Len(t) : c[j] = t[j]
      /\ c[Len(t) + 1] = NUL /\ size(c) = Len(t)
    BY TextProperties, LiteralProperties, LiteralSize
<1>2. StopsAt(t, 1, {dash}, i) /\ Find(c, 1, dash) = IF i <= Len(t) THEN i ELSE End(c)
    BY FirstDash
<1>3. i \in 1..(Len(t) + 1)
    BY <1>1, <1>2 DEF StopsAt
<1>4. NUL # dash /\ ~isalnum(NUL)
    BY DEF NUL, dash, isalnum, isalpha, lower, digit
<1>5. CASE front(c) = dash /\ isalnum(at(c, 1))
    <2>1. c[1] = dash
        BY <1>1, <1>5 DEF front
    <2>2. ~(1 >= size(c)) /\ at(c, 1) = c[2]
        BY <1>4, <1>5 DEF at
    <2>3. 2 <= Len(t)
        BY <1>1, <2>2
    <2>4. i = 1
        BY <1>1, <1>2, <1>3, <2>1, <2>3 DEF StopsAt
    <2>5. fetch_short_option(c) = c[2]
        BY <1>5, <2>2 DEF fetch_short_option
    <2> QED BY <1>1, <2>3, <2>4, <2>5
<1>6. CASE ~(front(c) = dash /\ isalnum(at(c, 1)))
    <2>1. fetch_short_option(c) =
            IF Find(c, 1, dash) + 1 > Len(c) THEN NUL ELSE c[Find(c, 1, dash) + 1]
        BY <1>6 DEF fetch_short_option
    <2>2. CASE i <= Len(t)
        <3>1. fetch_short_option(c) = c[i+1]
            BY <1>1, <1>2, <1>3, <2>1, <2>2
        <3>2. CASE i < Len(t)
            BY <1>1, <1>3, <3>1, <3>2
        <3>3. CASE i = Len(t)
            BY <1>1, <3>1, <3>3
        <3> QED BY <1>1, <1>3, <2>2, <3>2, <3>3
    <2>3. CASE ~(i <= Len(t))
        BY <1>1, <1>2, <1>3, <2>1, <2>3
    <2> QED BY <2>2, <2>3
<1> QED BY <1>5, <1>6

LEMMA ShortKeys ==
    ASSUME text \in Texts
    PROVE  ShortKeysAgree
<1> DEFINE i == Find(text, 1, dash)
           I == {j \in 1..(Len(text) - 1) : text[j] = dash /\ text[j+1] # dash}
<1> SUFFICES ASSUME ~(i < Len(text) /\ text[i+1] = dash)
             PROVE  basic(text).shortkey = argument(text).short_option
    BY DEF ShortKeysAgree
<1>1. /\ text \in Seq(Char) /\ Len(text) \in Nat /\ End(text) = Len(text) + 1
      /\ StopsAt(text, 1, {dash}, i)
    BY TextProperties, FirstDash
<1>2. argument(text).short_option = IF i < Len(text) THEN text[i+1] ELSE NUL
    BY ShortOptionIs DEF argument
<1>3. basic(text).shortkey = IF I = {} THEN NUL ELSE text[Min(I) + 1]
    BY DEF basic, locate_shortkey, no_short_key
<1> SUFFICES (IF I = {} THEN NUL ELSE text[Min(I) + 1]) = IF i < Len(text) THEN text[i+1] ELSE NUL
    BY <1>2, <1>3
<1> HIDE DEF i
<1>4. i \in 1..(Len(text) + 1)
    BY <1>1 DEF StopsAt
<1>5. \A j \in I : i <= j
    BY <1>1, <1>4 DEF StopsAt
<1>6. CASE i < Len(text)
    <2>1. text[i] = dash
        BY <1>1, <1>4, <1>6 DEF StopsAt
    <2>2. i \in I
        BY <1>1, <1>4, <1>6, <2>1
    <2>3. I \in SUBSET Int
        BY <1>1
    <2> HIDE DEF I
    <2>4. Min(I) = i
        BY <1>5, <2>2, <2>3, MinIs
    <2> QED BY <1>6, <2>2, <2>4
<1>7. CASE ~(i < Len(text))
    <2>1. I = {}
        BY <1>1, <1>4, <1>5, <1>7
    <2> QED BY <1>7, <2>1
<1> QED BY <1>6, <1>7

-----------------------------------------------------------------------------
(* The steps: a text only ever grows by characters of the alphabet.          *)
ParsingTypeOK == text \in Seq(Alphabet) /\ Len(text) <= LENGTH

LEMMA ParsingInit == Init => ParsingTypeOK
BY ParsingAssumption, EmptySeq DEF Init, ParsingTypeOK

LEMMA ParsingNext == ParsingTypeOK /\ [Next]_text => ParsingTypeOK'
<1> SUFFICES ASSUME ParsingTypeOK, [Next]_text PROVE ParsingTypeOK'
    OBVIOUS
<1>1. CASE Next
    <2>1. PICK c \in Alphabet : text' = Append(text, c) /\ Len(text) < LENGTH
        BY <1>1 DEF Next
    <2>2. text' \in Seq(Alphabet) /\ Len(text') = Len(text) + 1 /\ Len(text) \in Nat
        BY <2>1, AppendProperties, LenProperties DEF ParsingTypeOK
    <2> QED BY <2>1, <2>2, ParsingAssumption DEF ParsingTypeOK
<1>2. CASE text' = text
    BY <1>2 DEF ParsingTypeOK
<1> QED BY <1>1, <1>2

LEMMA TextIsText == ParsingTypeOK => text \in Texts
BY ParsingAssumption, SeqMonotonic DEF ParsingTypeOK, Texts

(* KeysAgree: options and arguments find the same keys in a definition, but  *)
(* for the characters and the dashes that KeysAgree names.                   *)
THEOREM ParsersAgree == Spec => []KeysAgree
<1>1. ParsingTypeOK => KeysAgree
    BY TextIsText, LongKeys, ShortKeys DEF KeysAgree
<1> QED BY <1>1, ParsingInit, ParsingNext, PTL DEF Spec

-----------------------------------------------------------------------------
(* Slices of literals.                                                       *)

LEMMA SliceOfText ==
    ASSUME NEW t \in Texts, NEW m \in Nat \ {0}, NEW n \in Int, n <= Len(t)
    PROVE  /\ SubSeq(t, m, n) \in Texts
           /\ Len(SubSeq(t, m, n)) = IF m <= n THEN n - m + 1 ELSE 0
           /\ \A i \in 1..(n - m + 1) : SubSeq(t, m, n)[i] = t[m + i - 1]
<1>1. \A i \in m..n : t[i] \in Char \ {NUL}
    BY TextProperties
<1> QED BY <1>1, SubSeqProperties DEF Texts

LEMMA SliceOfLiteral ==
    ASSUME NEW t \in Texts, NEW m \in Nat \ {0}, NEW n \in Int, n <= Len(t)
    PROVE  SubSeq(literal(t), m, n) = SubSeq(t, m, n)
<1> DEFINE a == SubSeq(literal(t), m, n)
           b == SubSeq(t, m, n)
<1>1. /\ Len(t) \in Nat /\ \A i \in 1..Len(t) : literal(t)[i] = t[i] /\ t[i] \in Char \ {NUL}
    BY TextProperties, LiteralProperties
<1>2. /\ b \in Texts /\ Len(b) = IF m <= n THEN n - m + 1 ELSE 0
      /\ \A i \in 1..(n - m + 1) : b[i] = t[m + i - 1]
    BY SliceOfText
<1>3. \A i \in m..n : literal(t)[i] \in Char \ {NUL}
    BY <1>1
<1>4. /\ a \in Texts /\ Len(a) = IF m <= n THEN n - m + 1 ELSE 0
      /\ \A i \in 1..(n - m + 1) : a[i] = literal(t)[m + i - 1]
    BY <1>3, SubSeqProperties DEF Texts
<1> HIDE DEF a, b
<1>5. ASSUME NEW i \in 1..Len(a) PROVE a[i] = b[i]
    <2>1. i \in 1..(n - m + 1) /\ m + i - 1 \in 1..Len(t)
        BY <1>1, <1>4
    <2> QED BY <1>1, <1>2, <1>4, <2>1
<1>6. a = b
    BY <1>2, <1>4, <1>5, SeqEqual DEF Texts
<1> QED BY <1>6 DEF a, b

LEMMA ViewOfLiteral ==
    ASSUME NEW t \in Texts
    PROVE  view(literal(t)) = t
<1>1. Len(t) \in Nat /\ view(literal(t)) = SubSeq(literal(t), 1, Len(t))
    BY TextProperties, LiteralSize DEF view
<1>2. SubSeq(literal(t), 1, Len(t)) = SubSeq(t, 1, Len(t))
    BY <1>1, SliceOfLiteral
<1> QED BY <1>1, <1>2, SubSeqFull DEF Texts

LEMMA SubstrOfLiteral ==
    ASSUME NEW t \in Texts, NEW start \in Nat, NEW len \in Nat
    PROVE  substr(literal(t), start, len) = SubSeq(t, start + 1, Min({Len(t), start + len}))
<1>1. Len(t) \in Nat /\ size(literal(t)) = Len(t)
    BY TextProperties, LiteralSize
<1>2. Min({Len(t), start + len}) = IF Len(t) <= start + len THEN Len(t) ELSE start + len
    BY <1>1, MinOfTwo
<1>3. CASE start >= Len(t)
    <2>1. SubSeq(t, start + 1, Min({Len(t), start + len})) = <<>>
        BY <1>1, <1>2, <1>3, SubSeqEmpty
    <2> QED BY <1>1, <1>3, <2>1 DEF substr
<1>4. CASE ~(start >= Len(t))
    <2>1. Min({Len(t) - start, len}) = IF Len(t) - start <= len THEN Len(t) - start ELSE len
        BY <1>1, MinOfTwo
    <2>2. start + Min({Len(t) - start, len}) = Min({Len(t), start + len})
        BY <1>1, <1>2, <2>1
    <2>3. substr(literal(t), start, len) = SubSeq(literal(t), start + 1, Min({Len(t), start + len}))
        <3>1. substr(literal(t), start, len) =
                SubSeq(literal(t), start + 1, start + Min({size(literal(t)) - start, len}))
            BY <1>1, <1>4 DEF substr
        <3>2. size(literal(t)) - start = Len(t) - start
            BY <1>1
        <3>3. start + Min({size(literal(t)) - start, len}) = Min({Len(t), start + len})
            BY <2>2, <3>2
        <3> QED BY <3>1, <3>3
    <2>4. Min({Len(t), start + len}) \in Int /\ Min({Len(t), start + len}) <= Len(t)
        BY <1>1, <1>2
    <2>5. SubSeq(literal(t), start + 1, Min({Len(t), start + len}))
            = SubSeq(t, start + 1, Min({Len(t), start + len}))
        <3> SUFFICES ASSUME NEW n \in Int, n <= Len(t)
                     PROVE  SubSeq(literal(t), start + 1, n) = SubSeq(t, start + 1, n)
            BY <2>4
        <3> QED BY SliceOfLiteral
    <2> QED BY <2>3, <2>5
<1> QED BY <1>3, <1>4

(* A text that is not empty is its own view, and is no literal.              *)
LEMMA ArrayWithoutNul ==
    ASSUME NEW t \in Texts, t # <<>>, NEW u \in Texts
    PROVE  view(t) = t /\ ~Equal(literal(u), t)
<1>1. Len(t) \in Nat \ {0} /\ t[Len(t)] # NUL
    <2>1. Len(t) \in Nat \ {0}
        BY EmptySeq DEF Texts
    <2> QED BY <2>1, TextProperties
<1>2. size(t) = Len(t)
    BY <1>1 DEF size, Last
<1>3. view(t) = t
    BY <1>2, SubSeqFull DEF view, Texts
<1>4. literal(u)[Len(literal(u))] = NUL
    BY LiteralProperties
<1> QED BY <1>1, <1>3, <1>4 DEF Equal

LEMMA LastOfLiteral ==
    ASSUME NEW t \in Texts, t # <<>>
    PROVE  front(literal(t)) = Head(t) /\ last(literal(t)) = Last(t)
<1> SUFFICES ASSUME NEW c, c = literal(t)
             PROVE  front(c) = Head(t) /\ last(c) = Last(t)
    OBVIOUS
<1> DEFINE I == {i \in 1..Len(c) : c[i] # NUL}
<1>1. /\ t \in Seq(Char) /\ Len(t) \in Nat \ {0}
      /\ c \in Seq(Char) /\ Len(c) = Len(t) + 1
      /\ \A i \in 1..Len(t) : c[i] = t[i] /\ t[i] # NUL
      /\ c[Len(t) + 1] = NUL
    BY TextProperties, LiteralProperties, EmptySeq
<1>2. front(c) = Head(t)
    BY <1>1 DEF front
<1>3. Len(t) \in I /\ \A i \in I : Len(t) >= i
    BY <1>1
<1>4. I \in SUBSET Int
    BY <1>1
<1>5. SelectLastInSeq(c, LAMBDA x : x # NUL) = IF I # {} THEN Max(I) ELSE 0
    BY DEF SelectLastInSeq
<1> HIDE DEF I
<1>6. Max(I) \in I /\ \A i \in I : Max(I) >= i
    BY <1>3 DEF Max
<1>7. Max(I) = Len(t)
    <2>1. Max(I) >= Len(t) /\ Len(t) >= Max(I) /\ Max(I) \in Int /\ Len(t) \in Int
        BY <1>3, <1>4, <1>6
    <2> QED BY <2>1
<1>8. last(c) = c[Len(t)]
    BY <1>3, <1>5, <1>7 DEF last
<1> QED BY <1>1, <1>2, <1>8 DEF Last

LEMMA Slicing ==
    ASSUME text \in Texts, LENGTH \in Nat
    PROVE  SlicesOfText
<1> DEFINE content == literal(text)
<1>1. Len(text) \in Nat /\ size(content) = Len(text)
    BY TextProperties, LiteralSize
<1>2. /\ Len(content) = Len(text) + 1 /\ content[Len(text) + 1] = NUL
      /\ \A i \in 1..Len(text) : content[i] = text[i]
    BY LiteralProperties
<1>3. view(content) = text
    BY ViewOfLiteral
<1>4. ASSUME NEW start \in 0..(LENGTH + 2), NEW len \in 0..(LENGTH + 2)
      PROVE  substr(content, start, len) = SubSeq(text, start + 1, Min({Len(text), start + len}))
    BY SubstrOfLiteral
<1>5. ASSUME NEW pos \in 0..(LENGTH + 2)
      PROVE  at(content, pos) = IF pos < Len(text) THEN text[pos + 1] ELSE NUL
    <2>1. pos + 1 \in 1..Len(text) <=> pos < Len(text)
        BY <1>1
    <2> HIDE DEF content
    <2> QED BY <1>1, <1>2, <2>1 DEF at
<1>6. back(content) = NUL
    BY <1>1, <1>2 DEF back, Last
<1>7. text # <<>> => front(content) = Head(text) /\ last(content) = Last(text)
    BY LastOfLiteral
<1>8. ASSUME NEW t \in Slices(text)
      PROVE  /\ Equal(content, literal(t)) <=> t = text
             /\ t # <<>> => view(t) = t /\ ~Equal(content, t)
    <2>1. PICK i \in 1..Len(text), j \in 1..Len(text) : t = SubSeq(text, i, j)
        BY DEF Slices
    <2>2. t \in Texts
        BY <1>1, <2>1, SliceOfText
    <2>3. t \in Seq(Char) /\ text \in Seq(Char) /\ NUL \in Char
        BY <2>2, TextProperties DEF NUL, Char
    <2>4. Append(text, NUL) = Append(t, NUL) <=> text = t /\ NUL = NUL
        BY <2>3, AppendInjective
    <2> QED BY <2>2, <2>4, ArrayWithoutNul DEF Equal, literal
<1> HIDE DEF content
<1>9. content = literal(text)
    BY DEF content
<1> QED BY <1>3, <1>4, <1>5, <1>6, <1>7, <1>8, <1>9 DEF SlicesOfText

-----------------------------------------------------------------------------
(* Options made of a definition with both keys.                              *)

LEMMA ConcatIs ==
    ASSUME NEW S, NEW s \in Seq(S), NEW t \in Seq(S)
    PROVE  /\ Len(s) \in Nat /\ Len(t) \in Nat
           /\ s \o t \in Seq(S) /\ Len(s \o t) = Len(s) + Len(t)
           /\ \A i \in 1..Len(s) : (s \o t)[i] = s[i]
           /\ \A i \in 1..Len(t) : (s \o t)[Len(s) + i] = t[i]
<1>1. Len(s) \in Nat /\ Len(t) \in Nat
    BY LenProperties
<1>2. /\ s \o t \in Seq(S) /\ Len(s \o t) = Len(s) + Len(t)
      /\ \A i \in 1..Len(s) + Len(t) : (s \o t)[i] = IF i <= Len(s) THEN s[i] ELSE t[i - Len(s)]
    BY ConcatProperties
<1>3. \A i \in 1..Len(s) : (s \o t)[i] = s[i]
    BY <1>1, <1>2
<1>4. ASSUME NEW i \in 1..Len(t) PROVE (s \o t)[Len(s) + i] = t[i]
    <2>1. /\ Len(s) + i \in 1..Len(s) + Len(t) /\ ~(Len(s) + i <= Len(s))
          /\ (Len(s) + i) - Len(s) = i
        BY <1>1
    <2> QED BY <1>2, <2>1
<1> QED BY <1>1, <1>2, <1>3, <1>4

(* What ParsingAssumption says of the keys a definition names, and what the  *)
(* long key that is read out of it is besides.                               *)
ShortKey(s) == s \in Char /\ s # dash
LongKey(l)  == l \in Seq(Char) /\ \A i \in 1..Len(l) : is_word(l[i])
PlainKey(l) == LongKey(l) /\ \A i \in 1..Len(l) : l[i] # dash

LEMMA KeysOfConstants ==
    /\ \A s \in Shorts : ShortKey(s)
    /\ \A l \in Longs : LongKey(l)
<1>1. ASSUME NEW l \in Longs PROVE LongKey(l)
    <2>1. l \in Seq(Char) /\ DOMAIN l = 1..Len(l)
        BY ParsingAssumption, LenProperties
    <2> QED BY <2>1, ParsingAssumption DEF LongKey
<1> QED BY <1>1, ParsingAssumption DEF ShortKey

LEMMA WordsDoNotStop ==
    ASSUME NEW c, is_word(c), c # dash
    PROVE  c \in Char /\ c \notin Stops /\ c # equals /\ c # colon
BY DEF is_word, lower, upper, digit, Char, Stops, dash, colon, equals

LEMMA PlainKeyProperties ==
    ASSUME NEW l, PlainKey(l)
    PROVE  /\ l \in Seq(Char) /\ Len(l) \in Nat
           /\ \A i \in 1..Len(l) : l[i] # dash /\ l[i] # equals /\ l[i] \notin Stops
<1>1. l \in Seq(Char) /\ Len(l) \in Nat
    BY LenProperties DEF PlainKey, LongKey
<1> QED BY <1>1, WordsDoNotStop DEF PlainKey, LongKey

(* The key up to its first '-'.                                              *)
LEMMA CutIs ==
    ASSUME NEW l, LongKey(l)
    PROVE  /\ StopsAt(l, 1, {dash}, Find(l, 1, dash))
           /\ Find(l, 1, dash) \in 1..(Len(l) + 1)
           /\ IsView(Cut(l), Char, l, 1, Find(l, 1, dash))
<1>1. l \in Seq(Char) /\ Len(l) \in Nat /\ End(l) = Len(l) + 1
    BY LenProperties DEF LongKey, End
<1>2. 1 \in 1..End(l)
    BY <1>1
<1>3. StopsAt(l, 1, {dash}, Find(l, 1, dash))
    BY <1>1, <1>2, FindIfStops DEF Find
<1>4. Find(l, 1, dash) \in 1..End(l)
    BY <1>3 DEF StopsAt
<1>5. IsView(Cut(l), Char, l, 1, Find(l, 1, dash))
    BY <1>1, <1>2, <1>4, ViewIs DEF Cut
<1> QED BY <1>1, <1>3, <1>4, <1>5

LEMMA CutIsPlain == ASSUME NEW l, LongKey(l) PROVE PlainKey(Cut(l))
<1> DEFINE p == Find(l, 1, dash)
           k == Cut(l)
<1>1. /\ p \in 1..(Len(l) + 1) /\ Len(l) \in Nat
      /\ StopsAt(l, 1, {dash}, p) /\ IsView(k, Char, l, 1, p)
    BY CutIs, LenProperties DEF LongKey
<1> HIDE DEF p, k
<1>2. k \in Seq(Char) /\ Len(k) = p - 1
    BY <1>1 DEF IsView
<1>3. ASSUME NEW i \in 1..Len(k) PROVE is_word(k[i]) /\ k[i] # dash
    <2>1. i \in 1..(p - 1) /\ 1 + i - 1 = i /\ i \in 1..Len(l)
        BY <1>1, <1>2
    <2>2. k[i] = l[i]
        BY <1>1, <2>1 DEF IsView
    <2>3. l[i] # dash
        BY <1>1, <2>1 DEF StopsAt
    <2>4. is_word(l[i])
        BY <2>1 DEF LongKey
    <2> QED BY <2>2, <2>3, <2>4
<1> QED BY <1>2, <1>3 DEF PlainKey, LongKey, k

(* A definition that has a long key behind its first "--" and stops there.   *)
LEMMA KeyIsCut ==
    ASSUME NEW l, LongKey(l), NEW d \in Seq(Char), NEW n \in Nat,
           AfterDashes(d) = n + 1, Len(d) >= Len(l) + n + 1,
           \A i \in 1..Len(l) : d[i + n] = l[i], d[Len(l) + n + 1] \in Stops
    PROVE  locate_key(d) = Cut(l)
<1> DEFINE p == Find(l, 1, dash)
           c == Cut(l)
<1>1. /\ Len(l) \in Nat /\ p \in 1..(Len(l) + 1)
      /\ StopsAt(l, 1, {dash}, p) /\ IsView(c, Char, l, 1, p)
    BY CutIs, LenProperties DEF LongKey
<1> HIDE DEF p, c
<1>2. Len(d) \in Nat /\ End(d) = Len(d) + 1
    BY LenProperties DEF End
<1>3. ASSUME NEW i \in (n + 1)..((n + p) - 1) PROVE d[i] \notin Stops
    <2>1. i - n \in 1..(p - 1) /\ i - n \in 1..Len(l) /\ (i - n) + n = i
        BY <1>1
    <2>2. d[i] = l[i - n]
        BY <2>1
    <2>3. l[i - n] # dash /\ is_word(l[i - n])
        BY <1>1, <2>1 DEF StopsAt, LongKey
    <2> QED BY <2>2, <2>3, WordsDoNotStop
<1>4. d[n + p] \in Stops
    <2>1. CASE p = Len(l) + 1
        <3>1. n + p = Len(l) + n + 1
            BY <1>1, <2>1
        <3> QED BY <3>1
    <2>2. CASE p # Len(l) + 1
        <3>1. p \in 1..Len(l) /\ p + n = n + p /\ p # End(l)
            BY <1>1, <2>2 DEF End
        <3>2. d[n + p] = l[p] /\ l[p] = dash
            BY <1>1, <3>1 DEF StopsAt
        <3> QED BY <3>2 DEF Stops, Char, dash
    <2> QED BY <2>1, <2>2
<1>5. FindIf(d, n + 1, Stops) = n + p
    <2>1. n + 1 \in 1..End(d) /\ n + p \in (n + 1)..End(d)
        BY <1>1, <1>2
    <2>2. StopsAt(d, n + 1, Stops, n + p)
        BY <1>3, <1>4, <2>1 DEF StopsAt
    <2> QED BY <2>1, <2>2, FindIfIs
<1> DEFINE k == View(d, n + 1, n + p)
<1>6. locate_key(d) = k
    BY <1>5 DEF locate_key, locate_end
<1>7. IsView(k, Char, d, n + 1, n + p)
    <2>1. n + 1 \in 1..End(d) /\ n + p \in (n + 1)..End(d)
        BY <1>1, <1>2
    <2> QED BY <2>1, ViewIs
<1> HIDE DEF k
<1>8. k \in Seq(Char) /\ c \in Seq(Char) /\ Len(k) = p - 1 /\ Len(c) = p - 1
    <2>1. (n + p) - (n + 1) = p - 1
        BY <1>1
    <2> QED BY <1>1, <1>7, <2>1 DEF IsView
<1>9. ASSUME NEW i \in 1..(p - 1) PROVE k[i] = c[i]
    <2>1. /\ i \in 1..((n + p) - (n + 1)) /\ (n + 1) + i - 1 = i + n
          /\ i \in 1..Len(l) /\ 1 + i - 1 = i
        BY <1>1
    <2>2. k[i] = d[i + n]
        BY <1>7, <2>1 DEF IsView
    <2>3. c[i] = l[i]
        BY <1>1, <2>1 DEF IsView
    <2> QED BY <2>1, <2>2, <2>3
<1>10. k = c
    BY <1>8, <1>9, SeqEqual
<1> QED BY <1>6, <1>10 DEF c

(* The characters of a definition that names its short key first.            *)
LEMMA ShortFirstIs ==
    ASSUME NEW s, ShortKey(s), NEW l, LongKey(l), NEW d, d = ShortFirst(s, l)
    PROVE  /\ d \in Seq(Char) /\ Len(d) = Len(l) + 7
           /\ d[1] = dash /\ d[2] = s /\ d[3] = comma /\ d[4] = space
           /\ d[5] = dash /\ d[6] = dash
           /\ \A i \in 1..Len(l) : d[i + 6] = l[i]
           /\ d[Len(l) + 7] = colon
<1> DEFINE head == <<dash, s, comma, space, dash, dash>>
           tail == <<colon>>
<1>1. s \in Char /\ {dash, comma, space, colon} \subseteq Char
    BY DEF ShortKey, Char, dash, comma, space, colon
<1>2. /\ head \in Seq(Char) /\ Len(head) = 6
      /\ head[1] = dash /\ head[2] = s /\ head[3] = comma /\ head[4] = space
      /\ head[5] = dash /\ head[6] = dash
    BY <1>1
<1>3. tail \in Seq(Char) /\ Len(tail) = 1 /\ tail[1] = colon
    BY <1>1
<1>4. l \in Seq(Char) /\ Len(l) \in Nat
    BY LenProperties DEF LongKey
<1>5. d = (head \o l) \o tail
    BY DEF ShortFirst
<1> HIDE DEF head, tail
<1>6. /\ head \o l \in Seq(Char) /\ Len(head \o l) = 6 + Len(l)
      /\ \A i \in 1..6 : (head \o l)[i] = head[i]
      /\ \A i \in 1..Len(l) : (head \o l)[6 + i] = l[i]
    <2>1. /\ head \o l \in Seq(Char) /\ Len(head \o l) = Len(head) + Len(l)
          /\ \A i \in 1..Len(head) : (head \o l)[i] = head[i]
          /\ \A i \in 1..Len(l) : (head \o l)[Len(head) + i] = l[i]
        <3>1. head \in Seq(Char) /\ l \in Seq(Char)
            BY <1>2, <1>4
        <3> QED BY <3>1, ConcatIs
    <2> QED BY <1>2, <2>1
<1>7. /\ d \in Seq(Char) /\ Len(d) = 6 + Len(l) + 1
      /\ \A i \in 1..6 + Len(l) : d[i] = (head \o l)[i]
      /\ \A i \in 1..1 : d[6 + Len(l) + i] = tail[i]
    <2> DEFINE most == head \o l
    <2>1. most \in Seq(Char) /\ tail \in Seq(Char)
        BY <1>3, <1>6
    <2> HIDE DEF most
    <2>2. /\ most \o tail \in Seq(Char) /\ Len(most \o tail) = Len(most) + Len(tail)
          /\ \A i \in 1..Len(most) : (most \o tail)[i] = most[i]
          /\ \A i \in 1..Len(tail) : (most \o tail)[Len(most) + i] = tail[i]
        BY <2>1, ConcatIs
    <2>3. d = most \o tail /\ Len(most) = 6 + Len(l) /\ Len(tail) = 1
        BY <1>3, <1>5, <1>6 DEF most
    <2> QED BY <2>2, <2>3 DEF most
<1>8. \A i \in 1..6 : d[i] = head[i]
    BY <1>4, <1>6, <1>7
<1>9. ASSUME NEW i \in 1..Len(l) PROVE d[i + 6] = l[i]
    <2>1. i + 6 \in 1..6 + Len(l) /\ i + 6 = 6 + i
        BY <1>4
    <2> QED BY <1>6, <1>7, <2>1
<1>10. d[Len(l) + 7] = colon
    <2>1. 6 + Len(l) + 1 = Len(l) + 7 /\ 1 \in 1..1
        BY <1>4
    <2> QED BY <1>3, <1>7, <2>1
<1> QED BY <1>2, <1>4, <1>7, <1>8, <1>9, <1>10

LEMMA ShortFirstKeys ==
    ASSUME NEW s, ShortKey(s), NEW l, LongKey(l)
    PROVE  /\ basic(ShortFirst(s, l)).key = Cut(l)
           /\ basic(ShortFirst(s, l)).shortkey = s
<1> SUFFICES ASSUME NEW d, d = ShortFirst(s, l)
             PROVE  locate_key(d) = Cut(l) /\ locate_shortkey(d) = s
    BY DEF basic
<1>1. /\ d \in Seq(Char) /\ Len(d) = Len(l) + 7
      /\ d[1] = dash /\ d[2] = s /\ d[3] = comma /\ d[4] = space
      /\ d[5] = dash /\ d[6] = dash
      /\ \A i \in 1..Len(l) : d[i + 6] = l[i]
      /\ d[Len(l) + 7] = colon
    BY ShortFirstIs
<1>2. l \in Seq(Char) /\ Len(l) \in Nat
    BY LenProperties DEF LongKey
<1>3. s # dash /\ comma # dash /\ space # dash /\ colon \in Stops
    BY DEF ShortKey, comma, space, dash, colon, Stops, Char
<1>4. AfterDashes(d) = 7
    <2>1. DashesAt(d, 5)
        BY <1>1, <1>2 DEF DashesAt
    <2>2. \A j \in 1..(5 - 1) : d[j] # dash \/ d[j+1] # dash
        <3>1. \A j \in 1..(5 - 1) : j = 1 \/ j = 2 \/ j = 3 \/ j = 4
            OBVIOUS
        <3> QED BY <1>1, <1>3, <3>1
    <2>3. \A j \in 1..(5 - 1) : ~DashesAt(d, j)
        BY <2>2 DEF DashesAt
    <2> QED BY <1>1, <2>1, <2>3, AfterDashesIs
<1>6. locate_key(d) = Cut(l)
    <2>1. /\ 6 \in Nat /\ AfterDashes(d) = 6 + 1 /\ Len(d) >= Len(l) + 6 + 1
          /\ d[Len(l) + 6 + 1] \in Stops
        <3>1. Len(l) + 6 + 1 = Len(l) + 7
            BY <1>2
        <3> QED BY <1>1, <1>2, <1>3, <1>4, <3>1
    <2> QED BY <1>1, <2>1, KeyIsCut
<1>7. locate_shortkey(d) = s
    <2> DEFINE I == {i \in 1..(Len(d) - 1) : d[i] = dash /\ d[i+1] # dash}
    <2>1. 1 \in I /\ I \in SUBSET Int /\ \A i \in I : 1 <= i
        BY <1>1, <1>2, <1>3
    <2>2. Min(I) = 1
        BY <2>1, MinIs
    <2>3. locate_shortkey(d) = IF I = {} THEN no_short_key ELSE d[Min(I) + 1]
        BY DEF locate_shortkey
    <2> QED BY <1>1, <2>1, <2>2, <2>3
<1> QED BY <1>6, <1>7

(* The characters of one that names its long key first.                      *)
LEMMA LongFirstIs ==
    ASSUME NEW s, ShortKey(s), NEW l, LongKey(l), NEW d, d = LongFirst(s, l)
    PROVE  /\ d \in Seq(Char) /\ Len(d) = Len(l) + 7
           /\ d[1] = dash /\ d[2] = dash
           /\ \A i \in 1..Len(l) : d[i + 2] = l[i]
           /\ d[Len(l) + 3] = comma
<1> DEFINE head == <<dash, dash>>
           tail == <<comma, space, dash, s, colon>>
<1>1. s \in Char /\ {dash, comma, space, colon} \subseteq Char
    BY DEF ShortKey, Char, dash, comma, space, colon
<1>2. /\ head \in Seq(Char) /\ Len(head) = 2 /\ head[1] = dash /\ head[2] = dash
      /\ tail \in Seq(Char) /\ Len(tail) = 5 /\ tail[1] = comma
    BY <1>1
<1>3. l \in Seq(Char) /\ Len(l) \in Nat
    BY LenProperties DEF LongKey
<1>4. d = (head \o l) \o tail
    BY DEF LongFirst
<1> HIDE DEF head, tail
<1>5. /\ head \o l \in Seq(Char) /\ Len(head \o l) = 2 + Len(l)
      /\ \A i \in 1..2 : (head \o l)[i] = head[i]
      /\ \A i \in 1..Len(l) : (head \o l)[2 + i] = l[i]
    <2>1. head \in Seq(Char) /\ l \in Seq(Char)
        BY <1>2, <1>3
    <2>2. /\ head \o l \in Seq(Char) /\ Len(head \o l) = Len(head) + Len(l)
          /\ \A i \in 1..Len(head) : (head \o l)[i] = head[i]
          /\ \A i \in 1..Len(l) : (head \o l)[Len(head) + i] = l[i]
        BY <2>1, ConcatIs
    <2> QED BY <1>2, <2>2
<1>6. /\ d \in Seq(Char) /\ Len(d) = 2 + Len(l) + 5
      /\ \A i \in 1..2 + Len(l) : d[i] = (head \o l)[i]
      /\ \A i \in 1..5 : d[2 + Len(l) + i] = tail[i]
    <2> DEFINE most == head \o l
    <2>1. most \in Seq(Char) /\ tail \in Seq(Char)
        BY <1>2, <1>5
    <2> HIDE DEF most
    <2>2. /\ most \o tail \in Seq(Char) /\ Len(most \o tail) = Len(most) + Len(tail)
          /\ \A i \in 1..Len(most) : (most \o tail)[i] = most[i]
          /\ \A i \in 1..Len(tail) : (most \o tail)[Len(most) + i] = tail[i]
        BY <2>1, ConcatIs
    <2>3. d = most \o tail /\ Len(most) = 2 + Len(l) /\ Len(tail) = 5
        BY <1>2, <1>4, <1>5 DEF most
    <2> QED BY <2>2, <2>3 DEF most
<1>7. d[1] = dash /\ d[2] = dash
    <2>1. {1, 2} \subseteq 1..2 + Len(l) /\ {1, 2} \subseteq 1..2
        BY <1>3
    <2> QED BY <1>2, <1>5, <1>6, <2>1
<1>8. ASSUME NEW i \in 1..Len(l) PROVE d[i + 2] = l[i]
    <2>1. i + 2 \in 1..2 + Len(l) /\ i + 2 = 2 + i
        BY <1>3
    <2> QED BY <1>5, <1>6, <2>1
<1>9. d[Len(l) + 3] = comma
    <2>1. 2 + Len(l) + 1 = Len(l) + 3 /\ 1 \in 1..5
        BY <1>3
    <2> QED BY <1>2, <1>6, <2>1
<1>10. Len(d) = Len(l) + 7
    BY <1>3, <1>6
<1> QED BY <1>6, <1>7, <1>8, <1>9, <1>10

(* The first letter is not a dash, and is in the key or is the comma.        *)
LEMMA FirstLetterIs ==
    ASSUME NEW l, LongKey(l)
    PROVE  /\ Append(l, comma) \in Seq(Char) /\ Len(Append(l, comma)) = Len(l) + 1
           /\ \A i \in 1..Len(l) : Append(l, comma)[i] = l[i]
           /\ Append(l, comma)[Len(l) + 1] = comma
           /\ \E q \in 1..(Len(l) + 1) :
                 /\ FirstLetter(l) = Append(l, comma)[q]
                 /\ ShortKey(Append(l, comma)[q])
                 /\ \A i \in 1..(q - 1) : Append(l, comma)[i] = dash
<1> DEFINE t == Append(l, comma)
           q == FindIf(t, 1, Char \ {dash})
<1>1. l \in Seq(Char) /\ Len(l) \in Nat /\ comma \in Char /\ comma # dash
    BY LenProperties DEF LongKey, Char, comma, dash
<1>2. /\ t \in Seq(Char) /\ Len(t) = Len(l) + 1
      /\ \A i \in 1..Len(l) : t[i] = l[i]
      /\ t[Len(l) + 1] = comma
    BY <1>1, AppendProperties
<1>3. FirstLetter(l) = t[q]
    BY DEF FirstLetter
<1> HIDE DEF t
<1>4. StopsAt(t, 1, Char \ {dash}, q)
    <2>1. 1 \in 1..End(t)
        BY <1>1, <1>2 DEF End
    <2> QED BY <1>2, <2>1, FindIfStops
<1> HIDE DEF q
<1>5. \A i \in 1..Len(t) : t[i] \in Char
    BY <1>2, ElementOfSeq
<1>6. q \in 1..(Len(l) + 1)
    <2>1. q \in 1..(Len(l) + 2)
        BY <1>1, <1>2, <1>4 DEF StopsAt, End
    <2>2. q # Len(l) + 2
        <3> SUFFICES ASSUME q = Len(l) + 2 PROVE FALSE
            OBVIOUS
        <3>1. Len(l) + 1 \in 1..(q - 1)
            BY <1>1
        <3> QED BY <1>1, <1>2, <1>4, <3>1 DEF StopsAt
    <2> QED BY <1>1, <2>1, <2>2
<1>7. t[q] \in Char \ {dash}
    BY <1>1, <1>2, <1>4, <1>6 DEF StopsAt, End
<1>8. \A i \in 1..(q - 1) : t[i] = dash
    <2> TAKE i \in 1..(q - 1)
    <2>1. t[i] \notin Char \ {dash}
        BY <1>4 DEF StopsAt
    <2>2. i \in 1..Len(t)
        BY <1>1, <1>2, <1>6
    <2> QED BY <1>5, <2>1, <2>2
<1>9. ShortKey(t[q])
    BY <1>7 DEF ShortKey
<1> QED BY <1>2, <1>3, <1>6, <1>8, <1>9 DEF t

(* The keys of a definition that names its long key first.                   *)
LEMMA LongFirstKeys ==
    ASSUME NEW s, ShortKey(s), NEW l, LongKey(l)
    PROVE  /\ basic(LongFirst(s, l)).key = Cut(l)
           /\ basic(LongFirst(s, l)).shortkey = FirstLetter(l)
           /\ ShortKey(FirstLetter(l))
<1> SUFFICES ASSUME NEW d, d = LongFirst(s, l)
             PROVE  /\ locate_key(d) = Cut(l) /\ locate_shortkey(d) = FirstLetter(l)
                    /\ ShortKey(FirstLetter(l))
    BY DEF basic
<1>1. /\ d \in Seq(Char) /\ Len(d) = Len(l) + 7
      /\ d[1] = dash /\ d[2] = dash
      /\ \A i \in 1..Len(l) : d[i + 2] = l[i]
      /\ d[Len(l) + 3] = comma
    BY LongFirstIs
<1>2. l \in Seq(Char) /\ Len(l) \in Nat
    BY LenProperties DEF LongKey
<1>3. locate_key(d) = Cut(l)
    <2>1. DashesAt(d, 1) /\ \A j \in 1..(1 - 1) : ~DashesAt(d, j)
        BY <1>1, <1>2 DEF DashesAt
    <2>2. AfterDashes(d) = 1 + 2
        BY <1>1, <2>1, AfterDashesIs
    <2>3. comma \in Stops
        BY DEF Stops, Char, comma, is_word, lower, upper, digit, dash
    <2>4. /\ 2 \in Nat /\ AfterDashes(d) = 2 + 1 /\ Len(d) >= Len(l) + 2 + 1
          /\ d[Len(l) + 2 + 1] \in Stops
        <3>1. Len(l) + 2 + 1 = Len(l) + 3
            BY <1>2
        <3> QED BY <1>1, <1>2, <2>2, <2>3, <3>1
    <2> QED BY <1>1, <2>4, KeyIsCut
<1> DEFINE t == Append(l, comma)
<1>4. /\ \A i \in 1..Len(l) : t[i] = l[i]
      /\ t[Len(l) + 1] = comma
    BY FirstLetterIs
<1>5. PICK q \in 1..(Len(l) + 1) : /\ FirstLetter(l) = t[q]
                                   /\ ShortKey(t[q])
                                   /\ \A i \in 1..(q - 1) : t[i] = dash
    BY FirstLetterIs
<1> HIDE DEF t
<1>6. \A i \in 1..(Len(l) + 1) : d[i + 2] = t[i]
    <2> TAKE i \in 1..(Len(l) + 1)
    <2>1. CASE i \in 1..Len(l)
        BY <1>1, <1>4, <2>1
    <2>2. CASE i \notin 1..Len(l)
        <3>1. i = Len(l) + 1 /\ i + 2 = Len(l) + 3
            BY <1>2, <2>2
        <3> QED BY <1>1, <1>4, <3>1
    <2> QED BY <2>1, <2>2
<1> DEFINE I == {i \in 1..(Len(d) - 1) : d[i] = dash /\ d[i+1] # dash}
<1>7. \A i \in 1..(q + 1) : d[i] = dash
    <2> TAKE i \in 1..(q + 1)
    <2>1. CASE i = 1 \/ i = 2
        BY <1>1, <2>1
    <2>2. CASE i # 1 /\ i # 2
        <3>1. i - 2 \in 1..(q - 1) /\ i - 2 \in 1..(Len(l) + 1) /\ (i - 2) + 2 = i
            BY <1>2, <2>2
        <3>2. d[i] = t[i - 2]
            BY <1>6, <3>1
        <3> QED BY <1>5, <3>1, <3>2
    <2> QED BY <2>1, <2>2
<1>8. d[q + 2] = FirstLetter(l) /\ d[q + 2] # dash
    BY <1>5, <1>6 DEF ShortKey
<1>9. q + 1 \in I /\ I \in SUBSET Int
    <2>1. q + 1 \in 1..(Len(d) - 1) /\ q + 1 \in 1..(q + 1) /\ (q + 1) + 1 = q + 2
        BY <1>1, <1>2
    <2> QED BY <1>7, <1>8, <2>1
<1>10. ASSUME NEW i \in I PROVE q + 1 <= i
    <2> SUFFICES ASSUME i < q + 1 PROVE FALSE
        BY <1>9
    <2>1. i + 1 \in 1..(q + 1)
        BY <1>9
    <2> QED BY <1>7, <2>1
<1>11. Min(I) = q + 1
    BY <1>9, <1>10, MinIs
<1>12. locate_shortkey(d) = IF I = {} THEN no_short_key ELSE d[Min(I) + 1]
    BY DEF locate_shortkey
<1>13. (q + 1) + 1 = q + 2
    OBVIOUS
<1> QED BY <1>3, <1>5, <1>8, <1>9, <1>11, <1>12, <1>13

(* A prefix, character by character.                                         *)
Starts(s, t) == Len(s) <= Len(t) /\ \A i \in 1..Len(s) : s[i] = t[i]

LEMMA PrefixIs ==
    ASSUME NEW S, NEW s \in Seq(S), NEW t \in Seq(S)
    PROVE  IsPrefix(s, t) <=> Starts(s, t)
<1>1. Len(s) \in Nat /\ Len(t) \in Nat /\ SubSeq(s, 1, Len(s)) = s
    BY LenProperties, SubSeqFull
<1>2. CASE Len(s) <= Len(t)
    <2> DEFINE u == SubSeq(t, 1, Len(s))
    <2>1. \A i \in 1..Len(s) : t[i] \in S
        BY <1>1, <1>2, ElementOfSeq
    <2>2. /\ u \in Seq(S) /\ Len(u) = IF 1 <= Len(s) THEN Len(s) - 1 + 1 ELSE 0
          /\ \A i \in 1..(Len(s) - 1 + 1) : u[i] = t[1 + i - 1]
        BY <1>1, <2>1, SubSeqProperties
    <2> HIDE DEF u
    <2>3. Len(u) = Len(s) /\ \A i \in 1..Len(s) : u[i] = t[i]
        BY <1>1, <2>2
    <2>4. s = u <=> \A i \in 1..Len(s) : s[i] = u[i]
        BY <2>2, <2>3, SeqEqual
    <2>5. IsPrefix(s, t) <=> s = u
        BY <1>1, <1>2 DEF IsPrefix, u
    <2> QED BY <1>2, <2>3, <2>4, <2>5 DEF Starts
<1>3. CASE ~(Len(s) <= Len(t))
    BY <1>3 DEF IsPrefix, Starts
<1> QED BY <1>2, <1>3

LEMMA TwoDashes ==
    /\ <<dash, dash>> \in Seq(Char) /\ Len(<<dash, dash>>) = 2
    /\ <<dash, dash>>[1] = dash /\ <<dash, dash>>[2] = dash
BY DEF dash, Char

LEMMA LongIs ==
    ASSUME NEW t \in Seq(Char)
    PROVE  Long(t) <=> Len(t) >= 2 /\ t[1] = dash /\ t[2] = dash
<1> DEFINE d == <<dash, dash>>
<1>1. d \in Seq(Char) /\ Len(d) = 2 /\ d[1] = dash /\ d[2] = dash
    BY TwoDashes
<1>2. Long(t) <=> IsPrefix(d, t)
    BY DEF Long
<1> HIDE DEF d
<1>3. IsPrefix(d, t) <=> Len(d) <= Len(t) /\ \A i \in 1..Len(d) : d[i] = t[i]
    <2>1. IsPrefix(d, t) <=> Starts(d, t)
        BY <1>1, PrefixIs
    <2> QED BY <2>1 DEF Starts
<1>4. \A i \in 1..2 : i = 1 \/ i = 2
    OBVIOUS
<1>5. 1 \in 1..2 /\ 2 \in 1..2 /\ Len(t) \in Nat
    BY LenProperties
<1> QED BY <1>1, <1>2, <1>3, <1>4, <1>5

(* The two ways a long argument is written, character by character.          *)
LEMMA BareLong ==
    ASSUME NEW l, PlainKey(l), NEW t \in Seq(Char), Long(t)
    PROVE  /\ <<dash, dash>> \o l \in Seq(Char)
           /\ t = <<dash, dash>> \o l <=>
                Len(t) = Len(l) + 2 /\ \A i \in 1..Len(l) : t[i + 2] = l[i]
           /\ IsPrefix(<<dash, dash>> \o l \o <<equals>>, t) <=>
                /\ Len(t) >= Len(l) + 3
                /\ \A i \in 1..Len(l) : t[i + 2] = l[i]
                /\ t[Len(l) + 3] = equals
<1> DEFINE d == <<dash, dash>>
           e == <<equals>>
<1>1. d \in Seq(Char) /\ Len(d) = 2 /\ d[1] = dash /\ d[2] = dash
    BY TwoDashes
<1>2. e \in Seq(Char) /\ Len(e) = 1 /\ e[1] = equals
    BY DEF equals, Char
<1>3. l \in Seq(Char) /\ Len(l) \in Nat
    BY PlainKeyProperties
<1>4. Len(t) \in Nat /\ Len(t) >= 2 /\ t[1] = dash /\ t[2] = dash
    BY LongIs, LenProperties
<1> HIDE DEF d, e
<1> DEFINE a == d \o l
<1>5. /\ a \in Seq(Char) /\ Len(a) = Len(d) + Len(l)
      /\ \A i \in 1..Len(d) : a[i] = d[i]
      /\ \A i \in 1..Len(l) : a[Len(d) + i] = l[i]
    <2>1. d \in Seq(Char) /\ l \in Seq(Char)
        BY <1>1, <1>3
    <2> QED BY <2>1, ConcatIs
<1> HIDE DEF a
<1> DEFINE b == a \o e
<1>6. /\ b \in Seq(Char) /\ Len(b) = Len(a) + Len(e)
      /\ \A i \in 1..Len(a) : b[i] = a[i]
      /\ \A i \in 1..Len(e) : b[Len(a) + i] = e[i]
    <2>1. a \in Seq(Char) /\ e \in Seq(Char)
        BY <1>2, <1>5
    <2> QED BY <2>1, ConcatIs
<1> HIDE DEF b
<1>7. Len(a) = Len(l) + 2 /\ a[1] = dash /\ a[2] = dash /\ \A i \in 1..Len(l) : a[i + 2] = l[i]
    <2>1. 1 \in 1..2 /\ 2 \in 1..2 /\ \A i \in 1..Len(l) : i + 2 = 2 + i
        BY <1>3
    <2> QED BY <1>1, <1>3, <1>5, <2>1
<1>8. \A j \in 1..Len(a) : j = 1 \/ j = 2 \/ \E i \in 1..Len(l) : j = i + 2
    <2> SUFFICES ASSUME NEW j \in 1..Len(a), j # 1, j # 2 PROVE \E i \in 1..Len(l) : j = i + 2
        OBVIOUS
    <2>1. j - 2 \in 1..Len(l) /\ j = (j - 2) + 2
        BY <1>3, <1>7
    <2> QED BY <2>1
<1>9. (\A i \in 1..Len(l) : t[i + 2] = l[i]) <=> \A j \in 1..Len(a) : a[j] = t[j]
    <2>1. ASSUME \A i \in 1..Len(l) : t[i + 2] = l[i], NEW j \in 1..Len(a) PROVE a[j] = t[j]
        BY <1>4, <1>7, <1>8, <2>1
    <2>2. ASSUME \A j \in 1..Len(a) : a[j] = t[j], NEW i \in 1..Len(l) PROVE t[i + 2] = l[i]
        <3>1. i + 2 \in 1..Len(a)
            BY <1>3, <1>7
        <3> QED BY <1>7, <2>2, <3>1
    <2> QED BY <2>1, <2>2
<1>10. t = a <=> Len(t) = Len(a) /\ \A j \in 1..Len(a) : a[j] = t[j]
    BY <1>5, SeqEqual
<1>11. IsPrefix(b, t) <=> Len(b) <= Len(t) /\ \A i \in 1..Len(b) : b[i] = t[i]
    <2>1. IsPrefix(b, t) <=> Starts(b, t)
        BY <1>6, PrefixIs
    <2> QED BY <2>1 DEF Starts
<1>12. Len(b) = Len(l) + 3 /\ b[Len(l) + 3] = equals /\ \A j \in 1..Len(a) : b[j] = a[j]
    <2>1. 1 \in 1..Len(e) /\ Len(a) + 1 = Len(l) + 3
        BY <1>2, <1>3, <1>7
    <2> QED BY <1>2, <1>6, <1>7, <2>1
<1>13. (\A i \in 1..Len(b) : b[i] = t[i]) <=>
        (\A j \in 1..Len(a) : a[j] = t[j]) /\ t[Len(l) + 3] = equals
    <2>1. 1..Len(b) = 1..Len(a) \union {Len(l) + 3}
        BY <1>3, <1>7, <1>12
    <2> QED BY <1>12, <2>1
<1>14. Len(b) <= Len(t) <=> Len(t) >= Len(l) + 3
    BY <1>3, <1>4, <1>12
<1>15. a = <<dash, dash>> \o l /\ b = <<dash, dash>> \o l \o <<equals>>
    BY DEF a, b, d, e
<1> QED BY <1>5, <1>7, <1>9, <1>10, <1>11, <1>13, <1>14, <1>15

(* The option that a definition with both keys makes, and a long argument.   *)
LEMMA LongArgument ==
    ASSUME NEW s, ShortKey(s), NEW l, PlainKey(l), NEW t \in Texts, Long(t),
           NEW o, o.key = l, o.shortkey = s
    PROVE  /\ Matches(o, Key(t)) <=> Carries(s, l, t)
           /\ Carries(s, l, t) => Value(t) = CarriedValue(l, t)
<1> DEFINE e == Find(t, 1, equals)
           k == View(t, 1, e)
<1>1. /\ t \in Seq(Char) /\ Len(t) \in Nat /\ End(t) = Len(t) + 1
      /\ Len(t) >= 2 /\ t[1] = dash /\ t[2] = dash
    BY TextProperties, LongIs
<1>2. /\ l \in Seq(Char) /\ Len(l) \in Nat
      /\ \A i \in 1..Len(l) : l[i] # dash /\ l[i] # equals
    BY PlainKeyProperties
<1>3. Key(t) = k /\ Value(t) = SubSeq(t, e + 1, Len(t))
    BY DEF Key, Value
<1>4. CarriedValue(l, t) = SubSeq(t, Len(l) + 4, Len(t))
    BY DEF CarriedValue
<1>5. StopsAt(t, 1, {equals}, e)
    <2>1. 1 \in 1..End(t)
        BY <1>1
    <2> QED BY <1>1, <2>1, FindIfStops DEF Find
<1> HIDE DEF e
<1>6. e \in 3..(Len(t) + 1)
    <2>1. e \in 1..(Len(t) + 1) /\ (e # Len(t) + 1 => t[e] = equals)
        BY <1>1, <1>5 DEF StopsAt
    <2>2. dash # equals
        BY DEF dash, equals
    <2> QED BY <1>1, <2>1, <2>2
<1>7. \A i \in 1..(e - 1) : t[i] # equals
    BY <1>5 DEF StopsAt
<1>8. /\ k \in Seq(Char) /\ Len(k) = e - 1 /\ \A i \in 1..(e - 1) : k[i] = t[i]
    <2>1. 1 \in 1..End(t) /\ e \in 1..End(t)
        BY <1>1, <1>6
    <2>2. \A i \in 1..(e - 1) : 1 + i - 1 = i
        BY <1>6
    <2>3. IsView(k, Char, t, 1, e)
        BY <1>1, <2>1, ViewIs
    <2> HIDE DEF k
    <2> QED BY <2>2, <2>3 DEF IsView
<1> HIDE DEF k
<1>9. Long(k) /\ k[2] = dash
    <2>1. 1 \in 1..(e - 1) /\ 2 \in 1..(e - 1) /\ Len(k) >= 2
        BY <1>6, <1>8
    <2> QED BY <1>1, <1>8, <2>1, LongIs
<1> DEFINE r == SubSeq(k, 3, Len(k))
<1>10. Matches(o, k) <=> r = l
    <2>1. s # dash
        BY DEF ShortKey
    <2> QED BY <1>9, <2>1 DEF Matches
<1>11. r \in Seq(Char) /\ Len(r) = e - 3 /\ \A i \in 1..(e - 3) : r[i] = t[i + 2]
    <2> DEFINE n == Len(k)
    <2>1. n \in Int /\ n = e - 1 /\ \A i \in 3..n : k[i] \in Char
        BY <1>6, <1>8, ElementOfSeq
    <2> HIDE DEF n
    <2>2. /\ SubSeq(k, 3, n) \in Seq(Char)
          /\ Len(SubSeq(k, 3, n)) = IF 3 <= n THEN n - 3 + 1 ELSE 0
          /\ \A i \in 1..(n - 3 + 1) : SubSeq(k, 3, n)[i] = k[3 + i - 1]
        BY <2>1, SubSeqProperties
    <2>3. r = SubSeq(k, 3, n)
        BY DEF n
    <2>4. ASSUME NEW i \in 1..(e - 3) PROVE r[i] = t[i + 2]
        <3>1. i \in 1..(n - 3 + 1) /\ 3 + i - 1 = i + 2 /\ i + 2 \in 1..(e - 1)
            BY <1>6, <2>1
        <3> QED BY <1>8, <2>2, <2>3, <3>1
    <2>5. Len(r) = e - 3
        BY <1>6, <2>1, <2>2, <2>3
    <2> QED BY <2>2, <2>3, <2>4, <2>5
<1> HIDE DEF r
<1>12. r = l <=> e = Len(l) + 3 /\ \A i \in 1..Len(l) : t[i + 2] = l[i]
    <2>1. r = l => Len(r) = Len(l) /\ \A i \in 1..Len(l) : r[i] = l[i]
        OBVIOUS
    <2>2. Len(r) = Len(l) /\ (\A i \in 1..Len(l) : r[i] = l[i]) => r = l
        BY <1>2, <1>11, SeqEqual
    <2>3. Len(r) = Len(l) <=> e = Len(l) + 3
        BY <1>2, <1>6, <1>11
    <2>4. e = Len(l) + 3 => 1..(e - 3) = 1..Len(l)
        BY <1>2
    <2> QED BY <1>11, <2>1, <2>2, <2>3, <2>4
<1>13. ~IsPrefix(<<dash, s>>, t)
    <2> DEFINE d == <<dash, s>>
    <2>1. s \in Char /\ dash \in Char /\ s # dash
        BY DEF ShortKey, Char, dash
    <2>2. d \in Seq(Char) /\ Len(d) = 2 /\ d[2] = s
        BY <2>1
    <2> HIDE DEF d
    <2>3. IsPrefix(d, t) => \A i \in 1..Len(d) : d[i] = t[i]
        <3>1. IsPrefix(d, t) <=> Starts(d, t)
            BY <1>1, <2>2, PrefixIs
        <3> QED BY <3>1 DEF Starts
    <2>4. 2 \in 1..2
        OBVIOUS
    <2>5. ~IsPrefix(d, t)
        BY <1>1, <2>1, <2>2, <2>3, <2>4
    <2> QED BY <2>5 DEF d
<1>14. Carries(s, l, t) <=>
        /\ \A i \in 1..Len(l) : t[i + 2] = l[i]
        /\ Len(t) = Len(l) + 2 \/ (Len(t) >= Len(l) + 3 /\ t[Len(l) + 3] = equals)
    BY <1>1, <1>13, BareLong DEF Carries
<1>15. ASSUME \A i \in 1..Len(l) : t[i + 2] = l[i]
       PROVE  e = Len(l) + 3 <=>
                Len(t) = Len(l) + 2 \/ (Len(t) >= Len(l) + 3 /\ t[Len(l) + 3] = equals)
    <2>1. ASSUME e = Len(l) + 3
          PROVE  Len(t) = Len(l) + 2 \/ (Len(t) >= Len(l) + 3 /\ t[Len(l) + 3] = equals)
        BY <1>1, <1>2, <1>5, <1>6, <2>1 DEF StopsAt
    <2>2. ASSUME Len(t) = Len(l) + 2 \/ (Len(t) >= Len(l) + 3 /\ t[Len(l) + 3] = equals)
          PROVE  e = Len(l) + 3
        <3>1. e <= Len(l) + 3
            <4>1. CASE Len(t) = Len(l) + 2
                BY <1>2, <1>6, <4>1
            <4>2. CASE Len(t) >= Len(l) + 3 /\ t[Len(l) + 3] = equals
                BY <1>2, <1>6, <1>7, <4>2
            <4> QED BY <2>2, <4>1, <4>2
        <3>2. ~(e < Len(l) + 3)
            <4> SUFFICES ASSUME e < Len(l) + 3 PROVE FALSE
                OBVIOUS
            <4>1. e # Len(t) + 1
                BY <1>1, <1>2, <1>6, <2>2
            <4>2. t[e] = equals
                BY <1>1, <1>5, <4>1 DEF StopsAt
            <4>3. e - 2 \in 1..Len(l) /\ (e - 2) + 2 = e
                BY <1>2, <1>6
            <4> QED BY <1>2, <1>15, <4>2, <4>3
        <3> QED BY <1>2, <1>6, <3>1, <3>2
    <2> QED BY <2>1, <2>2
<1>16. Carries(s, l, t) <=> r = l
    BY <1>12, <1>14, <1>15
<1>17. r = l => e + 1 = Len(l) + 4
    BY <1>2, <1>12
<1> QED BY <1>3, <1>4, <1>10, <1>16, <1>17

(* And an argument that is not a long one.                                   *)
LEMMA ShortArgument ==
    ASSUME NEW s, ShortKey(s), NEW l, PlainKey(l), NEW t \in Texts, ~Long(t), Len(t) >= 2,
           NEW o, o.key = l, o.shortkey = s
    PROVE  /\ Matches(o, Key(t)) <=> Carries(s, l, t)
           /\ Value(t) = CarriedValue(l, t)
<1> DEFINE k == SubSeq(t, 1, 2)
           d == <<dash, s>>
<1>1. t \in Seq(Char) /\ Len(t) \in Nat
    BY TextProperties
<1>2. Key(t) = k /\ Value(t) = CarriedValue(l, t)
    BY DEF Key, Value, CarriedValue
<1>3. k \in Seq(Char) /\ Len(k) = 2 /\ k[1] = t[1] /\ k[2] = t[2]
    <2>1. \A i \in 1..2 : t[i] \in Char
        BY <1>1, ElementOfSeq
    <2>2. /\ k \in Seq(Char) /\ Len(k) = IF 1 <= 2 THEN 2 - 1 + 1 ELSE 0
          /\ \A i \in 1..(2 - 1 + 1) : k[i] = t[1 + i - 1]
        BY <2>1, SubSeqProperties
    <2> QED BY <2>2
<1>4. d \in Seq(Char) /\ Len(d) = 2 /\ d[1] = dash /\ d[2] = s
    <2>1. s \in Char /\ dash \in Char
        BY DEF ShortKey, Char, dash
    <2> QED BY <2>1
<1> HIDE DEF k, d
<1>5. ~Long(k)
    BY <1>1, <1>3, LongIs
<1>6. Matches(o, k) <=> t[1] = dash /\ t[2] = s
    BY <1>3, <1>5 DEF Matches
<1>7. IsPrefix(d, t) <=> t[1] = dash /\ t[2] = s
    <2>1. IsPrefix(d, t) <=> Len(d) <= Len(t) /\ \A i \in 1..Len(d) : d[i] = t[i]
        <3>1. IsPrefix(d, t) <=> Starts(d, t)
            BY <1>1, <1>4, PrefixIs
        <3> QED BY <3>1 DEF Starts
    <2>2. 1 \in 1..2 /\ 2 \in 1..2 /\ \A i \in 1..2 : i = 1 \/ i = 2
        OBVIOUS
    <2> QED BY <1>1, <1>4, <2>1, <2>2
<1>8. t # <<dash, dash>> \o l /\ ~IsPrefix(<<dash, dash>> \o l \o <<equals>>, t)
    <2> DEFINE dd == <<dash, dash>>
    <2>1. dd \in Seq(Char) /\ Len(dd) = 2 /\ dd[1] = dash /\ dd[2] = dash
        BY TwoDashes
    <2>2. l \in Seq(Char) /\ <<equals>> \in Seq(Char)
        BY PlainKeyProperties DEF equals, Char
    <2> HIDE DEF dd
    <2> DEFINE a == dd \o l
    <2>3. a \in Seq(Char) /\ Len(a) >= 2 /\ a[1] = dash /\ a[2] = dash
        <3>1. /\ Len(l) \in Nat /\ a \in Seq(Char) /\ Len(a) = Len(dd) + Len(l)
              /\ \A i \in 1..Len(dd) : a[i] = dd[i]
            <4>1. dd \in Seq(Char) /\ l \in Seq(Char)
                BY <2>1, <2>2
            <4> QED BY <4>1, ConcatIs
        <3> QED BY <2>1, <3>1
    <2> HIDE DEF a
    <2>4. t # a
        BY <1>1, <2>3, LongIs
    <2> DEFINE b == a \o <<equals>>
    <2>5. b \in Seq(Char) /\ Len(b) >= 2 /\ b[1] = dash /\ b[2] = dash
        <3>1. /\ Len(<<equals>>) \in Nat /\ Len(a) \in Nat
              /\ b \in Seq(Char) /\ Len(b) = Len(a) + Len(<<equals>>)
              /\ \A i \in 1..Len(a) : b[i] = a[i]
            BY <2>2, <2>3, ConcatIs
        <3> QED BY <2>3, <3>1
    <2> HIDE DEF b
    <2>6. IsPrefix(b, t) => \A i \in 1..Len(b) : b[i] = t[i]
        <3>1. IsPrefix(b, t) <=> Starts(b, t)
            BY <1>1, <2>5, PrefixIs
        <3> QED BY <3>1 DEF Starts
    <2>7. Len(b) \in Nat /\ 1 \in 1..Len(b) /\ 2 \in 1..Len(b)
        BY <2>5, LenProperties
    <2>8. ~IsPrefix(b, t)
        BY <1>1, <2>5, <2>6, <2>7, LongIs
    <2> QED BY <2>4, <2>8 DEF a, b, dd
<1> QED BY <1>2, <1>6, <1>7, <1>8 DEF Carries, d

LEMMA Taking ==
    ASSUME text \in Texts, NEW definition, NEW s, ShortKey(s), NEW l, PlainKey(l),
           basic(definition).key = l, basic(definition).shortkey = s
    PROVE  Takes(definition, s, l)
<1> SUFFICES ASSUME NEW o, o = basic(definition),
                    NEW taken, taken = Carries(s, l, text),
                    NEW value, value = CarriedValue(l, text)
             PROVE  IF Len(text) < 2
                    THEN parse(o, text) = OutOfRange /\ parse_bool(o, text) = OutOfRange
                    ELSE /\ parse_bool(o, text) = Some(taken)
                         /\ parse(o, text) = IF taken /\ value # <<>> THEN Some(value) ELSE None
                         /\ \A d \in BOOLEAN : parse_default(o, d, text) = Some(taken # d)
    BY DEF Takes
<1>1. o.key = l /\ o.shortkey = s
    OBVIOUS
<1>2. text \in Seq(Char) /\ Len(text) \in Nat
    BY TextProperties
<1>3. Splits(text) <=> ~(Len(text) < 2)
    BY <1>2, LongIs DEF Splits
<1>4. CASE Len(text) < 2
    BY <1>3, <1>4 DEF parse, parse_bool
<1>5. CASE ~(Len(text) < 2)
    <2>1. /\ Matches(o, Key(text)) <=> taken
          /\ taken => Value(text) = value
        BY <1>1, <1>2, <1>5, LongArgument, ShortArgument
    <2>2. Matches(o, Key(text)) \in BOOLEAN /\ taken \in BOOLEAN
        BY DEF Matches, Carries
    <2>3. Matches(o, Key(text)) = taken
        BY <2>1, <2>2
    <2>4. parse_bool(o, text) = Some(taken)
        BY <1>3, <1>5, <2>3 DEF parse_bool
    <2>5. parse(o, text) = IF taken /\ value # <<>> THEN Some(value) ELSE None
        BY <1>3, <1>5, <2>1 DEF parse
    <2>6. ASSUME NEW d \in BOOLEAN PROVE parse_default(o, d, text) = Some(taken # d)
        <3>1. (IF taken THEN ~d ELSE d) = (taken # d)
            BY <2>2
        <3> QED BY <1>3, <1>5, <2>3, <3>1 DEF parse_default
    <2> QED BY <1>5, <2>4, <2>5, <2>6
<1> QED BY <1>4, <1>5

(* TakesItsArguments: an option takes the arguments written with the keys    *)
(* that are read out of its definition and no others, whatever the argument, *)
(* whatever keys the definition names, with '-' in them or not, and in which *)
(* order.                                                                    *)
THEOREM OptionsParse == Spec => []TakesItsArguments
<1>1. ParsingTypeOK => TakesItsArguments
    <2> SUFFICES ASSUME ParsingTypeOK, NEW s \in Shorts, NEW l \in Longs
                 PROVE  /\ Takes(ShortFirst(s, l), s, Cut(l))
                        /\ Takes(LongFirst(s, l), FirstLetter(l), Cut(l))
        BY DEF TakesItsArguments
    <2>1. text \in Texts /\ ShortKey(s) /\ LongKey(l) /\ PlainKey(Cut(l))
        BY TextIsText, KeysOfConstants, CutIsPlain
    <2>2. Takes(ShortFirst(s, l), s, Cut(l))
        BY <2>1, ShortFirstKeys, Taking
    <2>3. Takes(LongFirst(s, l), FirstLetter(l), Cut(l))
        BY <2>1, LongFirstKeys, Taking
    <2> QED BY <2>2, <2>3
<1> QED BY <1>1, ParsingInit, ParsingNext, PTL DEF Spec

-----------------------------------------------------------------------------
(* Lists: where the parts of a text begin.                                   *)

(* The position after the next separator, or the end.                        *)
NextBegin(t, p, sep) ==
    IF Find(t, p, sep) = End(t) THEN Find(t, p, sep) ELSE Find(t, p, sep) + 1

IsBegins(it, t, sep, count) ==
    it = [k \in 1..count |-> IF k = 1 THEN 1 ELSE NextBegin(t, it[k-1], sep)]

LEMMA BeginsExists ==
    ASSUME NEW t, NEW sep, NEW count \in Nat
    PROVE  \E it : IsBegins(it, t, sep, count)
<1> DEFINE T == {c \in Nat : \E it : IsBegins(it, t, sep, c)}
<1>1. 0 \in T
    <2> DEFINE it == [k \in 1..0 |-> 1]
    <2>1. \A k \in 1..0 : FALSE
        OBVIOUS
    <2>2. it = [k \in 1..0 |-> IF k = 1 THEN 1 ELSE NextBegin(t, it[k-1], sep)]
        BY <2>1
    <2> QED BY <2>2 DEF IsBegins
<1>2. ASSUME NEW c \in Nat, c \in T PROVE c + 1 \in T
    <2>1. PICK it : IsBegins(it, t, sep, c)
        BY <1>2
    <2> DEFINE new == [k \in 1..c + 1 |->
                        IF k = 1 THEN 1
                        ELSE IF k = c + 1 THEN NextBegin(t, it[c], sep) ELSE it[k]]
    <2>2. \A k \in 1..c : new[k] = it[k]
        <3> SUFFICES ASSUME NEW k \in 1..c PROVE new[k] = it[k]
            OBVIOUS
        <3>1. k \in 1..c + 1 /\ k # c + 1
            OBVIOUS
        <3>2. k = 1 => it[k] = 1
            BY <2>1 DEF IsBegins
        <3> QED BY <3>1, <3>2
    <2>3. ASSUME NEW k \in 1..c + 1
          PROVE  new[k] = IF k = 1 THEN 1 ELSE NextBegin(t, new[k-1], sep)
        <3>1. CASE k = 1
            BY <3>1
        <3>2. CASE k # 1 /\ k = c + 1
            <4>1. new[k] = NextBegin(t, it[c], sep) /\ k - 1 = c /\ c \in 1..c
                BY <3>2
            <4> HIDE DEF new
            <4> QED BY <2>2, <3>2, <4>1
        <3>3. CASE k # 1 /\ k # c + 1
            <4>1. k \in 1..c /\ k - 1 \in 1..c
                BY <3>3
            <4>2. it[k] = NextBegin(t, it[k-1], sep)
                BY <2>1, <3>3, <4>1 DEF IsBegins
            <4> HIDE DEF new
            <4> QED BY <2>2, <3>3, <4>1, <4>2
        <3> QED BY <3>1, <3>2, <3>3
    <2>4. new = [k \in 1..c + 1 |-> new[k]]
        OBVIOUS
    <2> HIDE DEF new
    <2>5. IsBegins(new, t, sep, c + 1)
        BY <2>3, <2>4, Zenon DEF IsBegins
    <2> QED BY <2>5
<1>3. Nat \subseteq T
    <2> HIDE DEF T
    <2> QED BY <1>1, <1>2, InductionOnNat
<1> QED BY <1>3

LEMMA BeginsSteps ==
    ASSUME NEW t, NEW sep, NEW count \in Nat
    PROVE  /\ 1 <= count => Begins(t, sep, count)[1] = 1
           /\ \A k \in 1..(count - 1) : Begins(t, sep, count)[k+1]
                                        = NextBegin(t, Begins(t, sep, count)[k], sep)
<1>1. Begins(t, sep, count) = CHOOSE it : IsBegins(it, t, sep, count)
    BY DEF Begins, IsBegins, NextBegin
<1>2. PICK it : it = Begins(t, sep, count) /\ IsBegins(it, t, sep, count)
    BY <1>1, BeginsExists
<1>3. 1 <= count => it[1] = 1
    BY <1>2 DEF IsBegins
<1>4. ASSUME NEW k \in 1..(count - 1) PROVE it[k+1] = NextBegin(t, it[k], sep)
    <2>1. k + 1 \in 1..count /\ k + 1 # 1 /\ (k + 1) - 1 = k
        OBVIOUS
    <2> QED BY <1>2, <2>1 DEF IsBegins
<1> QED BY <1>2, <1>3, <1>4

-----------------------------------------------------------------------------
(* Separators before a position.                                             *)
SeparatorsBefore(t, p, sep) == {i \in 1..(p - 1) : t[i] = sep}

LEMMA SeparatorsFinite ==
    ASSUME NEW t, NEW p \in Int, NEW sep
    PROVE  /\ IsFiniteSet(SeparatorsBefore(t, p, sep))
           /\ Cardinality(SeparatorsBefore(t, p, sep)) \in Nat
<1>1. IsFiniteSet(1..(p - 1)) /\ SeparatorsBefore(t, p, sep) \subseteq 1..(p - 1)
    BY FS_Interval DEF SeparatorsBefore
<1> QED BY <1>1, FS_Subset, FS_CardinalityType

LEMMA CountParts ==
    ASSUME NEW t \in Texts, NEW sep, NEW MAX \in Nat \ {0},
           NEW all, all = Cardinality(SeparatorsBefore(t, End(t), sep)),
           NEW count, count = count_parts(t, sep, MAX)
    PROVE  all \in Nat /\ count = IF all + 1 <= MAX THEN all + 1 ELSE MAX
<1>1. Len(t) \in Nat /\ DOMAIN t = 1..Len(t) /\ End(t) = Len(t) + 1
    BY TextProperties
<1>2. 1..(End(t) - 1) = DOMAIN t
    BY <1>1
<1>3. SeparatorsBefore(t, End(t), sep) = {i \in DOMAIN t : t[i] = sep}
    BY <1>2 DEF SeparatorsBefore
<1>4. all \in Nat
    BY <1>1, SeparatorsFinite
<1>5. count = Min({all + 1, MAX})
    BY <1>3 DEF count_parts
<1> QED BY <1>4, <1>5, MinOfTwo

(* While separators are left, the next part begins after the first of them.  *)
LEMMA NextBeginIs ==
    ASSUME NEW t \in Texts, NEW sep, NEW p \in 1..End(t),
           Cardinality(SeparatorsBefore(t, p, sep)) < Cardinality(SeparatorsBefore(t, End(t), sep)),
           NEW q, q = NextBegin(t, p, sep)
    PROVE  /\ q \in (p + 1)..End(t)
           /\ t[q - 1] = sep
           /\ \A i \in p..(q - 2) : t[i] # sep
           /\ Find(t, p, sep) = q - 1
           /\ Cardinality(SeparatorsBefore(t, q, sep)) = Cardinality(SeparatorsBefore(t, p, sep)) + 1
<1> DEFINE e == Find(t, p, sep)
<1>1. t \in Seq(Char) /\ Len(t) \in Nat /\ End(t) = Len(t) + 1
    BY TextProperties
<1>2. StopsAt(t, p, {sep}, e)
    BY <1>1, FindIfStops DEF Find
<1>3. q = IF e = End(t) THEN e ELSE e + 1
    BY DEF NextBegin
<1> HIDE DEF e
<1>4. e \in p..End(t) /\ \A i \in p..(e - 1) : t[i] # sep
    BY <1>2 DEF StopsAt
<1>5. e # End(t)
    <2> SUFFICES ASSUME e = End(t) PROVE FALSE
        OBVIOUS
    <2>1. SeparatorsBefore(t, p, sep) = SeparatorsBefore(t, End(t), sep)
        <3>1. ASSUME NEW i \in SeparatorsBefore(t, End(t), sep)
              PROVE  i \in SeparatorsBefore(t, p, sep)
            BY <1>1, <1>4 DEF SeparatorsBefore
        <3>2. ASSUME NEW i \in SeparatorsBefore(t, p, sep)
              PROVE  i \in SeparatorsBefore(t, End(t), sep)
            BY <1>1 DEF SeparatorsBefore
        <3> QED BY <3>1, <3>2
    <2>2. Cardinality(SeparatorsBefore(t, p, sep)) \in Nat
        BY SeparatorsFinite
    <2> QED BY <2>1, <2>2
<1>6. t[e] = sep
    BY <1>2, <1>5 DEF StopsAt
<1>7. q = e + 1 /\ q - 1 = e
    BY <1>1, <1>3, <1>4, <1>5
<1>8. SeparatorsBefore(t, q, sep) = SeparatorsBefore(t, p, sep) \union {e}
    <2>1. ASSUME NEW i \in SeparatorsBefore(t, q, sep)
          PROVE  i \in SeparatorsBefore(t, p, sep) \union {e}
        BY <1>1, <1>4, <1>7 DEF SeparatorsBefore
    <2>2. ASSUME NEW i \in SeparatorsBefore(t, p, sep) \union {e}
          PROVE  i \in SeparatorsBefore(t, q, sep)
        BY <1>1, <1>4, <1>6, <1>7 DEF SeparatorsBefore
    <2> QED BY <2>1, <2>2
<1>9. e \notin SeparatorsBefore(t, p, sep)
    BY <1>1, <1>4 DEF SeparatorsBefore
<1>10. Cardinality(SeparatorsBefore(t, q, sep)) = Cardinality(SeparatorsBefore(t, p, sep)) + 1
    BY <1>8, <1>9, SeparatorsFinite, FS_AddElement
<1>11. q \in (p + 1)..End(t) /\ q - 2 = e - 1
    BY <1>1, <1>4, <1>5, <1>7
<1> QED BY <1>4, <1>6, <1>7, <1>10, <1>11 DEF e

(* Part k begins after the separator k - 1.                                  *)
LEMMA PartsBegin ==
    ASSUME NEW t \in Texts, NEW sep, NEW count \in Nat \ {0},
           NEW all, all = Cardinality(SeparatorsBefore(t, End(t), sep)), count <= all + 1,
           NEW it, it = Begins(t, sep, count)
    PROVE  /\ it[1] = 1
           /\ \A k \in 1..count : /\ it[k] \in 1..End(t)
                                  /\ Cardinality(SeparatorsBefore(t, it[k], sep)) = k - 1
           /\ \A k \in 1..(count - 1) : /\ it[k+1] \in (it[k] + 1)..End(t)
                                        /\ t[it[k+1] - 1] = sep
                                        /\ \A i \in it[k]..(it[k+1] - 2) : t[i] # sep
                                        /\ Find(t, it[k], sep) = it[k+1] - 1
<1>1. it[1] = 1 /\ \A k \in 1..(count - 1) : it[k+1] = NextBegin(t, it[k], sep)
    BY BeginsSteps
<1>2. Len(t) \in Nat /\ End(t) = Len(t) + 1 /\ all \in Nat
    BY TextProperties, SeparatorsFinite
<1> DEFINE Begun(k) == /\ it[k] \in 1..End(t)
                       /\ Cardinality(SeparatorsBefore(t, it[k], sep)) = k - 1
<1>3. ASSUME NEW k \in 1..(count - 1), Begun(k)
      PROVE  /\ Begun(k + 1)
             /\ it[k+1] \in (it[k] + 1)..End(t)
             /\ t[it[k+1] - 1] = sep
             /\ \A i \in it[k]..(it[k+1] - 2) : t[i] # sep
             /\ Find(t, it[k], sep) = it[k+1] - 1
    <2> SUFFICES ASSUME NEW p, p = it[k], NEW q, q = it[k+1]
                 PROVE  /\ q \in 1..End(t)
                        /\ Cardinality(SeparatorsBefore(t, q, sep)) = (k + 1) - 1
                        /\ q \in (p + 1)..End(t)
                        /\ t[q - 1] = sep
                        /\ \A i \in p..(q - 2) : t[i] # sep
                        /\ Find(t, p, sep) = q - 1
        OBVIOUS
    <2>1. p \in 1..End(t) /\ q = NextBegin(t, p, sep)
        BY <1>1, <1>3
    <2>2. Cardinality(SeparatorsBefore(t, p, sep)) = k - 1
        BY <1>3
    <2>3. Cardinality(SeparatorsBefore(t, p, sep)) < Cardinality(SeparatorsBefore(t, End(t), sep))
        BY <1>2, <2>2
    <2>4. /\ q \in (p + 1)..End(t)
          /\ t[q - 1] = sep
          /\ \A i \in p..(q - 2) : t[i] # sep
          /\ Find(t, p, sep) = q - 1
          /\ Cardinality(SeparatorsBefore(t, q, sep)) = Cardinality(SeparatorsBefore(t, p, sep)) + 1
        BY <2>1, <2>3, NextBeginIs
    <2>5. q \in 1..End(t) /\ (k - 1) + 1 = (k + 1) - 1
        BY <1>2, <2>1, <2>4
    <2> QED BY <2>2, <2>4, <2>5
<1> DEFINE T == {k \in Nat : k \in 1..count => Begun(k)}
<1>4. 0 \in T
    OBVIOUS
<1>5. ASSUME NEW k \in Nat, k \in T PROVE k + 1 \in T
    <2>1. CASE k = 0
        <3>1. SeparatorsBefore(t, 1, sep) = {}
            BY DEF SeparatorsBefore
        <3>2. Cardinality(SeparatorsBefore(t, 1, sep)) = 0
            BY <3>1, FS_EmptySet
        <3>3. 1 \in 1..End(t) /\ it[k + 1] = 1 /\ (k + 1) - 1 = 0
            BY <1>1, <1>2, <2>1
        <3> QED BY <3>2, <3>3
    <2>2. CASE k # 0
        <3> SUFFICES ASSUME k + 1 \in 1..count PROVE Begun(k + 1)
            OBVIOUS
        <3>1. k \in 1..(count - 1) /\ k \in 1..count
            BY <2>2
        <3> QED BY <1>3, <1>5, <3>1
    <2> QED BY <2>1, <2>2
<1>6. Nat \subseteq T
    <2> HIDE DEF T
    <2> QED BY <1>4, <1>5, InductionOnNat
<1>7. \A k \in 1..count : Begun(k)
    BY <1>6
<1>8. \A k \in 1..(count - 1) : k \in 1..count
    OBVIOUS
<1> HIDE DEF Begun
<1>9. \A k \in 1..(count - 1) : Begun(k)
    BY <1>7, <1>8
<1>10. \A k \in 1..(count - 1) : /\ it[k+1] \in (it[k] + 1)..End(t)
                                 /\ t[it[k+1] - 1] = sep
                                 /\ \A i \in it[k]..(it[k+1] - 2) : t[i] # sep
                                 /\ Find(t, it[k], sep) = it[k+1] - 1
    BY <1>3, <1>9
<1> QED BY <1>1, <1>7, <1>10 DEF Begun

-----------------------------------------------------------------------------
(* The fold of Join, over the first parts of a sequence.                     *)
JoinFold(f, n, base, s, sep) == f = [t \in SUBSET (1..n) |->
    IF t = {} THEN base
    ELSE LET i == Max(t) IN Append(f[t \ {i}], sep) \o s[i]]

LEMMA MaxIs ==
    ASSUME NEW t \in SUBSET Nat, NEW i \in t, \A j \in t : i >= j
    PROVE  Max(t) = i
<1>1. Max(t) \in t /\ \A j \in t : Max(t) >= j
    BY DEF Max
<1>2. Max(t) \in Nat /\ i \in Nat /\ Max(t) >= i /\ i >= Max(t)
    BY <1>1
<1> QED BY <1>2

LEMMA JoinFoldExists ==
    ASSUME NEW base, NEW s, NEW sep, NEW n \in Nat
    PROVE  \E f : JoinFold(f, n, base, s, sep)
<1> DEFINE T == {k \in Nat : \E f : JoinFold(f, k, base, s, sep)}
<1>1. 0 \in T
    <2> DEFINE f == [t \in SUBSET (1..0) |-> base]
    <2>1. \A t \in SUBSET (1..0) : t = {}
        OBVIOUS
    <2>2. f = [t \in SUBSET (1..0) |->
                 IF t = {} THEN base
                 ELSE LET i == Max(t) IN Append(f[t \ {i}], sep) \o s[i]]
        BY <2>1
    <2> QED BY <2>2 DEF JoinFold
<1>2. ASSUME NEW k \in Nat, k \in T PROVE k + 1 \in T
    <2>1. PICK f : JoinFold(f, k, base, s, sep)
        BY <1>2
    <2> DEFINE g == [t \in SUBSET (1..k + 1) |->
                        IF k + 1 \in t THEN Append(f[t \ {k + 1}], sep) \o s[k + 1] ELSE f[t]]
    <2>2. ASSUME NEW t \in SUBSET (1..k + 1)
          PROVE  g[t] = IF t = {} THEN base
                        ELSE LET i == Max(t) IN Append(g[t \ {i}], sep) \o s[i]
        <3>1. CASE k + 1 \in t
            <4>1. Max(t) = k + 1
                <5>1. t \in SUBSET Nat /\ \A j \in t : k + 1 >= j
                    OBVIOUS
                <5> QED BY <3>1, <5>1, MaxIs
            <4>2. t \ {k + 1} \in SUBSET (1..k + 1) /\ k + 1 \notin t \ {k + 1}
                OBVIOUS
            <4>3. g[t \ {k + 1}] = f[t \ {k + 1}]
                BY <4>2
            <4>4. g[t] = Append(f[t \ {k + 1}], sep) \o s[k + 1]
                BY <3>1
            <4> HIDE DEF g
            <4> QED BY <3>1, <4>1, <4>3, <4>4
        <3>2. CASE k + 1 \notin t
            <4>1. t \in SUBSET (1..k)
                BY <3>2
            <4>2. g[t] = f[t]
                BY <3>2
            <4>3. f[t] = IF t = {} THEN base
                         ELSE LET i == Max(t) IN Append(f[t \ {i}], sep) \o s[i]
                BY <2>1, <4>1, Zenon DEF JoinFold
            <4>4. \A i : g[t \ {i}] = f[t \ {i}]
                BY <3>2
            <4> HIDE DEF g
            <4> QED BY <4>2, <4>3, <4>4
        <3> QED BY <3>1, <3>2
    <2>3. g = [t \in SUBSET (1..k + 1) |-> g[t]]
        OBVIOUS
    <2> HIDE DEF g
    <2>4. JoinFold(g, k + 1, base, s, sep)
        BY <2>2, <2>3, Zenon DEF JoinFold
    <2> QED BY <2>4
<1>3. Nat \subseteq T
    <2> HIDE DEF T
    <2> QED BY <1>1, <1>2, InductionOnNat
<1> QED BY <1>3

JoinByPart(f, n, base, s, sep) ==
    /\ f[1..0] = base
    /\ \A k \in 1..n : f[1..k] = Append(f[1..k - 1], sep) \o s[k]

LEMMA JoinFoldSteps ==
    ASSUME NEW base, NEW s, NEW sep, NEW n \in Nat, NEW f, JoinFold(f, n, base, s, sep)
    PROVE  JoinByPart(f, n, base, s, sep)
<1>1. f[1..0] = base
    <2>1. 1..0 = {}
        OBVIOUS
    <2> QED BY <2>1 DEF JoinFold
<1>2. ASSUME NEW k \in 1..n PROVE f[1..k] = Append(f[1..k - 1], sep) \o s[k]
    <2>1. 1..k \in SUBSET (1..n) /\ 1..k # {} /\ (1..k) \ {k} = 1..k - 1
        OBVIOUS
    <2>2. Max(1..k) = k
        <3>1. 1..k \in SUBSET Nat /\ k \in 1..k /\ \A j \in 1..k : k >= j
            OBVIOUS
        <3> QED BY <3>1, MaxIs
    <2>3. f[1..k] = LET i == Max(1..k) IN Append(f[(1..k) \ {i}], sep) \o s[i]
        BY <2>1 DEF JoinFold
    <2> QED BY <2>1, <2>2, <2>3
<1> QED BY <1>1, <1>2 DEF JoinByPart

LEMMA JoinIs ==
    ASSUME NEW S, NEW parts \in Seq(S), parts # <<>>, NEW sep,
           NEW n, n = Len(parts) - 1
    PROVE  \E f : JoinFold(f, n, parts[1], Tail(parts), sep) /\ Join(parts, sep) = f[1..n]
<1>1. n \in Nat /\ DOMAIN Tail(parts) = 1..n /\ Head(parts) = parts[1]
    BY EmptySeq, HeadTailProperties, LenProperties
<1>2. Join(parts, sep) = (CHOOSE f : JoinFold(f, n, parts[1], Tail(parts), sep))[1..n]
    BY <1>1 DEF Join, FoldLeft, MapThenFoldSet, JoinFold
<1> QED BY <1>1, <1>2, JoinFoldExists

LEMMA JoinSteps ==
    ASSUME NEW S, NEW parts \in Seq(S), parts # <<>>, NEW sep, NEW n, n = Len(parts) - 1
    PROVE  \E f : JoinByPart(f, n, parts[1], Tail(parts), sep) /\ Join(parts, sep) = f[1..n]
<1>1. n \in Nat
    OBVIOUS
<1>2. \E f : JoinFold(f, n, parts[1], Tail(parts), sep) /\ Join(parts, sep) = f[1..n]
    BY <1>1, JoinIs
<1> QED BY <1>1, <1>2, JoinFoldSteps

-----------------------------------------------------------------------------
(* The parts of a list, and the text they join to.                           *)

PartEnd(t, it, count, k) == IF k = count THEN End(t) ELSE it[k+1] - 1

LEMMA PartsAre ==
    ASSUME NEW t \in Texts, NEW sep, NEW MAX \in Nat \ {0},
           NEW count, count = count_parts(t, sep, MAX),
           NEW it, it = Begins(t, sep, count),
           NEW parts, parts = split_string(t, sep, MAX)
    PROVE  /\ count \in 1..MAX
           /\ parts \in Seq(Texts)
           /\ Len(parts) = IF MAX = NO_MAXIMUM THEN count ELSE MAX
           /\ \A k \in 1..count : /\ it[k] \in 1..End(t)
                                  /\ PartEnd(t, it, count, k) \in it[k]..End(t)
                                  /\ parts[k] = View(t, it[k], PartEnd(t, it, count, k))
           /\ \A k \in (count + 1)..Len(parts) : parts[k] = <<>>
<1> DEFINE all == Cardinality(SeparatorsBefore(t, End(t), sep))
           m == IF MAX = NO_MAXIMUM THEN count ELSE MAX
           part(k) == View(t, it[k], IF k = count THEN End(t) ELSE Find(t, it[k], sep))
<1>1. all \in Nat /\ count = IF all + 1 <= MAX THEN all + 1 ELSE MAX
    BY CountParts
<1> HIDE DEF all
<1>2. count \in Nat \ {0} /\ count <= all + 1 /\ count <= MAX /\ m \in Nat /\ count <= m
    BY <1>1
<1>3. parts = [k \in 1..m |-> IF k <= count THEN part(k) ELSE <<>>]
    BY DEF split_string
<1>4. /\ Len(t) \in Nat /\ End(t) = Len(t) + 1 /\ t \in Seq(Char)
      /\ \A i \in 1..Len(t) : t[i] \in Char \ {NUL}
    BY TextProperties
<1>5. /\ \A k \in 1..count : it[k] \in 1..End(t)
      /\ \A k \in 1..(count - 1) : /\ it[k+1] \in (it[k] + 1)..End(t)
                                   /\ Find(t, it[k], sep) = it[k+1] - 1
    BY <1>2, PartsBegin DEF all
<1>6. ASSUME NEW k \in 1..count
      PROVE  /\ PartEnd(t, it, count, k) \in it[k]..End(t)
             /\ parts[k] = View(t, it[k], PartEnd(t, it, count, k))
    <2>0. k \in 1..m /\ k <= count /\ parts[k] = part(k)
        BY <1>2, <1>3
    <2>1. CASE k = count
        BY <1>4, <1>5, <2>0, <2>1 DEF PartEnd
    <2>2. CASE k # count
        <3>1. k \in 1..(count - 1)
            BY <1>2, <2>2
        <3>2. it[k+1] - 1 \in it[k]..End(t) /\ part(k) = View(t, it[k], it[k+1] - 1)
            BY <1>4, <1>5, <2>2, <3>1
        <3> QED BY <2>0, <2>2, <3>2 DEF PartEnd
    <2> QED BY <2>1, <2>2
<1>7. parts \in Seq(Texts)
    <2>1. ASSUME NEW k \in 1..m PROVE parts[k] \in Texts
        <3>1. CASE k \in 1..count
            <4> DEFINE from == it[k]
                       to == PartEnd(t, it, count, k)
            <4>1. from \in Nat \ {0} /\ to - 1 \in Int /\ to - 1 <= Len(t) /\ parts[k] = SubSeq(t, from, to - 1)
                BY <1>4, <1>5, <1>6, <3>1 DEF View
            <4> HIDE DEF from, to
            <4> QED BY <4>1, SliceOfText
        <3>2. CASE k \notin 1..count
            <4>1. parts[k] = <<>>
                BY <1>2, <1>3, <3>2
            <4> QED BY <4>1, EmptySeq DEF Texts
        <3> QED BY <3>1, <3>2
    <2>2. parts \in [1..m -> Texts]
        BY <1>3, <2>1
    <2> HIDE DEF m
    <2> QED BY <1>2, <2>2, SeqDef
<1>8. Len(parts) = m
    <2>1. DOMAIN parts = 1..m /\ DOMAIN parts = 1..Len(parts) /\ Len(parts) \in Nat
        BY <1>3, <1>7, LenProperties
    <2> HIDE DEF m
    <2> QED BY <1>2, <2>1
<1>9. \A k \in (count + 1)..Len(parts) : parts[k] = <<>>
    BY <1>2, <1>3, <1>8
<1> QED BY <1>2, <1>5, <1>6, <1>7, <1>8, <1>9

(* Only the last part may hold a separator, when there is no room for more.  *)
LEMMA SeparatorsOfPart ==
    ASSUME NEW t \in Texts, NEW from \in 1..End(t), NEW to \in from..End(t),
           \A i \in from..(to - 1) : t[i] # comma
    PROVE  Separators(View(t, from, to)) = {}
<1> DEFINE v == View(t, from, to)
<1>1. t \in Seq(Char) /\ Len(t) \in Nat /\ End(t) = Len(t) + 1
    BY TextProperties
<1>2. /\ v \in Seq(Char) /\ Len(v) = to - from
      /\ \A i \in 1..(to - from) : v[i] = t[from + i - 1]
    <2>1. IsView(v, Char, t, from, to)
        BY <1>1, ViewIs
    <2> HIDE DEF v
    <2> QED BY <2>1 DEF IsView
<1> HIDE DEF v
<1>3. DOMAIN v = 1..(to - from)
    BY <1>2, LenProperties
<1>4. ASSUME NEW i \in 1..(to - from) PROVE v[i] # comma
    <2>1. from + i - 1 \in from..(to - 1)
        BY <1>1
    <2> QED BY <1>2, <2>1
<1>5. Separators(v) = {}
    BY <1>3, <1>4 DEF Separators
<1> QED BY <1>5 DEF v

LEMMA OnlyTheLast ==
    ASSUME NEW t \in Texts, NEW MAX \in Nat \ {0},
           NEW count, count = count_parts(t, comma, MAX),
           NEW parts, parts = split_string(t, comma, MAX)
    PROVE  /\ \A k \in 1..(count - 1) : Separators(parts[k]) = {}
           /\ Separators(parts[count]) # {} => count = MAX
<1> DEFINE it == Begins(t, comma, count)
           all == Cardinality(SeparatorsBefore(t, End(t), comma))
<1>1. /\ count \in 1..MAX
      /\ \A k \in 1..count : /\ it[k] \in 1..End(t)
                             /\ PartEnd(t, it, count, k) \in it[k]..End(t)
                             /\ parts[k] = View(t, it[k], PartEnd(t, it, count, k))
    BY PartsAre
<1>2. all \in Nat /\ count = IF all + 1 <= MAX THEN all + 1 ELSE MAX
    BY CountParts
<1>3. /\ \A k \in 1..count : Cardinality(SeparatorsBefore(t, it[k], comma)) = k - 1
      /\ \A k \in 1..(count - 1) : \A i \in it[k]..(it[k+1] - 2) : t[i] # comma
    <2>1. count \in Nat \ {0} /\ count <= all + 1
        BY <1>2
    <2> QED BY <2>1, PartsBegin
<1>4. Len(t) \in Nat /\ End(t) = Len(t) + 1
    BY TextProperties
<1> HIDE DEF it, all
<1>5. ASSUME NEW k \in 1..(count - 1) PROVE Separators(parts[k]) = {}
    <2>1. k \in 1..count /\ k # count
        BY <1>1
    <2> DEFINE from == it[k]
               to == it[k+1] - 1
    <2>2. from \in 1..End(t) /\ to \in from..End(t) /\ parts[k] = View(t, from, to)
        BY <1>1, <2>1 DEF PartEnd
    <2>3. it[k+1] \in Int
        <3>1. k + 1 \in 1..count
            BY <1>1
        <3> QED BY <1>1, <1>4, <3>1
    <2>4. \A i \in from..(to - 1) : t[i] # comma
        BY <1>3, <2>3
    <2> HIDE DEF from, to
    <2> QED BY <2>2, <2>4, SeparatorsOfPart
<1>6. ASSUME count # MAX PROVE Separators(parts[count]) = {}
    <2> DEFINE from == it[count]
    <2>1. count = all + 1 /\ count \in 1..count
        BY <1>1, <1>2, <1>6
    <2>2. from \in 1..End(t) /\ End(t) \in from..End(t) /\ parts[count] = View(t, from, End(t))
        BY <1>1, <2>1 DEF PartEnd
    <2>3. Cardinality(SeparatorsBefore(t, from, comma)) = all
        BY <1>2, <1>3, <2>1
    <2> HIDE DEF from
    <2>4. SeparatorsBefore(t, from, comma) \subseteq SeparatorsBefore(t, End(t), comma)
        BY <1>4, <2>2 DEF SeparatorsBefore
    <2>5. IsFiniteSet(SeparatorsBefore(t, End(t), comma))
        BY <1>4, SeparatorsFinite
    <2>6. SeparatorsBefore(t, from, comma) = SeparatorsBefore(t, End(t), comma)
        BY <2>3, <2>4, <2>5, FS_Subset DEF all
    <2>7. \A i \in from..(End(t) - 1) : t[i] # comma
        BY <1>4, <2>2, <2>6 DEF SeparatorsBefore
    <2> QED BY <2>2, <2>7, SeparatorsOfPart
<1> QED BY <1>5, <1>6

(* A text up to a separator, the separator and the part behind it.           *)
LEMMA JoinNext ==
    ASSUME NEW t \in Texts, NEW q \in 2..End(t), NEW to \in q..End(t), t[q - 1] = comma
    PROVE  Append(SubSeq(t, 1, q - 2), comma) \o View(t, q, to) = SubSeq(t, 1, to - 1)
<1>1. t \in Seq(Char) /\ Len(t) \in Nat /\ End(t) = Len(t) + 1
    BY TextProperties
<1>2. Append(SubSeq(t, 1, q - 2), comma) = SubSeq(t, 1, q - 1)
    <2> DEFINE a == SubSeq(t, 1, q - 2)
               b == SubSeq(t, 1, q - 1)
    <2>1. \A i \in 1..(q - 1) : t[i] \in Char
        BY <1>1, ElementOfSeq
    <2>2. /\ a \in Seq(Char) /\ Len(a) = IF 1 <= q - 2 THEN (q - 2) - 1 + 1 ELSE 0
          /\ \A i \in 1..((q - 2) - 1 + 1) : a[i] = t[1 + i - 1]
        <3>1. \A i \in 1..(q - 2) : t[i] \in Char
            BY <1>1, <2>1
        <3>2. 1 \in Int /\ q - 2 \in Int
            BY <1>1
        <3> QED BY <3>1, <3>2, SubSeqProperties
    <2>3. /\ b \in Seq(Char) /\ Len(b) = IF 1 <= q - 1 THEN (q - 1) - 1 + 1 ELSE 0
          /\ \A i \in 1..((q - 1) - 1 + 1) : b[i] = t[1 + i - 1]
        <3>1. 1 \in Int /\ q - 1 \in Int
            BY <1>1
        <3> QED BY <2>1, <3>1, SubSeqProperties
    <2> HIDE DEF a, b
    <2>4. Len(a) = q - 2 /\ Len(b) = q - 1
        BY <1>1, <2>2, <2>3
    <2> DEFINE c == Append(a, comma)
    <2>5. /\ c \in Seq(Char) /\ Len(c) = Len(a) + 1
          /\ \A i \in 1..Len(a) : c[i] = a[i]
          /\ c[Len(a) + 1] = comma
        <3>1. comma \in Char
            BY DEF comma, Char
        <3> QED BY <2>2, <3>1, AppendProperties
    <2> HIDE DEF c
    <2>6. ASSUME NEW i \in 1..Len(c) PROVE c[i] = b[i]
        <3>1. i \in 1..(q - 1) /\ b[i] = t[i]
            BY <1>1, <2>3, <2>4, <2>5
        <3>2. CASE i = q - 1
            BY <1>1, <2>4, <2>5, <3>1, <3>2
        <3>3. CASE i # q - 1
            <4>1. i \in 1..(q - 2) /\ 1 + i - 1 = i
                BY <1>1, <3>1, <3>3
            <4> QED BY <1>1, <2>2, <2>4, <2>5, <3>1, <4>1
        <3> QED BY <3>2, <3>3
    <2>7. Len(c) = Len(b)
        BY <1>1, <2>4, <2>5
    <2>8. c = b
        BY <2>3, <2>5, <2>6, <2>7, SeqEqual
    <2> QED BY <2>8 DEF a, b, c
<1>3. SubSeq(t, 1, q - 1) \o SubSeq(t, (q - 1) + 1, to - 1) = SubSeq(t, 1, to - 1)
    <2>1. 1 \in 1..Len(t) + 1 /\ q - 1 \in 1 - 1..Len(t) /\ to - 1 \in q - 1..Len(t)
        BY <1>1
    <2> QED BY <1>1, <2>1, ConcatAdjacentSubSeq
<1>4. (q - 1) + 1 = q
    BY <1>1
<1> QED BY <1>2, <1>3, <1>4 DEF View

LEMMA PartsJoinAgain ==
    ASSUME NEW t \in Texts, NEW MAX \in Nat \ {0},
           NEW count, count = count_parts(t, comma, MAX),
           NEW parts, parts = split_string(t, comma, MAX),
           NEW used \in Seq(Texts), Len(used) = count, \A k \in 1..count : used[k] = parts[k]
    PROVE  Join(used, comma) = t
<1> DEFINE it == Begins(t, comma, count)
           all == Cardinality(SeparatorsBefore(t, End(t), comma))
           to(k) == PartEnd(t, it, count, k)
           n == count - 1
<1>1. /\ count \in 1..MAX
      /\ \A k \in 1..count : /\ it[k] \in 1..End(t)
                             /\ to(k) \in it[k]..End(t)
                             /\ parts[k] = View(t, it[k], to(k))
    BY PartsAre
<1>2. all \in Nat /\ count = IF all + 1 <= MAX THEN all + 1 ELSE MAX
    BY CountParts
<1>3. /\ it[1] = 1
      /\ \A k \in 1..(count - 1) : it[k+1] \in (it[k] + 1)..End(t) /\ t[it[k+1] - 1] = comma
    <2>1. count \in Nat \ {0} /\ count <= all + 1
        BY <1>2
    <2> QED BY <2>1, PartsBegin
<1>4. t \in Seq(Char) /\ Len(t) \in Nat /\ End(t) = Len(t) + 1
    BY TextProperties
<1> HIDE DEF it, all
<1>5. count \in Nat \ {0} /\ used # <<>> /\ n \in Nat /\ n = Len(used) - 1 /\ n = count - 1
    BY <1>1
<1> HIDE DEF n
<1>6. PICK f : JoinByPart(f, n, used[1], Tail(used), comma) /\ Join(used, comma) = f[1..n]
    BY <1>5, JoinSteps
<1>7. /\ f[1..0] = used[1]
      /\ \A k \in 1..n : f[1..k] = Append(f[1..k - 1], comma) \o Tail(used)[k]
    BY <1>6, Zenon DEF JoinByPart
<1>8. \A k \in 1..n : Tail(used)[k] = used[k+1]
    BY <1>5, HeadTailProperties
<1> DEFINE T == {k \in Nat : k <= n => f[1..k] = SubSeq(t, 1, to(k + 1) - 1)}
<1>9. 0 \in T
    <2>1. 0 + 1 = 1 /\ 1 \in 1..count
        BY <1>5
    <2>2. used[1] = View(t, 1, to(1))
        BY <1>1, <1>3, <2>1
    <2>3. f[1..0] = SubSeq(t, 1, to(0 + 1) - 1)
        BY <1>7, <2>1, <2>2 DEF View
    <2> QED BY <2>3
<1>10. ASSUME NEW k \in Nat, k \in T PROVE k + 1 \in T
    <2> SUFFICES ASSUME k + 1 <= n PROVE f[1..k + 1] = SubSeq(t, 1, to((k + 1) + 1) - 1)
        OBVIOUS
    <2>1. /\ k + 1 \in 1..n /\ (k + 1) - 1 = k /\ k + 1 \in 1..(count - 1) /\ k + 1 # count
          /\ k + 1 \in 1..count /\ (k + 1) + 1 \in 1..count
        BY <1>5
    <2>2. f[1..k] = SubSeq(t, 1, to(k + 1) - 1)
        BY <1>5, <1>10
    <2> DEFINE q == it[(k + 1) + 1]
               e == to((k + 1) + 1)
    <2>3. q \in (it[k+1] + 1)..End(t) /\ t[q - 1] = comma /\ it[k+1] \in 1..End(t)
        BY <1>1, <1>3, <2>1
    <2>4. to(k + 1) = q - 1
        BY <2>1 DEF PartEnd
    <2>5. e \in q..End(t) /\ parts[(k + 1) + 1] = View(t, q, e)
        BY <1>1, <2>1
    <2>6. f[1..k + 1] = Append(f[1..k], comma) \o used[(k + 1) + 1]
        <3>1. ASSUME NEW m \in 1..n
              PROVE  f[1..m] = Append(f[1..m - 1], comma) \o used[m + 1]
            <4>1. f[1..m] = Append(f[1..m - 1], comma) \o Tail(used)[m]
                BY <1>7, Zenon
            <4>2. Tail(used)[m] = used[m + 1]
                BY <1>8, Zenon
            <4> QED BY <4>1, <4>2, Zenon
        <3>2. f[1..k + 1] = Append(f[1..(k + 1) - 1], comma) \o used[(k + 1) + 1]
            BY <2>1, <3>1, Zenon
        <3> QED BY <2>1, <3>2, Zenon
    <2>7. used[(k + 1) + 1] = View(t, q, e)
        BY <2>1, <2>5
    <2> HIDE DEF q, e
    <2>8. q \in 2..End(t) /\ (q - 1) - 1 = q - 2
        BY <1>4, <2>3
    <2>9. f[1..k] = SubSeq(t, 1, q - 2)
        BY <2>2, <2>4, <2>8
    <2>10. Append(SubSeq(t, 1, q - 2), comma) \o View(t, q, e) = SubSeq(t, 1, e - 1)
        <3>1. e \in q..End(t) /\ t[q - 1] = comma
            BY <2>3, <2>5
        <3> HIDE DEF to
        <3> QED BY <2>8, <3>1, JoinNext
    <2>11. f[1..k + 1] = SubSeq(t, 1, e - 1)
        BY <2>6, <2>7, <2>9, <2>10
    <2> QED BY <2>11 DEF e
<1>11. Nat \subseteq T
    <2> HIDE DEF T
    <2> QED BY <1>9, <1>10, InductionOnNat
<1>12. f[1..n] = SubSeq(t, 1, to(n + 1) - 1)
    BY <1>5, <1>11
<1>13. to(n + 1) - 1 = Len(t)
    <2>1. n + 1 = count
        BY <1>5
    <2>2. to(count) = End(t)
        BY DEF PartEnd
    <2> QED BY <1>4, <2>1, <2>2
<1>14. f[1..n] = t
    BY <1>4, <1>12, <1>13, SubSeqFull
<1> QED BY <1>6, <1>14

LEMMA FirstParts ==
    ASSUME NEW parts \in Seq(Texts), NEW count \in 1..Len(parts)
    PROVE  /\ SubSeq(parts, 1, count) \in Seq(Texts)
           /\ Len(SubSeq(parts, 1, count)) = count
           /\ \A k \in 1..count : SubSeq(parts, 1, count)[k] = parts[k]
<1>1. \A i \in 1..count : parts[i] \in Texts
    BY ElementOfSeq, LenProperties
<1>2. /\ SubSeq(parts, 1, count) \in Seq(Texts)
      /\ Len(SubSeq(parts, 1, count)) = IF 1 <= count THEN count - 1 + 1 ELSE 0
      /\ \A i \in 1..(count - 1 + 1) : SubSeq(parts, 1, count)[i] = parts[1 + i - 1]
    <2>1. 1 \in Int /\ count \in Int
        OBVIOUS
    <2> QED BY <1>1, <2>1, SubSeqProperties
<1>3. count - 1 + 1 = count /\ 1 <= count /\ \A i \in 1..count : 1 + i - 1 = i
    OBVIOUS
<1> QED BY <1>2, <1>3

(* Of a literal: the same parts, in an array of as many.                     *)
LEMMA Splited ==
    ASSUME NEW t \in Texts, NEW MAX \in Nat \ {0},
           NEW count, count = count_parts(t, comma, MAX),
           NEW parts, parts = split_string(t, comma, MAX)
    PROVE  splited(t, comma, MAX) = SubSeq(parts, 1, count)
<1> DEFINE used == SubSeq(parts, 1, count)
           all == Cardinality(SeparatorsBefore(t, End(t), comma))
           other == split_string(t, comma, count)
           it == Begins(t, comma, count)
<1>1. splited(t, comma, MAX) = other
    BY ViewOfLiteral DEF splited
<1>2. used \in Seq(Texts) /\ Len(used) = count /\ \A k \in 1..count : used[k] = parts[k]
    <2>1. count \in 1..MAX /\ parts \in Seq(Texts)
          /\ Len(parts) = IF MAX = NO_MAXIMUM THEN count ELSE MAX
        BY PartsAre
    <2>2. count \in 1..Len(parts)
        BY <2>1
    <2> QED BY <2>1, <2>2, FirstParts
<1>3. all \in Nat /\ count = IF all + 1 <= MAX THEN all + 1 ELSE MAX
    BY CountParts
<1>4. count \in Nat \ {0}
    BY <1>3
<1>5. count_parts(t, comma, count) = count
    <2>1. count_parts(t, comma, count) = IF all + 1 <= count THEN all + 1 ELSE count
        BY <1>4, CountParts
    <2> HIDE DEF all
    <2> QED BY <1>3, <2>1
<1> HIDE DEF all
<1>6. \A k \in 1..count : parts[k] = View(t, it[k], PartEnd(t, it, count, k))
    BY PartsAre
<1>7. /\ other \in Seq(Texts) /\ Len(other) = count
      /\ \A k \in 1..count : other[k] = View(t, it[k], PartEnd(t, it, count, k))
    BY <1>4, <1>5, PartsAre
<1> HIDE DEF used, other, it
<1>8. other = used
    BY <1>2, <1>6, <1>7, SeqEqual
<1> QED BY <1>1, <1>8 DEF used

LEMMA Parting ==
    ASSUME text \in Texts, LENGTH \in Nat, NO_MAXIMUM \in Nat \ {0}
    PROVE  PartsJoin
<1> SUFFICES ASSUME NEW MAX \in Nat \ {0}
             PROVE  LET parts == split_string(text, comma, MAX)
                        count == count_parts(text, comma, MAX)
                        used  == SubSeq(parts, 1, count)
                    IN /\ Join(used, comma) = text
                       /\ \A k \in 1..(count - 1) : Separators(parts[k]) = {}
                       /\ Separators(parts[count]) # {} => count = MAX
                       /\ \A k \in (count + 1)..Len(parts) : parts[k] = <<>>
                       /\ splited(text, comma, MAX) = used
    <2>1. \A MAX \in 1..LENGTH \union {NO_MAXIMUM} : MAX \in Nat \ {0}
        OBVIOUS
    <2> QED BY <2>1, Zenon DEF PartsJoin
<1> DEFINE parts == split_string(text, comma, MAX)
           count == count_parts(text, comma, MAX)
           used  == SubSeq(parts, 1, count)
<1>1. /\ count \in 1..MAX /\ parts \in Seq(Texts)
      /\ Len(parts) = IF MAX = NO_MAXIMUM THEN count ELSE MAX
      /\ \A k \in (count + 1)..Len(parts) : parts[k] = <<>>
    BY PartsAre
<1>2. used \in Seq(Texts) /\ Len(used) = count /\ \A k \in 1..count : used[k] = parts[k]
    <2>1. count \in 1..Len(parts)
        BY <1>1
    <2> QED BY <1>1, <2>1, FirstParts
<1>3. Join(used, comma) = text
    <2> HIDE DEF used
    <2> QED BY <1>2, PartsJoinAgain
<1>4. /\ \A k \in 1..(count - 1) : Separators(parts[k]) = {}
      /\ Separators(parts[count]) # {} => count = MAX
    BY OnlyTheLast
<1>5. splited(text, comma, MAX) = used
    BY Splited
<1> QED BY <1>1, <1>3, <1>4, <1>5

(* SplitsBack: the parts of a list join to the list again, whatever the      *)
(* maximum, and slices of a literal are those of its text.                   *)
THEOREM ListsSplit == Spec => []SplitsBack
<1>1. ParsingTypeOK => SplitsBack
    <2>1. LENGTH \in Nat /\ NO_MAXIMUM \in Nat \ {0}
        BY ParsingAssumption
    <2> QED BY <2>1, TextIsText, Parting, Slicing DEF SplitsBack
<1> QED BY <1>1, ParsingInit, ParsingNext, PTL DEF Spec
=============================================================================
