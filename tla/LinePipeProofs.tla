--------------------------- MODULE LinePipeProofs ---------------------------
(* Proofs about the line buffer and about the pipe as a line stream that is  *)
(* built on it, for any bytes, any number of writers, any scripts and any    *)
(* sizes of the storage, the kernel pipe and the atomic write.               *)
EXTENDS LinePipe, LineBuffer, SequenceTheorems, WellFoundedInduction, TLAPS

(* LineBuffer: its type, the safety of its index arithmetic, and that it     *)
(* implements the queue of lines of LineQueue.                               *)

(* Every set of natural numbers that is not empty has a least member.        *)
LEMMA LeastMember ==
    ASSUME NEW T \in SUBSET Nat, T # {}
    PROVE  \E i \in T : \A j \in T : i <= j
<1> DEFINE R == {ss \in Nat \X Nat : ss[1] < ss[2]}
<1>1. IsWellFoundedOn(R, Nat)
    BY NatLessThanWellFounded DEF OpToRel
<1>2. PICK i \in T : \A j \in T : ~(<<j, i>> \in R)
    <2> HIDE DEF R
    <2> QED BY <1>1, WFMin
<1>3. \A j \in T : ~(j < i)
    BY <1>2
<1> QED BY <1>3

(* Induction over the natural numbers and over sequences, with a set in the  *)
(* place of the predicate.                                                   *)
LEMMA InductionOnNat ==
    ASSUME NEW T, 0 \in T, \A n \in Nat : n \in T => n + 1 \in T
    PROVE  Nat \subseteq T
<1> SUFFICES ASSUME Nat \ T # {} PROVE FALSE
    OBVIOUS
<1>1. PICK n \in Nat \ T : \A m \in Nat \ T : n <= m
    BY LeastMember
<1>2. n # 0 /\ n - 1 \in Nat /\ n - 1 \in T
    BY <1>1
<1> QED BY <1>1, <1>2

LEMMA InductionOnSeq ==
    ASSUME NEW S, NEW T, <<>> \in T, \A s \in Seq(S) : s \in T => \A x \in S : Append(s, x) \in T
    PROVE  Seq(S) \subseteq T
<1> DEFINE L == {n \in Nat : \A s \in Seq(S) : Len(s) = n => s \in T}
<1>1. 0 \in L
    BY EmptySeq
<1>2. ASSUME NEW n \in Nat, n \in L PROVE n + 1 \in L
    <2> SUFFICES ASSUME NEW s \in Seq(S), Len(s) = n + 1 PROVE s \in T
        OBVIOUS
    <2>1. PICK r \in Seq(S), x \in S : s = Append(r, x)
        BY EmptySeq, SequenceEmptyOrAppend
    <2>2. Len(r) \in Nat /\ Len(s) = Len(r) + 1
        BY <2>1, AppendProperties, LenProperties
    <2>3. r \in T
        BY <1>2, <2>2
    <2> QED BY <2>1, <2>3
<1>3. Nat \subseteq L
    <2> HIDE DEF L
    <2> QED BY <1>1, <1>2, InductionOnNat
<1> QED BY <1>3, LenProperties

-----------------------------------------------------------------------------
(* WithoutNuls on the empty sequence, on one more byte and on a              *)
(* concatenation.                                                            *)
Keeps(f, s) == f = [n \in 0..Len(s) |->
                      IF n = 0 THEN <<>>
                      ELSE IF s[n] # NUL THEN Append(f[n - 1], s[n]) ELSE f[n - 1]]

LEMMA KeepsStep ==
    ASSUME NEW f, NEW s \in Seq(Byte), Keeps(f, s), NEW n \in 1..Len(s)
    PROVE  f[n] = IF s[n] # NUL THEN Append(f[n - 1], s[n]) ELSE f[n - 1]
<1>1. n \in 0..Len(s) /\ n # 0
    BY LenProperties
<1> QED BY <1>1 DEF Keeps

LEMMA KeepsExists == \A s \in Seq(Byte) : \E f : Keeps(f, s)
<1> DEFINE T == {s \in Seq(Byte) : \E f : Keeps(f, s)}
<1>1. <<>> \in T
    <2>1. <<>> \in Seq(Byte) /\ Len(<<>>) = 0
        BY EmptySeq
    <2>2. Keeps([n \in 0..0 |-> <<>>], <<>>)
        BY <2>1 DEF Keeps
    <2> QED BY <2>1, <2>2
<1>2. ASSUME NEW s \in Seq(Byte), s \in T, NEW x \in Byte PROVE Append(s, x) \in T
    <2> DEFINE m == Len(s) + 1
               t == Append(s, x)
    <2>1. PICK f : Keeps(f, s)
        BY <1>2
    <2>2. /\ t \in Seq(Byte) /\ Len(t) = m /\ m \in Nat /\ Len(s) \in Nat
          /\ \A n \in 1..Len(s) : t[n] = s[n]
        BY AppendProperties, LenProperties
    <2> DEFINE step(h, n) == IF n = 0 THEN <<>>
                             ELSE IF t[n] # NUL THEN Append(h[n - 1], t[n]) ELSE h[n - 1]
               g == [n \in 0..m |-> IF n = m THEN step(f, m) ELSE f[n]]
    <2>3. ASSUME NEW n \in 0..m PROVE g[n] = step(g, n)
        <3>1. CASE n = m
            <4>1. g[m - 1] = f[m - 1] /\ m # 0
                BY <2>2
            <4> QED BY <2>2, <3>1, <4>1
        <3>2. CASE n # m /\ n # 0
            <4>1. /\ n \in 0..Len(s) /\ n \in 1..Len(s) /\ n - 1 \in 0..m /\ n - 1 # m
                BY <2>2, <3>2
            <4>2. f[n] = IF s[n] # NUL THEN Append(f[n - 1], s[n]) ELSE f[n - 1]
                BY <2>1, <3>2, <4>1 DEF Keeps
            <4>3. g[n] = f[n] /\ g[n - 1] = f[n - 1] /\ t[n] = s[n]
                BY <2>2, <3>2, <4>1
            <4> QED BY <3>2, <4>2, <4>3
        <3>3. CASE n # m /\ n = 0
            <4>1. 0 \in 0..Len(s)
                BY <2>2
            <4>2. f[0] = <<>>
                BY <2>1, <4>1 DEF Keeps
            <4> QED BY <3>3, <4>2
        <3> QED BY <3>1, <3>2, <3>3
    <2>4. Keeps(g, t)
        <3>1. g = [n \in 0..m |-> g[n]]
            OBVIOUS
        <3>2. g = [n \in 0..m |-> step(g, n)]
            <4> HIDE DEF g
            <4> QED BY <2>3, <3>1
        <3> HIDE DEF g
        <3> QED BY <2>2, <3>2 DEF Keeps
    <2> QED BY <2>2, <2>4
<1>3. Seq(Byte) \subseteq T
    <2> HIDE DEF T
    <2> QED BY <1>1, <1>2, InductionOnSeq
<1> QED BY <1>3

LEMMA WithoutNulsIs ==
    ASSUME NEW s \in Seq(Byte)
    PROVE  \E f : Keeps(f, s) /\ WithoutNuls(s) = f[Len(s)]
BY KeepsExists DEF WithoutNuls, Keeps

LEMMA WithoutNulsEmpty == WithoutNuls(<<>>) = <<>>
<1>1. <<>> \in Seq(Byte) /\ Len(<<>>) = 0
    BY EmptySeq
<1>2. PICK f : Keeps(f, <<>>) /\ WithoutNuls(<<>>) = f[0]
    BY <1>1, WithoutNulsIs
<1> QED BY <1>1, <1>2 DEF Keeps

LEMMA KeepsPrefix ==
    ASSUME NEW s \in Seq(Byte), NEW t \in Seq(Byte), Len(s) <= Len(t),
           \A n \in 1..Len(s) : t[n] = s[n],
           NEW f, Keeps(f, s), NEW g, Keeps(g, t)
    PROVE  f[Len(s)] = g[Len(s)]
<1>1. Len(s) \in Nat /\ Len(t) \in Nat
    BY LenProperties
<1> DEFINE T == {n \in Nat : n <= Len(s) => f[n] = g[n]}
<1>2. 0 \in T
    <2>1. 0 \in 0..Len(s) /\ 0 \in 0..Len(t)
        BY <1>1
    <2>2. f[0] = <<>> /\ g[0] = <<>>
        BY <2>1 DEF Keeps
    <2> QED BY <2>2
<1>3. ASSUME NEW n \in Nat, n \in T PROVE n + 1 \in T
    <2> SUFFICES ASSUME n + 1 <= Len(s) PROVE f[n + 1] = g[n + 1]
        OBVIOUS
    <2>1. n + 1 \in 1..Len(s) /\ n + 1 \in 1..Len(t) /\ n + 1 - 1 = n /\ f[n] = g[n]
        BY <1>1, <1>3
    <2>2. f[n + 1] = IF s[n + 1] # NUL THEN Append(f[n], s[n + 1]) ELSE f[n]
        BY <2>1, KeepsStep
    <2>3. g[n + 1] = IF t[n + 1] # NUL THEN Append(g[n], t[n + 1]) ELSE g[n]
        BY <2>1, KeepsStep
    <2> QED BY <2>1, <2>2, <2>3
<1>4. Nat \subseteq T
    <2> HIDE DEF T
    <2> QED BY <1>2, <1>3, InductionOnNat
<1> QED BY <1>1, <1>4

LEMMA WithoutNulsAppend ==
    ASSUME NEW s \in Seq(Byte), NEW x \in Byte
    PROVE  WithoutNuls(Append(s, x)) =
              IF x # NUL THEN Append(WithoutNuls(s), x) ELSE WithoutNuls(s)
<1>1. PICK t \in Seq(Byte) : t = Append(s, x)
    BY AppendProperties
<1>2. /\ Len(s) \in Nat /\ Len(t) = Len(s) + 1 /\ t[Len(t)] = x
      /\ \A n \in 1..Len(s) : t[n] = s[n]
    BY <1>1, AppendProperties, LenProperties
<1>3. PICK f : Keeps(f, s) /\ WithoutNuls(s) = f[Len(s)]
    BY WithoutNulsIs
<1>4. PICK g : Keeps(g, t) /\ WithoutNuls(t) = g[Len(t)]
    BY WithoutNulsIs
<1>5. f[Len(s)] = g[Len(s)]
    BY <1>2, <1>3, <1>4, KeepsPrefix
<1>6. Len(t) \in 1..Len(t) /\ Len(t) - 1 = Len(s)
    BY <1>2
<1>7. g[Len(t)] = IF t[Len(t)] # NUL THEN Append(g[Len(t) - 1], t[Len(t)]) ELSE g[Len(t) - 1]
    BY <1>4, <1>6, KeepsStep
<1> QED BY <1>1, <1>2, <1>3, <1>4, <1>5, <1>6, <1>7

LEMMA WithoutNulsType == \A s \in Seq(Byte) : WithoutNuls(s) \in Seq(Byte)
<1> DEFINE T == {s \in Seq(Byte) : WithoutNuls(s) \in Seq(Byte)}
<1>1. <<>> \in T
    BY EmptySeq, WithoutNulsEmpty
<1>2. ASSUME NEW s \in Seq(Byte), s \in T, NEW x \in Byte PROVE Append(s, x) \in T
    BY <1>2, WithoutNulsAppend, AppendProperties
<1>3. Seq(Byte) \subseteq T
    <2> HIDE DEF T
    <2> QED BY <1>1, <1>2, InductionOnSeq
<1> QED BY <1>3

LEMMA AppendOfConcat ==
    ASSUME NEW s \in Seq(Byte), NEW t \in Seq(Byte), NEW x \in Byte
    PROVE  Append(s \o t, x) = s \o Append(t, x)
<1>1. s \o t \in Seq(Byte) /\ <<x>> \in Seq(Byte)
    BY ConcatProperties
<1>2. Append(s \o t, x) = (s \o t) \o <<x>> /\ Append(t, x) = t \o <<x>>
    BY <1>1, AppendIsConcat
<1> QED BY <1>1, <1>2, ConcatAssociative

LEMMA WithoutNulsConcat ==
    ASSUME NEW s \in Seq(Byte), NEW t \in Seq(Byte)
    PROVE  WithoutNuls(s \o t) = WithoutNuls(s) \o WithoutNuls(t)
<1> DEFINE T == {u \in Seq(Byte) : WithoutNuls(s \o u) = WithoutNuls(s) \o WithoutNuls(u)}
<1>1. <<>> \in T
    BY EmptySeq, ConcatEmptySeq, WithoutNulsEmpty, WithoutNulsType
<1>2. ASSUME NEW u \in Seq(Byte), u \in T, NEW x \in Byte PROVE Append(u, x) \in T
    <2>1. s \o u \in Seq(Byte) /\ Append(u, x) \in Seq(Byte)
        BY ConcatProperties, AppendProperties
    <2>2. WithoutNuls(s) \in Seq(Byte) /\ WithoutNuls(u) \in Seq(Byte)
        BY WithoutNulsType
    <2>3. WithoutNuls(s \o Append(u, x)) = WithoutNuls(Append(s \o u, x))
        BY AppendOfConcat
    <2>4. WithoutNuls(Append(s \o u, x)) =
             IF x # NUL THEN Append(WithoutNuls(s \o u), x) ELSE WithoutNuls(s \o u)
        BY <2>1, WithoutNulsAppend
    <2>5. WithoutNuls(Append(u, x)) =
             IF x # NUL THEN Append(WithoutNuls(u), x) ELSE WithoutNuls(u)
        BY WithoutNulsAppend
    <2>6. Append(WithoutNuls(s) \o WithoutNuls(u), x) = WithoutNuls(s) \o Append(WithoutNuls(u), x)
        BY <2>2, AppendOfConcat
    <2> QED BY <1>2, <2>1, <2>3, <2>4, <2>5, <2>6
<1>3. Seq(Byte) \subseteq T
    <2> HIDE DEF T
    <2> QED BY <1>1, <1>2, InductionOnSeq
<1> QED BY <1>3

-----------------------------------------------------------------------------
(* The search of unload_line stops at the first newline, or at used_end.     *)
LEMMA FindNLProperties ==
    ASSUME BTypeOK
    PROVE  /\ FindNL \in used_begin..used_end
           /\ FindNL = used_end \/ data[FindNL] = NL
           /\ \A j \in used_begin..FindNL - 1 : data[j] # NL
<1> DEFINE Stops == {i \in used_begin..used_end : i = used_end \/ data[i] = NL}
<1>1. /\ used_begin \in Nat /\ used_end \in Nat /\ used_begin <= used_end
    BY BufferAssumption DEF BTypeOK
<1>2. Stops \in SUBSET Nat /\ used_end \in Stops
    BY <1>1
<1>3. PICK i \in Stops : \A m \in Stops : i <= m
    BY <1>2, LeastMember
<1>4. \A j \in used_begin..i - 1 : data[j] # NL
    BY <1>1, <1>3
<1>5. \E k \in used_begin..used_end :
         /\ k = used_end \/ data[k] = NL
         /\ \A j \in used_begin..k - 1 : data[j] # NL
    BY <1>3, <1>4
<1> QED BY <1>5 DEF FindNL

(* unload_line consumes at least one byte and none behind the range.         *)
LEMMA ConsumeEndInRange ==
    ASSUME BTypeOK, has_data
    PROVE  consume_end \in used_begin + 1..used_end
<1>1. /\ used_begin \in Nat /\ used_end \in Nat /\ used_begin < used_end
    BY BufferAssumption DEF BTypeOK, has_data
<1> QED BY <1>1, FindNLProperties DEF consume_end, valid_equal

LEMMA LoadType ==
    ASSUME BTypeOK, NEW read \in Seq(Byte), load(read)
    PROVE  BTypeOK'
<1>1. Len(read) \in Nat /\ \A k \in 1..Len(read) : read[k] \in Byte
    BY LenProperties, ElementOfSeq
<1>2. /\ used_begin \in Nat /\ used_end \in Nat /\ used_begin <= used_end
      /\ used_end <= BUFFER_SIZE /\ BUFFER_SIZE \in Nat
    BY BufferAssumption DEF BTypeOK
<1>3. data' \in [0..BUFFER_SIZE - 1 -> Byte]
    BY <1>1, <1>2 DEF BTypeOK, load
<1>4. used_end' \in used_begin..BUFFER_SIZE /\ used_begin' = used_begin
    BY <1>1, <1>2 DEF load, free
<1> QED BY <1>2, <1>3, <1>4 DEF BTypeOK

LEMMA UnloadType ==
    ASSUME BTypeOK, unload_line
    PROVE  BTypeOK'
<1>1. consume_end \in used_begin + 1..used_end
    BY ConsumeEndInRange DEF unload_line
<1> QED BY <1>1, BufferAssumption DEF BTypeOK, unload_line

(* A stretch of the storage, as a sequence.                                  *)
LEMMA Slice ==
    ASSUME NEW d, NEW b \in Nat, NEW n \in Nat,
           \A k \in 1..n : d[b + k - 1] \in Byte
    PROVE  LET s == [k \in 1..n |-> d[b + k - 1]]
           IN  /\ s \in Seq(Byte)
               /\ Len(s) = n
               /\ \A k \in 1..n : s[k] = d[b + k - 1]
<1> DEFINE s == [k \in 1..n |-> d[b + k - 1]]
<1>1. s \in [1..n -> Byte]
    OBVIOUS
<1>2. s \in Seq(Byte) /\ Len(s) = n
    BY <1>1, SeqDef, LenProperties
<1> QED BY <1>2

LEMMA RangeSlice ==
    ASSUME NEW d \in [0..BUFFER_SIZE - 1 -> Byte],
           NEW b \in 0..BUFFER_SIZE, NEW e \in 0..BUFFER_SIZE, b <= e
    PROVE  LET s == [k \in 1..e - b |-> d[b + k - 1]]
           IN  /\ s \in Seq(Byte)
               /\ Len(s) = e - b
               /\ \A k \in 1..e - b : s[k] = d[b + k - 1]
<1>1. b \in Nat /\ e - b \in Nat
    BY BufferAssumption
<1>2. \A k \in 1..e - b : d[b + k - 1] \in Byte
    BY BufferAssumption
<1> QED BY <1>1, <1>2, Slice

LEMMA PrefixOfConcat ==
    ASSUME NEW s \in Seq(Byte), NEW t \in Seq(Byte)
    PROVE  SubSeq(s \o t, 1, Len(s)) = s
<1>1. /\ Len(s) \in Nat /\ Len(t) \in Nat
      /\ \A i \in 1..Len(s) : s[i] \in Byte /\ (s \o t)[i] = s[i]
    BY LenProperties, ElementOfSeq, ConcatProperties
<1>2. /\ SubSeq(s \o t, 1, Len(s)) \in Seq(Byte)
      /\ Len(SubSeq(s \o t, 1, Len(s))) = Len(s)
      /\ \A i \in 1..Len(s) : SubSeq(s \o t, 1, Len(s))[i] = s[i]
    BY <1>1, SubSeqProperties
<1> QED BY <1>1, <1>2, SeqEqual

LEMMA UsedRange ==
    ASSUME BTypeOK
    PROVE  /\ used_begin \in Nat /\ used_end \in Nat /\ BUFFER_SIZE \in Nat
           /\ used_begin <= used_end /\ used_end <= BUFFER_SIZE
           /\ \A i \in used_begin..used_end - 1 : data[i] \in Byte
BY BufferAssumption DEF BTypeOK

LEMMA ContentType ==
    ASSUME BTypeOK
    PROVE  /\ Content \in Seq(Byte)
           /\ Len(Content) = used_end - used_begin
           /\ \A k \in 1..used_end - used_begin : Content[k] = data[used_begin + k - 1]
<1>1. /\ used_begin \in Nat /\ used_end - used_begin \in Nat
      /\ \A k \in 1..used_end - used_begin : data[used_begin + k - 1] \in Byte
    BY UsedRange
<1>2. Content = [k \in 1..used_end - used_begin |-> data[used_begin + k - 1]]
    BY DEF Content, loaded
<1> QED BY <1>1, <1>2, Slice

LEMMA ContentTypeNext ==
    ASSUME BTypeOK'
    PROVE  /\ Content' \in Seq(Byte)
           /\ Len(Content') = used_end' - used_begin'
           /\ \A k \in 1..used_end' - used_begin' : Content'[k] = data'[used_begin' + k - 1]
<1>1. Content' = [k \in 1..used_end' - used_begin' |-> data'[used_begin' + k - 1]]
    BY DEF Content, loaded
<1>2. /\ data' \in [0..BUFFER_SIZE - 1 -> Byte]
      /\ used_begin' \in 0..BUFFER_SIZE /\ used_end' \in 0..BUFFER_SIZE
      /\ used_begin' <= used_end'
    BY DEF BTypeOK
<1> QED BY <1>1, <1>2, RangeSlice

(* The line unload_line returns, and how many bytes it has.                  *)
LEMMA LineType ==
    ASSUME BTypeOK, has_data
    PROVE  /\ Line \in Seq(Byte)
           /\ Len(Line) = (IF FindNL = used_end THEN used_end ELSE FindNL + 1) - used_begin
           /\ \A k \in 1..Len(Line) : Line[k] = data[used_begin + k - 1]
<1> DEFINE n == (IF FindNL = used_end THEN used_end ELSE FindNL + 1) - used_begin
<1>1. n \in Nat /\ used_begin + n <= used_end
    BY UsedRange, FindNLProperties
<1>2. Line = [k \in 1..n |-> data[used_begin + k - 1]]
    BY FindNLProperties DEF Line, valid_equal
<1>3. \A k \in 1..n : data[used_begin + k - 1] \in Byte
    BY <1>1, UsedRange
<1> HIDE DEF n
<1>4. Line \in Seq(Byte) /\ Len(Line) = n /\ \A k \in 1..n : Line[k] = data[used_begin + k - 1]
    BY <1>1, <1>2, <1>3, UsedRange, Slice
<1> QED BY <1>4 DEF n

-----------------------------------------------------------------------------
(* load appends to the content.                                              *)
LEMMA LoadAppends ==
    ASSUME BTypeOK, NEW read \in Seq(Byte), load(read)
    PROVE  Content' = Content \o read
<1>1. BTypeOK'
    BY LoadType
<1>2. Len(read) \in Nat
    BY LenProperties
<1>3. used_begin' = used_begin /\ used_end' = used_end + Len(read)
    BY DEF load
<1>4. /\ Content \o read \in Seq(Byte)
      /\ Len(Content \o read) = Len(Content')
    <2>1. /\ Content \o read \in Seq(Byte)
          /\ Len(Content \o read) = Len(Content) + Len(read)
        BY ContentType, ConcatProperties
    <2> QED BY <1>1, <1>2, <1>3, <2>1, UsedRange, ContentType, ContentTypeNext
<1>5. ASSUME NEW k \in 1..Len(Content')
      PROVE  Content'[k] = (Content \o read)[k]
    <2>1. k \in 1..used_end' - used_begin' /\ Content'[k] = data'[used_begin + k - 1]
        BY <1>1, <1>3, ContentTypeNext
    <2>2. used_begin + k - 1 \in DOMAIN data
        BY <1>1, <1>3, <2>1, UsedRange DEF BTypeOK
    <2>3. data' = [i \in DOMAIN data |->
                     IF i \in used_end..used_end + Len(read) - 1
                     THEN read[i - used_end + 1] ELSE data[i]]
        BY DEF load
    <2>4. k \in 1..Len(Content) + Len(read) /\ Len(Content) = used_end - used_begin
        BY <1>2, <1>3, <2>1, UsedRange, ContentType, SMTT(30)
    <2>5. (Content \o read)[k] =
             IF k <= Len(Content) THEN Content[k] ELSE read[k - Len(Content)]
        BY <2>4, ContentType, ConcatProperties
    <2>6. CASE k <= used_end - used_begin
        <3>1. ~(used_begin + k - 1 \in used_end..used_end + Len(read) - 1)
            BY <1>2, <2>4, <2>6, UsedRange, SMTT(30)
        <3>2. data'[used_begin + k - 1] = data[used_begin + k - 1]
            BY <2>2, <2>3, <3>1
        <3>3. Content[k] = data[used_begin + k - 1]
            BY <2>4, <2>6, UsedRange, ContentType
        <3> QED BY <2>1, <2>4, <2>5, <2>6, <3>2, <3>3
    <2>7. CASE ~(k <= used_end - used_begin)
        <3> DEFINE x == used_begin + k - 1
        <3>1. x \in used_end..used_end + Len(read) - 1 /\ x - used_end + 1 = k - Len(Content)
            BY <1>2, <2>4, <2>7, UsedRange, SMTT(30)
        <3>2. \A i \in DOMAIN data : i \in used_end..used_end + Len(read) - 1
                                      => data'[i] = read[i - used_end + 1]
            BY <2>3
        <3>3. data'[x] = read[x - used_end + 1]
            <4>1. x \in DOMAIN data
                BY <2>2
            <4> HIDE DEF x
            <4> QED BY <3>1, <3>2, <4>1
        <3> QED BY <2>1, <2>4, <2>5, <2>7, <3>1, <3>3
    <2> QED BY <2>6, <2>7
<1> QED BY <1>1, <1>4, <1>5, ContentTypeNext, SeqEqual

(* unload_line hands out the first line of the content ...                   *)
LEMMA LineIsFirstLine ==
    ASSUME BTypeOK, has_data
    PROVE  /\ BufferQueue!HasLine(Content) <=> FindNL # used_end
           /\ BufferQueue!LineLen(Content) = Len(Line)
           /\ Line = BufferQueue!FirstLine(Content)
<1> DEFINE first == FindNL - used_begin + 1
<1>1. /\ used_begin < used_end /\ Len(Content) = used_end - used_begin
      /\ \A k \in 1..Len(Content) : Content[k] = data[used_begin + k - 1]
    BY UsedRange, ContentType DEF has_data
<1>2. ASSUME FindNL = used_end
      PROVE  ~BufferQueue!HasLine(Content) /\ BufferQueue!LineLen(Content) = Len(Line)
    <2>1. ASSUME NEW k \in 1..Len(Content)
          PROVE  Content[k] # NL
        <3>1. used_begin + k - 1 \in used_begin..FindNL - 1
            BY <1>1, <1>2, UsedRange
        <3> QED BY <1>1, <3>1, FindNLProperties
    <2> QED BY <1>1, <1>2, <2>1, LineType
              DEF BufferQueue!HasLine, BufferQueue!Newlines, BufferQueue!LineLen
<1>3. ASSUME FindNL # used_end
      PROVE  BufferQueue!HasLine(Content) /\ BufferQueue!LineLen(Content) = Len(Line)
    <2>0. /\ FindNL \in used_begin..used_end - 1 /\ data[FindNL] = NL
          /\ first \in 1..Len(Content) /\ used_begin + first - 1 = FindNL
        BY <1>1, <1>3, UsedRange, FindNLProperties
    <2>1. first \in BufferQueue!Newlines(Content)
        BY <1>1, <2>0 DEF BufferQueue!Newlines
    <2>2. ASSUME NEW i \in BufferQueue!Newlines(Content)
          PROVE  first <= i
        <3>1. i \in 1..Len(Content) /\ data[used_begin + i - 1] = NL
            BY <1>1 DEF BufferQueue!Newlines
        <3>2. ~(used_begin + i - 1 \in used_begin..FindNL - 1)
            BY <3>1, FindNLProperties
        <3> QED BY <1>1, <2>0, <3>1, <3>2, UsedRange, SMTT(30)
    <2>3. \A i \in BufferQueue!Newlines(Content) :
             (\A j \in BufferQueue!Newlines(Content) : i <= j) => i = first
        <3>1. BufferQueue!Newlines(Content) \subseteq Int /\ first \in Int
            BY <1>1, <2>0, UsedRange DEF BufferQueue!Newlines
        <3> HIDE DEF first
        <3> QED BY <2>1, <2>2, <3>1
    <2>4. BufferQueue!FirstNewline(Content) = first
        <3> HIDE DEF first
        <3> QED BY <2>1, <2>2, <2>3 DEF BufferQueue!FirstNewline
    <2>5. Len(Line) = first
        BY <1>3, <2>0, UsedRange, LineType
    <2> QED BY <2>1, <2>4, <2>5 DEF BufferQueue!HasLine, BufferQueue!LineLen
<1>4. Len(Line) <= Len(Content) /\ \A k \in 1..Len(Line) : Line[k] = Content[k]
    <2>1. Len(Line) \in Nat /\ Len(Line) <= used_end - used_begin
        BY <1>1, UsedRange, FindNLProperties, LineType
    <2> QED BY <1>1, <2>1, LineType
<1>5. Line = SubSeq(Content, 1, Len(Line))
    <2>1. Content \in Seq(Byte) /\ Line \in Seq(Byte) /\ Len(Line) \in Nat
        BY ContentType, LineType, LenProperties
    <2>2. \A k \in 1..Len(Line) : Content[k] \in Byte
        BY <2>1, <1>4, ElementOfSeq
    <2> QED BY <1>4, <2>1, <2>2, SubSeqProperties, SeqEqual
<1> QED BY <1>2, <1>3, <1>5 DEF BufferQueue!FirstLine

(* ... and leaves what is behind it, a NUL perhaps excepted.                 *)
LEMMA UnloadDropsConsumed ==
    ASSUME BTypeOK, unload_line
    PROVE  Content' = BufferQueue!From(Content, consume_end - used_begin + 1)
<1> DEFINE m == consume_end - used_begin + 1
           rest == SubSeq(Content, m, Len(Content))
<1>1. BTypeOK' /\ has_data /\ data' = data
    BY UnloadType DEF unload_line
<1>2. consume_end \in used_begin + 1..used_end
    BY <1>1, ConsumeEndInRange
<1>3. /\ m \in Int /\ m \in 2..Len(Content) + 1 /\ Len(Content) \in Int
      /\ Len(Content) - m + 1 = used_end - consume_end
    BY <1>2, UsedRange, ContentType
<1>4. /\ rest \in Seq(Byte)
      /\ Len(rest) = IF m <= Len(Content) THEN Len(Content) - m + 1 ELSE 0
      /\ \A k \in 1..Len(Content) - m + 1 : rest[k] = Content[m + k - 1]
    <2>1. \A i \in m..Len(Content) : i \in 1..Len(Content)
        BY <1>3
    <2>2. \A i \in m..Len(Content) : Content[i] \in Byte
        BY <2>1, ContentType, ElementOfSeq
    <2> HIDE DEF m
    <2> QED BY <1>3, <2>2, SubSeqProperties
<1>5. CASE consume_end = used_end
    <2>1. used_begin' = 0 /\ used_end' = 0
        BY <1>5 DEF unload_line
    <2>2. Content' \in Seq(Byte) /\ Len(Content') = 0
        BY <1>1, <2>1, ContentTypeNext
    <2>3. Len(rest) = 0
        <3>1. ~(m <= Len(Content))
            BY <1>3, <1>5, UsedRange
        <3> QED BY <1>4, <3>1
    <2> QED BY <1>4, <2>2, <2>3, SeqEqual DEF BufferQueue!From
<1>6. CASE consume_end # used_end
    <2>1. used_begin' = consume_end /\ used_end' = used_end
        BY <1>6 DEF unload_line
    <2>2. /\ Content' \in Seq(Byte) /\ Len(Content') = used_end - consume_end
          /\ \A k \in 1..used_end - consume_end : Content'[k] = data[consume_end + k - 1]
        BY <1>1, <2>1, ContentTypeNext
    <2>3. Len(rest) = Len(Content')
        BY <1>2, <1>3, <1>4, <1>6, <2>2, UsedRange, SMTT(30)
    <2>4. ASSUME NEW k \in 1..used_end - consume_end
          PROVE  rest[k] = Content'[k]
        <3>1. /\ k \in 1..Len(Content) - m + 1
              /\ m + k - 1 \in 1..used_end - used_begin
              /\ used_begin + (m + k - 1) - 1 = consume_end + k - 1
            <4>1. /\ used_begin \in Nat /\ used_end \in Nat
                  /\ Len(Content) = used_end - used_begin
                BY UsedRange, ContentType
            <4> QED BY <1>2, <4>1
        <3>2. rest[k] = Content[m + k - 1]
            BY <1>4, <3>1
        <3>3. Content[m + k - 1] = data[used_begin + (m + k - 1) - 1]
            BY <3>1, ContentType
        <3> QED BY <2>2, <3>1, <3>2, <3>3
    <2> QED BY <1>4, <2>2, <2>3, <2>4, SeqEqual DEF BufferQueue!From
<1> QED BY <1>5, <1>6

LEMMA UnloadLeavesARest ==
    ASSUME BTypeOK, unload_line
    PROVE  Content' \in BufferQueue!Rests(Content)
<1> DEFINE n == Len(Line)
<1>1. has_data
    BY DEF unload_line
<1>2. Content' = BufferQueue!From(Content, consume_end - used_begin + 1)
    BY UnloadDropsConsumed
<1>3. BufferQueue!LineLen(Content) = n /\ (BufferQueue!HasLine(Content) <=> FindNL # used_end)
    BY <1>1, LineIsFirstLine
<1>4. n \in Nat /\ FindNL \in Nat
    BY <1>1, LineType, LenProperties, FindNLProperties, UsedRange
<1>5. CASE consume_end = used_begin + n
    <2>1. consume_end - used_begin + 1 = n + 1
        BY <1>4, <1>5, UsedRange
    <2> QED BY <1>2, <1>3, <2>1 DEF BufferQueue!Rests
<1>6. CASE consume_end # used_begin + n
    <2>1. /\ FindNL # used_end /\ n = FindNL + 1 - used_begin
          /\ FindNL + 1 # used_end /\ data[FindNL + 1] = NUL
          /\ consume_end = FindNL + 2
        BY <1>1, <1>4, <1>6, LineType, FindNLProperties, UsedRange
           DEF consume_end, valid_equal
    <2>2. n + 1 \in 1..Len(Content) /\ used_begin + (n + 1) - 1 = FindNL + 1
        <3>1. /\ used_begin \in Nat /\ used_end \in Nat /\ FindNL \in used_begin..used_end
              /\ Len(Content) = used_end - used_begin
            BY FindNLProperties, UsedRange, ContentType
        <3> HIDE DEF n
        <3> QED BY <1>4, <2>1, <3>1
    <2>3. Content[n + 1] = NUL
        <3>1. Content[n + 1] = data[used_begin + (n + 1) - 1]
            BY <2>2, ContentType
        <3> QED BY <2>1, <2>2, <3>1
    <2>4. consume_end - used_begin + 1 = n + 2 /\ n < Len(Content)
        BY <1>4, <2>1, <2>2, UsedRange, ContentType, SMTT(30)
    <2> HIDE DEF n
    <2> QED BY <1>2, <1>3, <2>1, <2>3, <2>4 DEF BufferQueue!Rests
<1> QED BY <1>5, <1>6

(* A line has no newline before its last byte; without one it is all there   *)
(* is.                                                                       *)
LEMMA LineShape ==
    ASSUME BTypeOK, unload_line
    PROVE  /\ Len(Line) \in Nat \ {0}
           /\ \A k \in 1..Len(Line) - 1 : Line[k] # NL
           /\ IF Line[Len(Line)] = NL THEN BufferQueue!HasLine(Content)
              ELSE Line = Content /\ Content' = <<>>
<1>1. has_data
    BY DEF unload_line
<1>2. /\ used_begin \in Nat /\ used_end \in Nat /\ used_begin < used_end
      /\ FindNL \in used_begin..used_end /\ FindNL \in Nat
      /\ FindNL = used_end \/ data[FindNL] = NL
      /\ \A j \in used_begin..FindNL - 1 : data[j] # NL
    BY <1>1, UsedRange, FindNLProperties DEF has_data
<1>3. /\ Len(Line) = (IF FindNL = used_end THEN used_end ELSE FindNL + 1) - used_begin
      /\ \A k \in 1..Len(Line) : Line[k] = data[used_begin + k - 1]
      /\ Line \in Seq(Byte)
    BY <1>1, LineType
<1>4. Len(Line) \in Nat \ {0}
    BY <1>2, <1>3
<1>5. ASSUME NEW k \in 1..Len(Line) - 1 PROVE Line[k] # NL
    <2>1. k \in 1..Len(Line) /\ used_begin + k - 1 \in used_begin..FindNL - 1
        BY <1>2, <1>3, <1>4
    <2>2. Line[k] = data[used_begin + k - 1]
        BY <1>3, <2>1
    <2>3. data[used_begin + k - 1] # NL
        BY <1>2, <2>1
    <2> QED BY <2>2, <2>3
<1>6. Len(Line) \in 1..Len(Line) /\ Line[Len(Line)] = data[used_begin + Len(Line) - 1]
    BY <1>3, <1>4
<1>7. CASE FindNL # used_end
    <2>1. used_begin + Len(Line) - 1 = FindNL
        BY <1>2, <1>3, <1>7
    <2>2. Line[Len(Line)] = NL
        BY <1>2, <1>6, <1>7, <2>1
    <2> QED BY <1>1, <1>4, <1>5, <1>7, <2>2, LineIsFirstLine
<1>8. CASE FindNL = used_end
    <2>1. used_begin + Len(Line) - 1 \in used_begin..FindNL - 1
        BY <1>2, <1>3, <1>8
    <2>2. Line[Len(Line)] # NL
        BY <1>2, <1>6, <2>1
    <2>3. Line = Content
        <3>1. /\ Content \in Seq(Byte) /\ Len(Content) = Len(Line)
              /\ \A k \in 1..Len(Line) : Content[k] = Line[k]
            BY <1>2, <1>3, <1>8, ContentType
        <3> QED BY <1>3, <3>1, SeqEqual
    <2>4. consume_end = used_end
        BY <1>8 DEF consume_end, valid_equal
    <2>5. BTypeOK' /\ used_begin' = 0 /\ used_end' = 0
        BY <2>4, UnloadType DEF unload_line
    <2>6. Content' \in Seq(Byte) /\ Len(Content') = 0
        BY <2>5, ContentTypeNext
    <2>7. Content' = <<>>
        BY <2>6, EmptySeq
    <2> QED BY <1>4, <1>5, <2>2, <2>3, <2>7
<1> QED BY <1>7, <1>8

LEMMA FrontAndRest ==
    ASSUME NEW s \in Seq(Byte), NEW n \in Nat, n <= Len(s)
    PROVE  s = SubSeq(s, 1, n) \o SubSeq(s, n + 1, Len(s))
<1>1. Len(s) \in Nat
    BY LenProperties
<1>2. 1 \in 1..Len(s) + 1 /\ n \in (1 - 1)..Len(s) /\ Len(s) \in n..Len(s)
    BY <1>1
<1> QED BY <1>2, ConcatAdjacentSubSeq, SubSeqFull

LEMMA FrontAndNext ==
    ASSUME NEW s \in Seq(Byte), NEW n \in Nat, n < Len(s)
    PROVE  SubSeq(s, 1, n + 1) = SubSeq(s, 1, n) \o <<s[n + 1]>>
<1>1. Len(s) \in Nat
    BY LenProperties
<1>2. 1 \in 1..Len(s) /\ n + 1 \in 1..Len(s) /\ n + 1 - 1 = n
    BY <1>1
<1>3. SubSeq(s, 1, n + 1) = SubSeq(s, 1, n + 1 - 1) \o <<s[n + 1]>>
    BY <1>2, SubSeqRecursiveSecond
<1> QED BY <1>2, <1>3

(* unload_line takes from the front of the content the line and, behind its  *)
(* newline, a NUL perhaps.                                                   *)
LEMMA UnloadTakesTheFront ==
    ASSUME BTypeOK, unload_line
    PROVE  \E skipped \in {<<>>, <<NUL>>} :
              /\ Content = (Line \o skipped) \o Content'
              /\ skipped # <<>> => Line[Len(Line)] = NL
<1> DEFINE n == Len(Line)
<1>1. has_data /\ BTypeOK'
    BY UnloadType DEF unload_line
<1>2. Content \in Seq(Byte) /\ Len(Content) \in Nat
    BY ContentType, LenProperties
<1>3. /\ BufferQueue!LineLen(Content) = n /\ Line = SubSeq(Content, 1, n)
      /\ BufferQueue!HasLine(Content) => Line[n] = NL
    <2>1. BufferQueue!LineLen(Content) = n /\ Line = SubSeq(Content, 1, n)
        BY <1>1, LineIsFirstLine DEF BufferQueue!FirstLine
    <2>2. BufferQueue!HasLine(Content) => Line[n] = NL
        <3> SUFFICES ASSUME BufferQueue!HasLine(Content) PROVE Line[n] = NL
            OBVIOUS
        <3>1. FindNL # used_end /\ data[FindNL] = NL
            BY <1>1, LineIsFirstLine, FindNLProperties
        <3>2. /\ FindNL \in used_begin..used_end /\ used_begin \in Nat /\ used_end \in Nat
              /\ n = FindNL + 1 - used_begin
            BY <1>1, <3>1, FindNLProperties, UsedRange, LineType
        <3>3. n \in 1..n /\ used_begin + n - 1 = FindNL
            BY <3>2
        <3> QED BY <1>1, <3>1, <3>3, LineType
    <2> QED BY <2>1, <2>2
<1>4. n \in Nat \ {0} /\ n <= Len(Content)
    <2>1. n <= Len(Content)
        BY <1>1, LineType, ContentType, UsedRange, FindNLProperties
    <2> QED BY <2>1, LineShape
<1>5. Line \in Seq(Byte) /\ Content' \in Seq(Byte)
    BY <1>1, LineType, ContentTypeNext
<1> HIDE DEF n
<1>6. CASE Content' = BufferQueue!From(Content, n + 1)
    <2>1. Content = SubSeq(Content, 1, n) \o SubSeq(Content, n + 1, Len(Content))
        BY <1>2, <1>4, FrontAndRest
    <2>2. Line \o <<>> = Line
        BY <1>5, ConcatEmptySeq
    <2>3. Content = (Line \o <<>>) \o Content'
        BY <1>3, <1>6, <2>1, <2>2 DEF BufferQueue!From
    <2> QED BY <2>3
<1>7. CASE /\ BufferQueue!HasLine(Content) /\ n < Len(Content) /\ Content[n + 1] = NUL
           /\ Content' = BufferQueue!From(Content, n + 2)
    <2>1. SubSeq(Content, 1, n + 1) = Line \o <<NUL>>
        BY <1>2, <1>3, <1>4, <1>7, FrontAndNext
    <2>2. Content = SubSeq(Content, 1, n + 1) \o SubSeq(Content, n + 2, Len(Content))
        <3>1. n + 1 \in Nat /\ n + 1 <= Len(Content) /\ n + 1 + 1 = n + 2
            BY <1>2, <1>4, <1>7
        <3>2. Content = SubSeq(Content, 1, n + 1) \o SubSeq(Content, n + 1 + 1, Len(Content))
            BY <1>2, <3>1, FrontAndRest
        <3> QED BY <3>1, <3>2
    <2>3. Content = (Line \o <<NUL>>) \o Content'
        BY <1>7, <2>1, <2>2 DEF BufferQueue!From
    <2>4. Line[Len(Line)] = NL
        BY <1>3, <1>7 DEF n
    <2> QED BY <2>3, <2>4
<1>8. Content' \in BufferQueue!Rests(Content)
    BY UnloadLeavesARest
<1> QED BY <1>3, <1>6, <1>7, <1>8 DEF BufferQueue!Rests

(* Seen without NULs, what was consumed is the line.                         *)
LEMMA UnloadKeepsBytes ==
    ASSUME BTypeOK, unload_line
    PROVE  WithoutNuls(Content) = WithoutNuls(Line \o Content')
<1>1. PICK skipped \in {<<>>, <<NUL>>} : Content = (Line \o skipped) \o Content'
    BY UnloadTakesTheFront
<1>2. /\ Line \in Seq(Byte) /\ Content' \in Seq(Byte) /\ skipped \in Seq(Byte)
      /\ Line \o skipped \in Seq(Byte)
    <2>1. Line \in Seq(Byte) /\ Content' \in Seq(Byte)
        BY LineType, UnloadType, ContentTypeNext DEF unload_line
    <2>2. <<>> \in Seq(Byte) /\ <<NUL>> \in Seq(Byte)
        BY EmptySeq, BufferAssumption
    <2>3. skipped \in Seq(Byte)
        BY <1>1, <2>2
    <2> QED BY <2>1, <2>3, ConcatProperties
<1>3. WithoutNuls(skipped) = <<>>
    <2>1. WithoutNuls(Append(<<>>, NUL)) = <<>>
        BY EmptySeq, BufferAssumption, WithoutNulsAppend, WithoutNulsEmpty
    <2>2. Append(<<>>, NUL) = <<NUL>>
        <3>1. Append(<<>>, NUL) = <<>> \o <<NUL>> /\ <<NUL>> \in Seq(Byte)
            BY EmptySeq, BufferAssumption, AppendIsConcat
        <3> QED BY <3>1, ConcatEmptySeq
    <2> QED BY <2>1, <2>2, WithoutNulsEmpty
<1>4. WithoutNuls(Line \o skipped) = WithoutNuls(Line)
    <2>1. WithoutNuls(Line \o skipped) = WithoutNuls(Line) \o WithoutNuls(skipped)
        BY <1>2, WithoutNulsConcat
    <2>2. WithoutNuls(Line) \o <<>> = WithoutNuls(Line)
        BY <1>2, WithoutNulsType, ConcatEmptySeq
    <2> QED BY <1>3, <2>1, <2>2
<1>5. WithoutNuls(Content) = WithoutNuls(Line \o skipped) \o WithoutNuls(Content')
    BY <1>1, <1>2, WithoutNulsConcat
<1>6. WithoutNuls(Line \o Content') = WithoutNuls(Line) \o WithoutNuls(Content')
    BY <1>2, WithoutNulsConcat
<1> QED BY <1>4, <1>5, <1>6

-----------------------------------------------------------------------------
(* The inductive invariant: a range that is empty is at the start, which is  *)
(* what unload_line restores and load relies on.                             *)
LBIInv == LBTypeOK /\ EmptyIsAllFree

LEMMA LBInitIInv == LBInit => LBIInv
<1> SUFFICES ASSUME LBInit PROVE LBIInv
    OBVIOUS
<1>1. LBTypeOK
    BY BufferAssumption, EmptySeq DEF LBInit, BInit, LBTypeOK, BTypeOK
<1>2. EmptyIsAllFree
    BY BufferAssumption DEF LBInit, BInit, EmptyIsAllFree, has_data, free
<1> QED BY <1>1, <1>2 DEF LBIInv

LEMMA StringsAreSequences == \A n \in Nat : Strings(n) \subseteq Seq(Byte)
BY SeqDef DEF Strings

LEMMA LBNextIInv == LBIInv /\ [LBNext]_lbvars => LBIInv'
<1> SUFFICES ASSUME LBIInv, [LBNext]_lbvars PROVE LBIInv'
    OBVIOUS
<1>1. BTypeOK /\ EmptyIsAllFree /\ stored \in Seq(Byte) /\ taken \in Seq(Byte)
      /\ unloaded \in Seq(Seq(Byte))
    BY DEF LBIInv, LBTypeOK
<1>2. CASE Load
    <2>1. free \in Nat
        BY <1>1, UsedRange DEF free
    <2>2. PICK read \in Seq(Byte) : /\ load(read) /\ stored' = stored \o read
                                    /\ UNCHANGED <<taken, unloaded>>
        BY <1>2, <2>1, StringsAreSequences DEF Load
    <2>3. BTypeOK'
        BY <1>1, <2>2, LoadType
    <2>4. stored' \in Seq(Byte)
        BY <1>1, <2>2, ConcatProperties
    <2>5. EmptyIsAllFree'
        <3>1. Len(read) \in Nat /\ used_begin' = used_begin /\ used_end' = used_end + Len(read)
            BY <2>2, LenProperties DEF load
        <3> QED BY <1>1, <3>1, UsedRange DEF EmptyIsAllFree, has_data, free
    <2> QED BY <1>1, <2>2, <2>3, <2>4, <2>5 DEF LBIInv, LBTypeOK
<1>3. CASE UnloadLine
    <2>1. unload_line /\ has_data /\ taken' = taken \o Line /\ unloaded' = Append(unloaded, Line)
          /\ UNCHANGED stored
        BY <1>3 DEF UnloadLine, unload_line
    <2>2. BTypeOK'
        BY <1>1, <2>1, UnloadType
    <2>3. taken' \in Seq(Byte) /\ unloaded' \in Seq(Seq(Byte))
        BY <1>1, <2>1, LineType, ConcatProperties, AppendProperties
    <2>4. EmptyIsAllFree'
        BY <1>1, <2>1, ConsumeEndInRange, UsedRange
           DEF EmptyIsAllFree, has_data, free, unload_line
    <2> QED BY <1>1, <2>1, <2>2, <2>3, <2>4 DEF LBIInv, LBTypeOK
<1>4. CASE UNCHANGED lbvars
    BY <1>1, <1>4 DEF LBIInv, LBTypeOK, BTypeOK, EmptyIsAllFree, has_data, free, lbvars
<1> QED BY <1>2, <1>3, <1>4
          DEF LBNext, LoadFailed, loadFailed, UnloadEmpty, bvars, lbvars

(* The buffer never indexes outside its storage and its histories are of     *)
(* bytes, for any size of the storage.                                       *)
THEOREM BufferTypeCorrect == LBSpec => []LBTypeOK
<1>1. LBIInv => LBTypeOK
    BY DEF LBIInv
<1> QED BY <1>1, LBInitIInv, LBNextIInv, PTL DEF LBSpec

(* An empty buffer has its whole storage free: the pipe never asks the       *)
(* kernel for zero bytes, which it would take for end of file.               *)
THEOREM EmptyBufferIsAllFree == LBSpec => []EmptyIsAllFree
<1>1. LBIInv => EmptyIsAllFree
    BY DEF LBIInv
<1> QED BY <1>1, LBInitIInv, LBNextIInv, PTL DEF LBSpec

(* Across loads, partial lines and resets of the range no byte but a NUL is  *)
(* lost, duplicated or reordered, for any size of the storage and any bytes. *)
THEOREM NoByteLost == LBSpec => []NothingLost
<1>1. LBInit => NothingLost
    <2> SUFFICES ASSUME LBInit PROVE NothingLost
        OBVIOUS
    <2>1. BTypeOK /\ used_begin = 0 /\ used_end = 0 /\ taken = <<>> /\ stored = <<>>
        BY LBInitIInv DEF LBInit, BInit, LBIInv, LBTypeOK
    <2>2. Content = <<>>
        BY <2>1, ContentType, EmptySeq, SeqEqual
    <2>3. taken \o Content = <<>>
        BY <2>1, <2>2, EmptySeq, ConcatEmptySeq
    <2> QED BY <2>1, <2>3 DEF NothingLost
<1>2. LBIInv /\ NothingLost /\ [LBNext]_lbvars => NothingLost'
    <2> SUFFICES ASSUME LBIInv, NothingLost, [LBNext]_lbvars PROVE NothingLost'
        OBVIOUS
    <2>1. /\ BTypeOK /\ stored \in Seq(Byte) /\ taken \in Seq(Byte) /\ Content \in Seq(Byte)
          /\ WithoutNuls(taken \o Content) = WithoutNuls(stored)
        BY ContentType DEF LBIInv, LBTypeOK, NothingLost
    <2>2. CASE Load
        <3>1. free \in Nat
            BY <2>1, UsedRange DEF free
        <3>2. PICK read \in Seq(Byte) : /\ load(read) /\ stored' = stored \o read
                                        /\ taken' = taken
            BY <2>2, <3>1, StringsAreSequences DEF Load
        <3>3. Content' = Content \o read
            BY <2>1, <3>2, LoadAppends
        <3>4. taken' \o Content' = (taken \o Content) \o read
            <4>1. (taken \o Content) \o read = taken \o (Content \o read)
                BY <2>1, ConcatAssociative, SMTT(30)
            <4> QED BY <3>2, <3>3, <4>1
        <3>5. taken \o Content \in Seq(Byte)
            BY <2>1, ConcatProperties
        <3>6. WithoutNuls((taken \o Content) \o read)
                 = WithoutNuls(taken \o Content) \o WithoutNuls(read)
            BY <3>5, WithoutNulsConcat
        <3>7. WithoutNuls(stored \o read) = WithoutNuls(stored) \o WithoutNuls(read)
            BY <2>1, WithoutNulsConcat
        <3> QED BY <2>1, <3>2, <3>4, <3>6, <3>7 DEF NothingLost
    <2>3. CASE UnloadLine
        <3>1. unload_line /\ taken' = taken \o Line /\ stored' = stored
            BY <2>3 DEF UnloadLine
        <3>2. Line \in Seq(Byte) /\ Content' \in Seq(Byte)
            BY <2>1, <3>1, LineType, UnloadType, ContentTypeNext DEF unload_line
        <3>3. taken' \o Content' = taken \o (Line \o Content')
            BY <2>1, <3>1, <3>2, ConcatAssociative, SMTT(30)
        <3>4. WithoutNuls(Line \o Content') = WithoutNuls(Content)
            BY <2>1, <3>1, UnloadKeepsBytes
        <3>5. Line \o Content' \in Seq(Byte)
            BY <3>2, ConcatProperties
        <3>6. WithoutNuls(taken \o (Line \o Content'))
                 = WithoutNuls(taken) \o WithoutNuls(Content)
            BY <2>1, <3>4, <3>5, WithoutNulsConcat
        <3>7. WithoutNuls(taken \o Content) = WithoutNuls(taken) \o WithoutNuls(Content)
            BY <2>1, WithoutNulsConcat
        <3> QED BY <2>1, <3>1, <3>3, <3>6, <3>7 DEF NothingLost
    <2>4. CASE UNCHANGED lbvars
        BY <2>4 DEF NothingLost, Content, loaded, lbvars
    <2> QED BY <2>2, <2>3, <2>4
              DEF LBNext, LoadFailed, loadFailed, UnloadEmpty, bvars, lbvars
<1> QED BY <1>1, <1>2, LBInitIInv, LBNextIInv, PTL DEF LBSpec

(* Every step of the index arithmetic is a step of the line queue.           *)
LEMMA StepImplementsQueue ==
    LBIInv /\ [LBNext]_lbvars => [BufferQueue!Put \/ BufferQueue!TakeLine \/ BufferQueue!TakeRest]_(BufferQueue!qvars)
<1> SUFFICES ASSUME LBIInv, [LBNext]_lbvars
             PROVE  [BufferQueue!Put \/ BufferQueue!TakeLine \/ BufferQueue!TakeRest]_(BufferQueue!qvars)
    OBVIOUS
<1>1. BTypeOK
    BY DEF LBIInv, LBTypeOK
<1>2. CASE Load
    <2>1. free \in Nat
        BY <1>1, UsedRange DEF free
    <2>2. PICK read \in Seq(Byte) : load(read) /\ UNCHANGED unloaded
        BY <1>2, <2>1, StringsAreSequences DEF Load
    <2>3. Content' = Content \o read
        BY <1>1, <2>2, LoadAppends
    <2>4. Content \in Seq(Byte) /\ Len(Content) \in Nat /\ Len(read) \in Nat
        BY <1>1, ContentType, LenProperties
    <2>5. Len(Content') >= Len(Content)
        BY <2>3, <2>4, ConcatProperties
    <2>6. SubSeq(Content', 1, Len(Content)) = Content
        BY <2>3, <2>4, PrefixOfConcat
    <2> QED BY <2>2, <2>5, <2>6 DEF BufferQueue!Put
<1>3. CASE UnloadLine
    <2>1. unload_line /\ has_data /\ unloaded' = Append(unloaded, Line)
        BY <1>3 DEF UnloadLine, unload_line
    <2>2. BufferQueue!Take
        BY <1>1, <2>1, LineIsFirstLine, UnloadLeavesARest DEF BufferQueue!Take
    <2>3. Content # <<>>
        BY <1>1, <2>1, ContentType, EmptySeq, UsedRange DEF has_data
    <2> QED BY <2>2, <2>3 DEF BufferQueue!TakeLine, BufferQueue!TakeRest
<1>4. CASE UNCHANGED lbvars
    BY <1>4 DEF lbvars, BufferQueue!qvars, Content, loaded
<1> QED BY <1>2, <1>3, <1>4
          DEF LBNext, LoadFailed, loadFailed, UnloadEmpty, bvars, lbvars

(* The buffer implements the queue of lines, for any size of the storage and *)
(* any bytes: what load stores comes out of unload_line in order, a line at  *)
(* a time.                                                                   *)
THEOREM BufferImplementsQueue == LBSpec => ImplementsQueue
<1>1. LBInit => BufferQueue!QInit
    <2> SUFFICES ASSUME LBInit PROVE BufferQueue!QInit
        OBVIOUS
    <2>1. BTypeOK /\ used_begin = 0 /\ used_end = 0 /\ unloaded = <<>>
        BY LBInitIInv DEF LBInit, BInit, LBIInv, LBTypeOK
    <2>2. Content = <<>>
        BY <2>1, ContentType, EmptySeq, SeqEqual
    <2> QED BY <2>1, <2>2 DEF BufferQueue!QInit
<1> QED BY <1>1, LBInitIInv, LBNextIInv, StepImplementsQueue, PTL
           DEF LBSpec, ImplementsQueue, BufferQueue!Spec

-----------------------------------------------------------------------------
(* LinePipe.  The lemmas on the reader and the writers are about Pipe and    *)
(* hold wherever its actions are steps; the theorems are about LinePipe.     *)

Message == Seq(Byte) \ {<<>>}

PTypeOK ==
    /\ BTypeOK
    /\ rd_open \in BOOLEAN /\ wr_open \in BOOLEAN
    /\ kernel \in Seq(Byte)
    /\ rpc \in {"idle", "poll", "read", "unload"}
    /\ result \in Seq(Byte)
    /\ wpc \in [Writers -> {"ready", "data", "newline", "closed", "broken"}]
    /\ unwritten \in [Writers -> Seq(Byte)]
    /\ script \in [Writers -> Seq(Message)]
    /\ todo \in [Writers -> Seq(Message)]
    /\ sent \in Seq(Byte) /\ out \in Seq(Byte) /\ discarded \in Seq(Byte)
    /\ lines \in Seq(Seq(Byte))

(* What the pc of the reader says of the buffer and of its local.            *)
ReaderInv ==
    /\ EmptyIsAllFree
    /\ rpc = "idle" => result = <<>>
    /\ rpc \in {"poll", "read"} => ~has_data
    /\ \A i \in 1..Len(result) : result[i] # NL
    /\ \A i \in 1..Len(discarded) : discarded[i] # NL

(* A writer still has to finish the last ones of its strings.                *)
TodoIsARest(w) == \E m \in 0..Len(script[w]) :
                     todo[w] = SubSeq(script[w], m + 1, Len(script[w]))

(* Nothing is left in a kernel pipe whose read end is closed, and a writer   *)
(* that is at work has a string to finish.                                   *)
WriterInv ==
    /\ ~rd_open => kernel = <<>>
    /\ \A w \in Writers : /\ wpc[w] \in {"data", "newline"} => todo[w] # <<>>
                          /\ TodoIsARest(w)

PIInv == PTypeOK /\ ReaderInv /\ WriterInv

-----------------------------------------------------------------------------
(* The steps of the reader.                                                  *)

LEMMA BufferSame ==
    ASSUME UNCHANGED buffer
    PROVE  /\ BTypeOK => BTypeOK'
           /\ has_data' = has_data /\ free' = free /\ Content' = Content
           /\ EmptyIsAllFree => EmptyIsAllFree'
BY DEF buffer, BTypeOK, has_data, free, Content, loaded, EmptyIsAllFree

LEMMA EmptyContent ==
    ASSUME BTypeOK
    PROVE  has_data <=> Content # <<>>
BY ContentType, UsedRange, EmptySeq DEF has_data

(* The bytes that are read leave the kernel pipe and are behind those of the *)
(* buffer.                                                                   *)
LEMMA BufferLoadMoves ==
    ASSUME PIInv, BufferLoad
    PROVE  /\ BTypeOK' /\ EmptyIsAllFree'
           /\ kernel' \in Seq(Byte)
           /\ Content' \o kernel' = Content \o kernel
           /\ ReadSize = 0 => kernel = <<>>
<1>1. /\ kernel \in Seq(Byte) /\ Len(kernel) \in Nat /\ BTypeOK /\ ~has_data
      /\ free = BUFFER_SIZE /\ BUFFER_SIZE \in Nat \ {0}
    BY LenProperties, BufferAssumption
       DEF PIInv, PTypeOK, ReaderInv, BufferLoad, EmptyIsAllFree
<1>2. ReadSize \in Nat /\ ReadSize <= Len(kernel) /\ (ReadSize = 0 => Len(kernel) = 0)
    BY <1>1 DEF ReadSize
<1> DEFINE read == SubSeq(kernel, 1, ReadSize)
           rest == SubSeq(kernel, ReadSize + 1, Len(kernel))
<1>3. kernel = read \o rest
    BY <1>1, <1>2, FrontAndRest
<1>4. read \in Seq(Byte) /\ Len(read) = ReadSize /\ rest \in Seq(Byte)
    <2>1. \A i \in 1..Len(kernel) : kernel[i] \in Byte
        BY <1>1, ElementOfSeq
    <2>2. read \in Seq(Byte) /\ Len(read) = ReadSize
        BY <1>1, <1>2, <2>1, SubSeqProperties
    <2>3. rest \in Seq(Byte)
        BY <1>1, <1>2, <2>1, SubSeqProperties
    <2> QED BY <2>2, <2>3
<1>5. load(read) /\ kernel' = rest
    BY DEF BufferLoad
<1> HIDE DEF read, rest
<1>6. BTypeOK' /\ Content' = Content \o read
    BY <1>1, <1>4, <1>5, LoadType, LoadAppends
<1>7. Content \in Seq(Byte)
    BY <1>1, ContentType
<1>8. Content' \o kernel' = Content \o kernel
    <2>1. (Content \o read) \o rest = Content \o (read \o rest)
        BY <1>4, <1>7, ConcatAssociative
    <2> QED BY <1>3, <1>5, <1>6, <2>1, SMTT(30)
<1>9. EmptyIsAllFree'
    <2>1. used_begin' = used_begin /\ used_end' = used_end + ReadSize
        BY <1>4, <1>5 DEF load
    <2> QED BY <1>1, <1>2, <2>1, UsedRange DEF EmptyIsAllFree, has_data, free
<1>10. ReadSize = 0 => kernel = <<>>
    BY <1>1, <1>2, EmptySeq
<1> QED BY <1>4, <1>5, <1>6, <1>8, <1>9, <1>10

(* What an unload does to the local: it gathers a line, which has a newline  *)
(* at its end only.                                                          *)
LEMMA UnloadGathers ==
    ASSUME PIInv, Unload
    PROVE  LET l == result \o Line IN
           /\ l \in Seq(Byte) /\ Len(l) \in Nat \ {0} /\ Line \in Seq(Byte)
           /\ \A i \in 1..Len(l) - 1 : l[i] # NL
           /\ l[Len(l)] = Line[Len(Line)]
           /\ BTypeOK' /\ EmptyIsAllFree' /\ Content' \in Seq(Byte)
<1> DEFINE l == result \o Line
<1>1. /\ BTypeOK /\ unload_line /\ has_data /\ result \in Seq(Byte)
      /\ \A i \in 1..Len(result) : result[i] # NL
    BY DEF PIInv, PTypeOK, ReaderInv, Unload, unload_line
<1>2. /\ Line \in Seq(Byte) /\ Len(Line) \in Nat \ {0} /\ Len(result) \in Nat
      /\ \A k \in 1..Len(Line) - 1 : Line[k] # NL
    BY <1>1, LineType, LineShape, LenProperties
<1>3. /\ l \in Seq(Byte) /\ Len(l) = Len(result) + Len(Line)
      /\ \A i \in 1..Len(l) : l[i] = IF i <= Len(result) THEN result[i] ELSE Line[i - Len(result)]
    BY <1>1, <1>2, ConcatProperties
<1> HIDE DEF l
<1>4. ASSUME NEW i \in 1..Len(l) - 1 PROVE l[i] # NL
    <2>1. i \in 1..Len(l) /\ (i <= Len(result) => i \in 1..Len(result))
          /\ (~(i <= Len(result)) => i - Len(result) \in 1..Len(Line) - 1)
        BY <1>2, <1>3
    <2> QED BY <1>1, <1>2, <1>3, <2>1
<1>5. Len(l) \in Nat \ {0} /\ Len(l) \in 1..Len(l) /\ ~(Len(l) <= Len(result))
      /\ Len(l) - Len(result) = Len(Line)
    BY <1>2, <1>3
<1>6. BTypeOK' /\ Content' \in Seq(Byte)
    BY <1>1, UnloadType, ContentTypeNext
<1>7. EmptyIsAllFree'
    BY <1>1, ConsumeEndInRange, UsedRange DEF PIInv, ReaderInv, EmptyIsAllFree, has_data, free, unload_line
<1>8. l[Len(l)] = Line[Len(Line)]
    BY <1>3, <1>5
<1> QED BY <1>2, <1>3, <1>4, <1>5, <1>6, <1>7, <1>8 DEF l

LEMMA ReaderPIInv ==
    ASSUME PIInv, Reader \/ SetDirectionRead
    PROVE  PIInv'
<1>1. /\ PTypeOK /\ EmptyIsAllFree /\ BTypeOK
      /\ rpc = "idle" => result = <<>>
      /\ rpc \in {"poll", "read"} => ~has_data
      /\ \A i \in 1..Len(result) : result[i] # NL
      /\ \A i \in 1..Len(discarded) : discarded[i] # NL
      /\ ~rd_open => kernel = <<>>
      /\ result \in Seq(Byte) /\ out \in Seq(Byte) /\ discarded \in Seq(Byte)
    BY DEF PIInv, PTypeOK, ReaderInv, WriterInv
<1>2. <<>> \in Seq(Byte) /\ Len(<<>>) = 0
    BY EmptySeq
<1>9. /\ UNCHANGED writer
      /\ \A w \in Writers : /\ wpc'[w] \in {"data", "newline"} => todo'[w] # <<>>
                            /\ TodoIsARest(w)'
    <2>1. UNCHANGED writer
        BY DEF Reader, Call, PollReadable, PollEmpty, BufferLoad, Unload, SetDirectionRead
    <2> QED BY <2>1 DEF PIInv, WriterInv, TodoIsARest, writer
<1>3. CASE Call
    <2>1. BTypeOK' /\ has_data' = has_data /\ EmptyIsAllFree'
        BY <1>1, <1>3, BufferSame DEF Call
    <2>2. PTypeOK'
        BY <1>1, <1>2, <1>3, <2>1 DEF Call, PTypeOK, writer
    <2> QED BY <1>1, <1>9, <1>2, <1>3, <2>1, <2>2 DEF Call, PIInv, ReaderInv, WriterInv, writer
<1>4. CASE PollReadable
    <2>1. BTypeOK' /\ has_data' = has_data /\ EmptyIsAllFree'
        BY <1>1, <1>4, BufferSame DEF PollReadable
    <2>2. PTypeOK'
        BY <1>1, <1>4, <2>1 DEF PollReadable, PTypeOK, writer
    <2> QED BY <1>1, <1>9, <1>4, <2>1, <2>2 DEF PollReadable, PIInv, ReaderInv, WriterInv, writer
<1>5. CASE PollEmpty
    <2>1. BTypeOK' /\ has_data' = has_data /\ EmptyIsAllFree'
        BY <1>1, <1>5, BufferSame DEF PollEmpty
    <2>2. out \o result \in Seq(Byte) /\ discarded \o result \in Seq(Byte)
        BY <1>1, ConcatProperties
    <2>3. \A i \in 1..Len(discarded \o result) : (discarded \o result)[i] # NL
        <3>1. /\ Len(discarded) \in Nat /\ Len(result) \in Nat
              /\ Len(discarded \o result) = Len(discarded) + Len(result)
              /\ \A i \in 1..Len(discarded) + Len(result) : (discarded \o result)[i] =
                    IF i <= Len(discarded) THEN discarded[i] ELSE result[i - Len(discarded)]
            BY <1>1, ConcatProperties, LenProperties
        <3>2. \A i \in 1..Len(discarded) + Len(result) :
                 i \in 1..Len(discarded) \/ (~(i <= Len(discarded)) /\ i - Len(discarded) \in 1..Len(result))
            BY <3>1
        <3>3. \A i \in 1..Len(discarded) : i <= Len(discarded)
            BY <3>1
        <3> QED BY <1>1, <3>1, <3>2, <3>3
    <2>4. PTypeOK'
        BY <1>1, <1>2, <1>5, <2>1, <2>2 DEF PollEmpty, PTypeOK, writer
    <2> QED BY <1>1, <1>9, <1>2, <1>5, <2>1, <2>3, <2>4 DEF PollEmpty, PIInv, ReaderInv, WriterInv, writer
<1>6. CASE BufferLoad
    <2>1. BTypeOK' /\ EmptyIsAllFree' /\ kernel' \in Seq(Byte)
        BY <1>6, BufferLoadMoves
    <2>2. /\ rd_open' = (rd_open /\ ReadSize # 0)
          /\ rpc' = IF has_data' THEN "unload" ELSE "poll"
          /\ UNCHANGED <<writer, wr_open, result, lines, out, discarded>>
        BY <1>6 DEF BufferLoad
    <2>3. PTypeOK'
        BY <1>1, <2>1, <2>2 DEF PTypeOK, writer
    <2>4. ~rd_open' => kernel' = <<>>
        <3>1. kernel = <<>> => kernel' = <<>>
            <4>1. ASSUME kernel = <<>> PROVE kernel' = <<>>
                <5>1. Content \in Seq(Byte) /\ Content' \in Seq(Byte)
                    BY <1>1, <2>1, ContentType, ContentTypeNext
                <5>2. Content = <<>>
                    BY <1>1, <1>6, EmptyContent DEF BufferLoad
                <5>3. Content' \o kernel' = <<>>
                    BY <1>2, <1>6, <4>1, <5>2, ConcatEmptySeq, BufferLoadMoves
                <5> QED BY <2>1, <5>1, <5>3, ConcatEqualIffEmpty
            <4> QED BY <4>1
        <3>2. ~rd_open' => kernel = <<>>
            BY <1>1, <1>6, <2>2, BufferLoadMoves
        <3> QED BY <3>1, <3>2
    <2> QED BY <1>1, <1>9, <2>1, <2>2, <2>3, <2>4 DEF PIInv, ReaderInv, WriterInv, writer
<1>7. CASE Unload
    <2> DEFINE l == result \o Line
    <2>1. /\ l \in Seq(Byte) /\ Len(l) \in Nat \ {0}
          /\ \A i \in 1..Len(l) - 1 : l[i] # NL
          /\ BTypeOK' /\ EmptyIsAllFree' /\ Line \in Seq(Byte)
        BY <1>7, UnloadGathers
    <2>2. UNCHANGED <<kernel, writer, rd_open, wr_open, discarded>>
        BY <1>7 DEF Unload
    <2>3. CASE Complete(l)
        <3>1. /\ lines' = Append(lines, l) /\ out' = out \o result \o Line
              /\ result' = <<>> /\ rpc' = "idle"
            BY <1>7, <2>3 DEF Unload
        <3>2. Append(lines, l) \in Seq(Seq(Byte)) /\ (out \o result) \o Line \in Seq(Byte)
            BY <1>1, <2>1, AppendProperties, ConcatProperties DEF PTypeOK
        <3>3. PTypeOK'
            BY <1>1, <1>2, <2>1, <2>2, <3>1, <3>2 DEF PTypeOK, writer
        <3> QED BY <1>1, <1>9, <1>2, <2>1, <2>2, <3>1, <3>3 DEF PIInv, ReaderInv, WriterInv, writer
    <2>4. CASE ~Complete(l)
        <3>1. /\ result' = l /\ lines' = lines /\ out' = out
              /\ rpc' = IF has_data' THEN "unload" ELSE "poll"
            BY <1>7, <2>4 DEF Unload
        <3>2. l # <<>> /\ l[Len(l)] # NL
            BY <1>2, <2>1, <2>4 DEF Complete, EndsLine
        <3>3. \A i \in 1..Len(l) : l[i] # NL
            <4> HIDE DEF l
            <4>1. \A i \in 1..Len(l) : i \in 1..Len(l) - 1 \/ i = Len(l)
                BY <2>1
            <4> QED BY <2>1, <3>2, <4>1
        <3>4. PTypeOK'
            BY <1>1, <2>1, <2>2, <3>1 DEF PTypeOK, writer
        <3> QED BY <1>1, <1>9, <2>1, <2>2, <3>1, <3>3, <3>4 DEF PIInv, ReaderInv, WriterInv, writer
    <2> QED BY <2>3, <2>4
<1>8. CASE SetDirectionRead
    <2>1. BTypeOK' /\ has_data' = has_data /\ EmptyIsAllFree'
        BY <1>1, <1>8, BufferSame DEF SetDirectionRead
    <2>2. PTypeOK'
        BY <1>1, <1>8, <2>1 DEF SetDirectionRead, PTypeOK, writer
    <2> QED BY <1>1, <1>9, <1>8, <2>1, <2>2 DEF SetDirectionRead, PIInv, ReaderInv, WriterInv, writer
<1> QED BY <1>3, <1>4, <1>5, <1>6, <1>7, <1>8 DEF Reader

-----------------------------------------------------------------------------
(* The steps of the writers.                                                 *)

(* With atomic whole-line writes a write call has all or nothing transferred *)
(* and is not followed by one of a newline.                                  *)
AtomicInv == AtomicLines => \A w \in Writers :
                /\ wpc[w] # "newline"
                /\ wpc[w] = "data" => unwritten[w] = Head(todo[w])

LEMMA HeadOfTodo ==
    ASSUME PIInv, NEW w \in Writers, todo[w] # <<>>
    PROVE  /\ Head(todo[w]) \in Message /\ Len(Head(todo[w])) \in Nat
           /\ Tail(todo[w]) \in Seq(Message)
           /\ \E j \in DOMAIN script[w] : Head(todo[w]) = script[w][j]
           /\ \E m \in 0..Len(script[w]) :
                 Tail(todo[w]) = SubSeq(script[w], m + 1, Len(script[w]))
<1>1. /\ script[w] \in Seq(Message) /\ todo[w] \in Seq(Message) /\ Len(script[w]) \in Nat
      /\ DOMAIN script[w] = 1..Len(script[w])
    BY LenProperties DEF PIInv, PTypeOK
<1>2. Head(todo[w]) \in Message /\ Tail(todo[w]) \in Seq(Message)
    BY <1>1, HeadTailProperties
<1>3. PICK m \in 0..Len(script[w]) : todo[w] = SubSeq(script[w], m + 1, Len(script[w]))
    BY DEF PIInv, WriterInv, TodoIsARest
<1>4. m + 1 \in 1..Len(script[w]) /\ Len(script[w]) \in m + 1..Len(script[w])
    <2>1. m # Len(script[w])
        <3> SUFFICES ASSUME m = Len(script[w]) PROVE FALSE
            OBVIOUS
        <3>1. todo[w] = <<>>
            BY <1>1, <1>3, SubSeqEmpty
        <3> QED BY <3>1
    <2> QED BY <1>1, <2>1
<1>5. Head(todo[w]) = script[w][m + 1] /\ Tail(todo[w]) = SubSeq(script[w], m + 1 + 1, Len(script[w]))
    BY <1>1, <1>3, <1>4, HeadTailOfSubSeq
<1>6. Len(Head(todo[w])) \in Nat
    BY <1>2, LenProperties DEF Message
<1>7. \E j \in DOMAIN script[w] : Head(todo[w]) = script[w][j]
    BY <1>1, <1>4, <1>5
<1>8. m + 1 \in 0..Len(script[w])
    BY <1>1, <1>4
<1> QED BY <1>2, <1>5, <1>6, <1>7, <1>8

LEMMA FinishedWriter ==
    ASSUME PIInv, NEW w \in Writers, wpc[w] \in {"data", "newline"}, Finished(w)
    PROVE  /\ wpc' \in [Writers -> {"ready", "data", "newline", "closed", "broken"}]
           /\ unwritten' \in [Writers -> Seq(Byte)]
           /\ todo' \in [Writers -> Seq(Message)]
           /\ \A v \in Writers \ {w} : wpc'[v] = wpc[v] /\ todo'[v] = todo[v] /\ unwritten'[v] = unwritten[v]
           /\ \/ wpc'[w] = "newline" /\ todo' = todo
              \/ wpc'[w] = "ready" /\ todo' = [todo EXCEPT ![w] = Tail(todo[w])]
           /\ wpc[w] = "data" /\ EndsLine(Head(todo[w])) =>
                 wpc'[w] = "ready" /\ todo' = [todo EXCEPT ![w] = Tail(todo[w])]
<1>1. /\ wpc \in [Writers -> {"ready", "data", "newline", "closed", "broken"}]
      /\ unwritten \in [Writers -> Seq(Byte)]
      /\ todo \in [Writers -> Seq(Message)]
      /\ <<NL>> \in Seq(Byte) /\ <<>> \in Seq(Byte)
    BY EmptySeq, BufferAssumption DEF PIInv, PTypeOK
<1>2. Tail(todo[w]) \in Seq(Message)
    BY HeadOfTodo DEF PIInv, WriterInv
<1> QED BY <1>1, <1>2 DEF Finished

LEMMA TransferMoves ==
    ASSUME PIInv, NEW w \in Writers, wpc[w] \in {"data", "newline"}, Transfer(w)
    PROVE  \E moved \in Seq(Byte) :
              /\ kernel' = kernel \o moved /\ sent' = sent \o moved
              /\ \/ Finished(w)
                 \/ /\ \E rest \in Seq(Byte) : unwritten' = [unwritten EXCEPT ![w] = rest]
                    /\ UNCHANGED <<wpc, todo>>
              /\ AtomicLines /\ AtomicInv => /\ Finished(w) /\ wpc[w] = "data"
                                             /\ moved = Head(todo[w])
<1> DEFINE n == Len(unwritten[w])
<1>1. unwritten[w] \in Seq(Byte) /\ n \in Nat
    BY LenProperties DEF PIInv, PTypeOK
<1>2. PICK k \in Transfers(w) :
         /\ kernel' = kernel \o SubSeq(unwritten[w], 1, k)
         /\ sent' = sent \o SubSeq(unwritten[w], 1, k)
         /\ IF k = n THEN Finished(w)
            ELSE /\ unwritten' = [unwritten EXCEPT ![w] = SubSeq(@, k + 1, Len(@))]
                 /\ UNCHANGED <<wpc, todo>>
    BY DEF Transfer
<1>3. k \in 0..n
    BY <1>1 DEF Transfers
<1>4. /\ SubSeq(unwritten[w], 1, k) \in Seq(Byte)
      /\ SubSeq(unwritten[w], k + 1, n) \in Seq(Byte)
    <2>1. \A i \in 1..n : unwritten[w][i] \in Byte
        BY <1>1, ElementOfSeq
    <2>2. SubSeq(unwritten[w], 1, k) \in Seq(Byte)
        BY <1>1, <1>3, <2>1, SubSeqProperties
    <2>3. SubSeq(unwritten[w], k + 1, n) \in Seq(Byte)
        BY <1>1, <1>3, <2>1, SubSeqProperties
    <2> QED BY <2>2, <2>3
<1>5. k # n => unwritten' = [unwritten EXCEPT ![w] = SubSeq(unwritten[w], k + 1, n)]
    BY <1>2 DEF PIInv, PTypeOK
<1>6. ASSUME AtomicLines, AtomicInv
      PROVE  k = n /\ wpc[w] = "data" /\ SubSeq(unwritten[w], 1, k) = Head(todo[w])
    <2>1. wpc[w] = "data" /\ unwritten[w] = Head(todo[w]) /\ todo[w] # <<>>
        BY <1>6 DEF AtomicInv, PIInv, WriterInv
    <2>2. PICK j \in DOMAIN script[w] : Head(todo[w]) = script[w][j]
        BY <2>1, HeadOfTodo
    <2>3. Len(Head(todo[w])) <= PIPE_BUF
        BY <1>6, <2>2 DEF AtomicLines
    <2>4. k = n
        BY <1>2, <2>1, <2>3 DEF Transfers
    <2> QED BY <1>1, <2>1, <2>4, SubSeqFull
<1> QED BY <1>2, <1>4, <1>5, <1>6

(* A step of a writer puts bytes into the kernel pipe, with atomic           *)
(* whole-line writes a whole string of the script or nothing.                *)
LEMMA WriterStep ==
    ASSUME PIInv, NEW w \in Writers, Writer(w) \/ Interrupted(w)
    PROVE  /\ PIInv' /\ UNCHANGED <<buffer, reader, script>>
           /\ AtomicInv => AtomicInv'
           /\ \E moved \in Seq(Byte) :
                 /\ kernel' = kernel \o moved /\ sent' = sent \o moved
                 /\ AtomicLines /\ AtomicInv =>
                       \/ moved = <<>> /\ (todo' = todo \/ Interrupted(w))
                       \/ /\ moved = Head(todo[w]) /\ todo[w] # <<>>
                          /\ todo' = [todo EXCEPT ![w] = Tail(todo[w])]
<1> DEFINE Pcs == {"ready", "data", "newline", "closed", "broken"}
<1>1. /\ wpc \in [Writers -> Pcs] /\ unwritten \in [Writers -> Seq(Byte)]
      /\ todo \in [Writers -> Seq(Message)]
      /\ kernel \in Seq(Byte) /\ sent \in Seq(Byte) /\ <<>> \in Seq(Byte)
      /\ kernel \o <<>> = kernel /\ sent \o <<>> = sent
      /\ PTypeOK /\ WriterInv
    BY EmptySeq, ConcatEmptySeq DEF PIInv, PTypeOK
<1>2. UNCHANGED <<buffer, reader, script>>
    BY DEF Writer, StartWrite, Write, CloseWriter, Interrupted
(* The obligations that all of the cases share.                              *)
<1>3. ASSUME wpc' \in [Writers -> Pcs], unwritten' \in [Writers -> Seq(Byte)],
             todo' \in [Writers -> Seq(Message)],
             NEW moved \in Seq(Byte), kernel' = kernel \o moved, sent' = sent \o moved,
             rd_open \/ moved = <<>>,
             \A v \in Writers \ {w} : wpc'[v] = wpc[v] /\ todo'[v] = todo[v],
             \/ todo'[w] = todo[w]
             \/ wpc'[w] = "ready" /\ todo[w] # <<>> /\ todo'[w] = Tail(todo[w]),
             wpc'[w] \in {"data", "newline"} => todo[w] # <<>>
      PROVE  PIInv'
    <2>1. kernel' \in Seq(Byte) /\ sent' \in Seq(Byte)
        BY <1>1, <1>3, ConcatProperties
    <2>2. PTypeOK'
        BY <1>1, <1>2, <1>3, <2>1 DEF PTypeOK, BTypeOK, buffer, reader
    <2>3. ReaderInv'
        BY <1>2 DEF PIInv, ReaderInv, buffer, reader, EmptyIsAllFree, has_data, free
    <2>4. ~rd_open' => kernel' = <<>>
        BY <1>1, <1>2, <1>3 DEF WriterInv, reader
    <2>5. ASSUME NEW v \in Writers PROVE TodoIsARest(v)'
        <3>1. TodoIsARest(v) /\ script' = script
            BY <1>1, <1>2 DEF WriterInv
        <3>2. CASE todo'[v] = todo[v]
            BY <3>1, <3>2 DEF TodoIsARest
        <3>3. CASE todo[v] # <<>> /\ todo'[v] = Tail(todo[v])
            BY <3>1, <3>3, HeadOfTodo DEF TodoIsARest
        <3> QED BY <1>3, <3>2, <3>3
    <2>6. \A v \in Writers : wpc'[v] \in {"data", "newline"} => todo'[v] # <<>>
        BY <1>1, <1>3 DEF WriterInv
    <2> QED BY <2>2, <2>3, <2>4, <2>5, <2>6 DEF PIInv, WriterInv
<1>4. AtomicLines' <=> AtomicLines
    BY <1>2 DEF AtomicLines
<1>5. CASE StartWrite(w)
    <2>1. /\ wpc[w] = "ready" /\ todo[w] # <<>> /\ UNCHANGED <<kernel, todo, sent>>
          /\ wpc' = [wpc EXCEPT ![w] = "data"]
          /\ unwritten' = [unwritten EXCEPT ![w] = Head(todo[w])]
        BY <1>5 DEF StartWrite
    <2>2. Head(todo[w]) \in Seq(Byte)
        BY <2>1, HeadOfTodo DEF Message
    <2>3. PIInv'
        BY <1>1, <1>3, <2>1, <2>2
    <2>4. AtomicInv => AtomicInv'
        BY <1>1, <1>4, <2>1 DEF AtomicInv
    <2> QED BY <1>1, <1>2, <2>1, <2>3, <2>4
<1>6. CASE CloseWriter(w)
    <2>1. /\ UNCHANGED <<kernel, unwritten, todo, sent>>
          /\ wpc' = [wpc EXCEPT ![w] = "closed"]
        BY <1>6 DEF CloseWriter
    <2>2. PIInv'
        BY <1>1, <1>3, <2>1
    <2>3. AtomicInv => AtomicInv'
        BY <1>1, <1>4, <2>1 DEF AtomicInv
    <2> QED BY <1>1, <1>2, <2>1, <2>2, <2>3
<1>7. CASE Write(w) /\ ~rd_open
    <2>1. /\ UNCHANGED <<kernel, unwritten, todo, sent>>
          /\ wpc' = [wpc EXCEPT ![w] = "broken"]
        BY <1>7 DEF Write, WriteBroken
    <2>2. PIInv'
        BY <1>1, <1>3, <2>1
    <2>3. AtomicInv => AtomicInv'
        BY <1>1, <1>4, <2>1 DEF AtomicInv
    <2> QED BY <1>1, <1>2, <2>1, <2>2, <2>3
<1>8. CASE Write(w) /\ rd_open
    <2>1. wpc[w] \in {"data", "newline"} /\ Transfer(w)
        BY <1>8 DEF Write
    <2>2. PICK moved \in Seq(Byte) :
              /\ kernel' = kernel \o moved /\ sent' = sent \o moved
              /\ \/ Finished(w)
                 \/ /\ \E rest \in Seq(Byte) : unwritten' = [unwritten EXCEPT ![w] = rest]
                    /\ UNCHANGED <<wpc, todo>>
              /\ AtomicLines /\ AtomicInv => /\ Finished(w) /\ wpc[w] = "data"
                                             /\ moved = Head(todo[w])
        BY <2>1, TransferMoves
    <2>3. todo[w] # <<>>
        BY <1>1, <2>1 DEF WriterInv
    <2>4. PIInv'
        <3>1. CASE Finished(w)
            <4>1. /\ wpc' \in [Writers -> Pcs] /\ unwritten' \in [Writers -> Seq(Byte)]
                  /\ todo' \in [Writers -> Seq(Message)]
                  /\ \A v \in Writers \ {w} : wpc'[v] = wpc[v] /\ todo'[v] = todo[v]
                  /\ \/ todo'[w] = todo[w]
                     \/ wpc'[w] = "ready" /\ todo'[w] = Tail(todo[w])
                BY <1>1, <2>1, <3>1, FinishedWriter
            <4> QED BY <1>3, <1>8, <2>2, <2>3, <4>1
        <3>2. CASE /\ \E rest \in Seq(Byte) : unwritten' = [unwritten EXCEPT ![w] = rest]
                   /\ UNCHANGED <<wpc, todo>>
            <4>1. unwritten' \in [Writers -> Seq(Byte)]
                BY <1>1, <3>2
            <4> QED BY <1>1, <1>3, <1>8, <2>2, <2>3, <3>2, <4>1
        <3> QED BY <2>2, <3>1, <3>2
    <2>5. ASSUME AtomicLines, AtomicInv
          PROVE  /\ moved = Head(todo[w]) /\ todo' = [todo EXCEPT ![w] = Tail(todo[w])]
                 /\ AtomicInv'
        <3>1. /\ Finished(w) /\ wpc[w] = "data" /\ moved = Head(todo[w])
              /\ EndsLine(Head(todo[w]))
            BY <2>2, <2>3, <2>5, HeadOfTodo DEF AtomicLines
        <3>2. /\ wpc'[w] = "ready" /\ todo' = [todo EXCEPT ![w] = Tail(todo[w])]
              /\ \A v \in Writers \ {w} : wpc'[v] = wpc[v] /\ todo'[v] = todo[v]
                                          /\ unwritten'[v] = unwritten[v]
            BY <2>1, <3>1, FinishedWriter
        <3> QED BY <2>5, <3>1, <3>2 DEF AtomicInv
    <2>6. AtomicInv => AtomicInv'
        BY <1>4, <2>5 DEF AtomicInv
    <2> QED BY <1>2, <2>2, <2>3, <2>4, <2>5, <2>6
<1>9. CASE Interrupted(w)
    <2>1. /\ wpc[w] \in {"data", "newline"} /\ UNCHANGED <<kernel, sent>>
          /\ IF wpc[w] = "data" /\ unwritten[w] # Head(todo[w]) THEN Finished(w)
             ELSE /\ wpc' = [wpc EXCEPT ![w] = "ready"]
                  /\ unwritten' = [unwritten EXCEPT ![w] = <<>>]
                  /\ todo' = [todo EXCEPT ![w] = Tail(todo[w])]
        BY <1>9 DEF Interrupted
    <2>2. todo[w] # <<>> /\ Tail(todo[w]) \in Seq(Message)
        BY <1>1, <2>1, HeadOfTodo DEF WriterInv
    <2>3. PIInv'
        <3>1. CASE Finished(w)
            <4>1. /\ wpc' \in [Writers -> Pcs] /\ unwritten' \in [Writers -> Seq(Byte)]
                  /\ todo' \in [Writers -> Seq(Message)]
                  /\ \A v \in Writers \ {w} : wpc'[v] = wpc[v] /\ todo'[v] = todo[v]
                  /\ \/ todo'[w] = todo[w]
                     \/ wpc'[w] = "ready" /\ todo'[w] = Tail(todo[w])
                BY <1>1, <2>1, <3>1, FinishedWriter
            <4> QED BY <1>1, <1>3, <2>1, <2>2, <4>1
        <3>2. CASE ~Finished(w)
            BY <1>1, <1>3, <2>1, <2>2, <3>2
        <3> QED BY <3>1, <3>2
    <2>4. AtomicInv => AtomicInv'
        <3> SUFFICES ASSUME AtomicInv, AtomicLines PROVE AtomicInv'
            BY <1>4 DEF AtomicInv
        <3>1. wpc[w] = "data" /\ unwritten[w] = Head(todo[w])
            BY <2>1 DEF AtomicInv
        <3>2. /\ wpc' = [wpc EXCEPT ![w] = "ready"]
              /\ unwritten' = [unwritten EXCEPT ![w] = <<>>]
              /\ todo' = [todo EXCEPT ![w] = Tail(todo[w])]
            BY <2>1, <3>1
        <3> QED BY <1>1, <3>2 DEF AtomicInv
    <2> QED BY <1>1, <1>2, <1>9, <2>1, <2>3, <2>4
<1> QED BY <1>5, <1>6, <1>7, <1>8, <1>9 DEF Writer

-----------------------------------------------------------------------------
(* Concatenation under a name: where only its associativity matters, the     *)
(* provers take it for any operator.                                         *)
Cat(s, t) == s \o t

LEMMA CatType ==
    ASSUME NEW s \in Seq(Byte), NEW t \in Seq(Byte)
    PROVE  Cat(s, t) \in Seq(Byte)
BY ConcatProperties DEF Cat

LEMMA CatAssociative ==
    ASSUME NEW s \in Seq(Byte), NEW t \in Seq(Byte), NEW u \in Seq(Byte)
    PROVE  Cat(Cat(s, t), u) = Cat(s, Cat(t, u))
BY ConcatAssociative DEF Cat

LEMMA CatEmpty ==
    ASSUME NEW s \in Seq(Byte)
    PROVE  Cat(s, <<>>) = s /\ Cat(<<>>, s) = s
BY ConcatEmptySeq DEF Cat

LEMMA Regroup ==
    ASSUME NEW r \in Seq(Byte), NEW l \in Seq(Byte), NEW s \in Seq(Byte),
           NEW c \in Seq(Byte), NEW k \in Seq(Byte)
    PROVE  Cat(Cat(r, Cat(Cat(l, s), c)), k) = Cat(Cat(Cat(r, l), s), Cat(c, k))
BY CatAssociative, CatType

(* What a step of the reader does to the bytes that were sent and are not    *)
(* consumed: in its local, the buffer and the kernel pipe.                   *)
InPipe == Cat(Cat(result, Content), kernel)

IsLine(l) == EndsLine(l) /\ \A i \in 1..Len(l) - 1 : l[i] # NL

(* It leaves them, as it does what it handed out,                            *)
Leaves == UNCHANGED <<InPipe, out, lines, discarded>>

(* or fails and drops the piece of a line that is all there is,              *)
Drops == /\ InPipe = result /\ InPipe' = <<>>
         /\ out' = Cat(out, result) /\ discarded' = Cat(discarded, result)
         /\ lines' = lines

(* or takes a line, and with it a NUL perhaps.                               *)
Takes == \E l \in Seq(Byte), skipped \in {<<>>, <<NUL>>} :
            /\ IsLine(l)
            /\ InPipe = Cat(Cat(l, skipped), InPipe')
            /\ lines' = Append(lines, l) /\ out' = Cat(out, l)
            /\ discarded' = discarded

LEMMA InPipeType ==
    ASSUME PTypeOK
    PROVE  /\ InPipe \in Seq(Byte) /\ Content \in Seq(Byte)
           /\ Cat(result, Content) \in Seq(Byte)
           /\ kernel \in Seq(Byte) /\ result \in Seq(Byte)
BY ContentType, CatType DEF PTypeOK, InPipe

LEMMA InPipeTypeNext ==
    ASSUME PTypeOK'
    PROVE  InPipe' \in Seq(Byte)
<1>1. Content' \in Seq(Byte) /\ result' \in Seq(Byte) /\ kernel' \in Seq(Byte)
    BY ContentTypeNext DEF PTypeOK
<1> QED BY <1>1, CatType DEF InPipe

LEMMA ReaderStep ==
    ASSUME PIInv, Reader \/ SetDirectionRead
    PROVE  /\ UNCHANGED writer
           /\ Leaves \/ Drops \/ Takes
<1>1. /\ PTypeOK /\ BTypeOK
      /\ kernel \in Seq(Byte) /\ result \in Seq(Byte) /\ Content \in Seq(Byte)
      /\ out \in Seq(Byte) /\ <<>> \in Seq(Byte)
      /\ rpc = "idle" => result = <<>>
      /\ ~rd_open => kernel = <<>>
    BY EmptySeq, ContentType DEF PIInv, PTypeOK, ReaderInv, WriterInv
<1>2. UNCHANGED writer
    BY DEF Reader, Call, PollReadable, PollEmpty, BufferLoad, Unload, SetDirectionRead
<1>3. CASE Call \/ PollReadable \/ SetDirectionRead
    <2>1. UNCHANGED <<buffer, kernel, result, out, lines, discarded>>
        BY <1>1, <1>3 DEF Call, PollReadable, SetDirectionRead
    <2>2. Content' = Content
        BY <2>1, BufferSame
    <2> QED BY <1>2, <2>1, <2>2 DEF Leaves, InPipe
<1>4. CASE PollEmpty
    <2>1. /\ UNCHANGED <<buffer, kernel, lines>> /\ result' = <<>>
          /\ out' = Cat(out, result) /\ discarded' = Cat(discarded, result)
          /\ ~has_data /\ kernel = <<>>
        BY <1>1, <1>4 DEF PollEmpty, can_be_read, is_READ, PIInv, ReaderInv, Cat
    <2>2. Content = <<>> /\ Content' = <<>>
        BY <1>1, <2>1, BufferSame, EmptyContent
    <2>3. InPipe = result /\ InPipe' = <<>>
        BY <1>1, <2>1, <2>2, CatEmpty DEF InPipe
    <2> QED BY <1>2, <2>1, <2>3 DEF Drops
<1>5. CASE BufferLoad
    <2>1. /\ UNCHANGED <<result, lines, out, discarded>>
          /\ BTypeOK' /\ kernel' \in Seq(Byte)
          /\ Cat(Content', kernel') = Cat(Content, kernel)
        BY <1>5, BufferLoadMoves DEF BufferLoad, Cat
    <2>2. Content' \in Seq(Byte)
        BY <2>1, ContentTypeNext
    <2>3. InPipe = Cat(result, Cat(Content, kernel))
        BY <1>1, CatAssociative DEF InPipe
    <2>4. InPipe' = Cat(result, Cat(Content', kernel'))
        BY <1>1, <2>1, <2>2, CatAssociative DEF InPipe
    <2> QED BY <1>2, <2>1, <2>3, <2>4 DEF Leaves
<1>6. CASE Unload
    <2>1. unload_line /\ UNCHANGED <<kernel, discarded>>
        BY <1>6 DEF Unload
    <2>2. PICK l \in Seq(Byte) : l = result \o Line
        BY <1>6, UnloadGathers
    <2>3. /\ Len(l) \in Nat \ {0} /\ Line \in Seq(Byte)
          /\ \A i \in 1..Len(l) - 1 : l[i] # NL
          /\ l[Len(l)] = Line[Len(Line)]
          /\ Content' \in Seq(Byte)
        BY <1>6, <2>2, UnloadGathers
    <2>4. EndsLine(l) <=> Line[Len(Line)] = NL
        BY <2>3, EmptySeq DEF EndsLine
    <2>5. l = Cat(result, Line)
        BY <2>2 DEF Cat
    <2>6. CASE EndsLine(l)
        <3>1. /\ lines' = Append(lines, l) /\ out' = (out \o result) \o Line
              /\ result' = <<>>
            BY <1>6, <2>2, <2>6 DEF Unload, Complete
        <3>2. out' = Cat(out, l)
            <4>1. out' = Cat(Cat(out, result), Line)
                BY <3>1 DEF Cat
            <4> QED BY <1>1, <2>3, <2>5, <4>1, CatAssociative
        <3>3. PICK skipped \in {<<>>, <<NUL>>} : Content = (Line \o skipped) \o Content'
            BY <1>1, <2>1, UnloadTakesTheFront
        <3>4. skipped \in Seq(Byte)
            <4>1. <<NUL>> \in Seq(Byte)
                BY BufferAssumption
            <4> QED BY <1>1, <3>3, <4>1
        <3>5. InPipe' = Cat(Content', kernel)
            BY <2>1, <2>3, <3>1, CatEmpty DEF InPipe
        <3>6. InPipe = Cat(Cat(l, skipped), InPipe')
            <4>1. Content = Cat(Cat(Line, skipped), Content')
                BY <3>3 DEF Cat
            <4>2. InPipe = Cat(Cat(result, Cat(Cat(Line, skipped), Content')), kernel)
                BY <4>1 DEF InPipe
            <4> QED BY <1>1, <2>3, <2>5, <3>4, <3>5, <4>2, Regroup
        <3>7. IsLine(l)
            BY <2>3, <2>6 DEF IsLine
        <3> QED BY <1>2, <2>1, <3>1, <3>2, <3>6, <3>7 DEF Takes
    <2>7. CASE ~EndsLine(l)
        <3>1. result' = Cat(result, Line) /\ lines' = lines /\ out' = out
            BY <1>6, <2>2, <2>5, <2>7 DEF Unload, Complete
        <3>2. Line = Content /\ Content' = <<>>
            BY <1>1, <2>1, <2>4, <2>7, LineShape
        <3>3. InPipe' = InPipe
            BY <1>1, <2>1, <3>1, <3>2, CatEmpty, CatType DEF InPipe
        <3> QED BY <1>2, <2>1, <3>1, <3>3 DEF Leaves
    <2> QED BY <2>6, <2>7
<1> QED BY <1>3, <1>4, <1>5, <1>6 DEF Reader

(* What a step of a writer does to the bytes in the pipe.                    *)
LEMMA WriterEffect ==
    ASSUME PIInv, NEW w \in Writers, Writer(w) \/ Interrupted(w)
    PROVE  \E moved \in Seq(Byte) :
              /\ InPipe' = Cat(InPipe, moved) /\ sent' = Cat(sent, moved)
              /\ AtomicLines /\ AtomicInv =>
                    \/ moved = <<>> /\ (todo' = todo \/ Interrupted(w))
                    \/ /\ moved = Head(todo[w]) /\ todo[w] # <<>>
                       /\ todo' = [todo EXCEPT ![w] = Tail(todo[w])]
<1>1. PICK moved \in Seq(Byte) :
         /\ kernel' = kernel \o moved /\ sent' = sent \o moved
         /\ AtomicLines /\ AtomicInv =>
               \/ moved = <<>> /\ (todo' = todo \/ Interrupted(w))
               \/ /\ moved = Head(todo[w]) /\ todo[w] # <<>>
                  /\ todo' = [todo EXCEPT ![w] = Tail(todo[w])]
    BY WriterStep
<1>2. Content' = Content /\ result' = result
    BY WriterStep, BufferSame DEF reader
<1>3. kernel' = Cat(kernel, moved) /\ sent' = Cat(sent, moved)
    BY <1>1 DEF Cat
<1>4. /\ kernel \in Seq(Byte) /\ Cat(result, Content) \in Seq(Byte)
    BY InPipeType DEF PIInv
<1>5. InPipe' = Cat(InPipe, moved)
    BY <1>2, <1>3, <1>4, CatAssociative DEF InPipe
<1> QED BY <1>1, <1>3, <1>5

-----------------------------------------------------------------------------
(* The program that moves the object, and the inductive invariant of all.    *)

LEMMA InitPIInv == PInit => PIInv /\ AtomicInv
<1> SUFFICES ASSUME PInit PROVE PIInv /\ AtomicInv
    OBVIOUS
<1>1. /\ <<>> \in Seq(Byte) /\ <<>> \in Seq(Seq(Byte)) /\ Len(<<>>) = 0
    BY EmptySeq
<1>2. BTypeOK /\ EmptyIsAllFree
    BY BufferAssumption DEF PInit, BInit, BTypeOK, EmptyIsAllFree, has_data, free
<1>3. script \in [Writers -> Seq(Message)]
    BY PipeAssumption DEF PInit, Message
<1>4. PTypeOK
    BY <1>1, <1>2, <1>3 DEF PInit, PTypeOK
<1>5. ReaderInv
    BY <1>1, <1>2 DEF PInit, ReaderInv, BInit, has_data
<1>6. ASSUME NEW w \in Writers PROVE TodoIsARest(w)
    <2>1. script[w] \in Seq(Message) /\ Len(script[w]) \in Nat /\ todo[w] = script[w]
        BY <1>3, LenProperties DEF PInit
    <2>2. 0 \in 0..Len(script[w]) /\ SubSeq(script[w], 0 + 1, Len(script[w])) = script[w]
        BY <2>1, SubSeqFull
    <2> QED BY <2>1, <2>2 DEF TodoIsARest
<1>7. WriterInv
    BY <1>1, <1>6 DEF PInit, WriterInv
<1>8. AtomicInv
    BY DEF PInit, AtomicInv
<1> QED BY <1>4, <1>5, <1>7, <1>8 DEF PIInv

LEMMA MoveStep ==
    ASSUME PIInv, Move
    PROVE  /\ PIInv' /\ UNCHANGED <<kernel, writer, lines, discarded>>
           /\ InPipe = Cat(Content, kernel) /\ InPipe' = kernel
           /\ out' = Cat(out, Content)
<1>1. /\ PTypeOK /\ BTypeOK /\ WriterInv
      /\ result = <<>> /\ result' = <<>> /\ rpc' = "idle" /\ out \in Seq(Byte)
      /\ UNCHANGED <<kernel, writer, rd_open, wr_open, lines, discarded>>
      /\ data' = [i \in DOMAIN data |-> NUL] /\ used_begin' = 0 /\ used_end' = 0
      /\ \A i \in 1..Len(discarded) : discarded[i] # NL
    BY DEF PIInv, PTypeOK, ReaderInv, Move
<1>2. Content \in Seq(Byte) /\ <<>> \in Seq(Byte) /\ Len(<<>>) = 0 /\ kernel \in Seq(Byte)
    BY <1>1, ContentType, EmptySeq DEF PTypeOK
<1>3. BTypeOK' /\ EmptyIsAllFree' /\ ~has_data'
    BY <1>1, BufferAssumption DEF BTypeOK, EmptyIsAllFree, has_data, free
<1>4. out' = Cat(out, Content) /\ out' \in Seq(Byte)
    <2>1. out' = Cat(out, Content)
        BY DEF Move, Cat
    <2> QED BY <1>1, <1>2, <2>1, CatType
<1>5. PTypeOK'
    BY <1>1, <1>2, <1>3, <1>4 DEF PTypeOK, writer
<1>6. ReaderInv'
    BY <1>1, <1>2, <1>3 DEF ReaderInv
<1>7. WriterInv'
    BY <1>1 DEF WriterInv, TodoIsARest, writer
<1>8. Content' = <<>>
    <2>1. Content' \in Seq(Byte) /\ Len(Content') = 0
        BY <1>1, <1>3, ContentTypeNext
    <2> QED BY <2>1, EmptySeq
<1>9. InPipe = Cat(Content, kernel) /\ InPipe' = kernel
    BY <1>1, <1>2, <1>8, CatEmpty DEF InPipe
<1> QED BY <1>1, <1>4, <1>5, <1>6, <1>7, <1>9 DEF PIInv

(* A step of the program: of the reader, a move or of a writer.              *)
LEMMA NextPIInv == PIInv /\ [Next]_vars => PIInv'
<1> SUFFICES ASSUME PIInv, [Next]_vars PROVE PIInv'
    OBVIOUS
<1>1. CASE Reader \/ SetDirectionRead
    BY <1>1, ReaderPIInv
<1>2. CASE Move
    BY <1>2, MoveStep
<1>3. ASSUME NEW w \in Writers, Writer(w) \/ Interrupted(w) PROVE PIInv'
    BY <1>3, WriterStep
<1>4. CASE UNCHANGED vars
    BY <1>4 DEF vars, pvars, buffer, reader, writer, PIInv, PTypeOK, BTypeOK, ReaderInv,
                EmptyIsAllFree, has_data, free, WriterInv, TodoIsARest
<1> QED BY <1>1, <1>2, <1>3, <1>4 DEF Next

(* What does not write leaves the scripts' strings as they are cut.          *)
LEMMA AtomicInvStays ==
    ASSUME AtomicInv, UNCHANGED writer
    PROVE  AtomicInv' /\ (AtomicLines' <=> AtomicLines)
BY DEF AtomicInv, AtomicLines, writer

LEMMA NextAtomicInv == PIInv /\ AtomicInv /\ [Next]_vars => AtomicInv'
<1> SUFFICES ASSUME PIInv, AtomicInv, [Next]_vars PROVE AtomicInv'
    OBVIOUS
<1>1. CASE Reader \/ SetDirectionRead
    BY <1>1, ReaderStep, AtomicInvStays
<1>2. CASE Move
    BY <1>2, MoveStep, AtomicInvStays
<1>3. ASSUME NEW w \in Writers, Writer(w) \/ Interrupted(w) PROVE AtomicInv'
    BY <1>3, WriterStep
<1>4. CASE UNCHANGED vars
    BY <1>4, AtomicInvStays DEF vars, pvars
<1> QED BY <1>1, <1>2, <1>3, <1>4 DEF Next

-----------------------------------------------------------------------------
(* No byte but a NUL is lost or out of its order.                            *)

BytesInv == WithoutNuls(Cat(out, InPipe)) = WithoutNuls(sent)

LEMMA WithoutNulsCat ==
    ASSUME NEW s \in Seq(Byte), NEW t \in Seq(Byte)
    PROVE  WithoutNuls(Cat(s, t)) = WithoutNuls(s) \o WithoutNuls(t)
BY WithoutNulsConcat DEF Cat

LEMMA WithoutASkippedNul ==
    ASSUME NEW s \in Seq(Byte), NEW skipped \in {<<>>, <<NUL>>}
    PROVE  /\ Cat(s, skipped) \in Seq(Byte)
           /\ WithoutNuls(Cat(s, skipped)) = WithoutNuls(s)
<1>1. CASE skipped = <<>>
    BY <1>1, CatEmpty
<1>2. CASE skipped = <<NUL>>
    <2>1. NUL \in Byte /\ <<NUL>> \in Seq(Byte)
        BY BufferAssumption
    <2>2. Cat(s, skipped) = Append(s, NUL)
        BY <1>2, <2>1, AppendIsConcat DEF Cat
    <2> QED BY <1>2, <2>1, <2>2, CatType, WithoutNulsAppend
<1> QED BY <1>1, <1>2

LEMMA ReaderBytesInv ==
    ASSUME PIInv, PIInv', BytesInv, Reader \/ SetDirectionRead
    PROVE  BytesInv'
<1>1. /\ out \in Seq(Byte) /\ InPipe \in Seq(Byte) /\ InPipe' \in Seq(Byte)
      /\ result \in Seq(Byte)
    BY InPipeType, InPipeTypeNext DEF PIInv, PTypeOK
<1>2. sent' = sent
    BY ReaderStep DEF writer
<1>3. CASE Leaves
    BY <1>2, <1>3 DEF Leaves, BytesInv
<1>4. CASE Drops
    <2>1. Cat(out', InPipe') = Cat(out, InPipe)
        BY <1>1, <1>4, CatType, CatEmpty DEF Drops
    <2> QED BY <1>2, <2>1 DEF BytesInv
<1>5. CASE Takes
    <2>1. PICK l \in Seq(Byte), skipped \in {<<>>, <<NUL>>} :
             /\ InPipe = Cat(Cat(l, skipped), InPipe') /\ out' = Cat(out, l)
        BY <1>5 DEF Takes
    <2>2. PICK rest \in Seq(Byte) : rest = InPipe'
        BY <1>1
    <2>3. Cat(out, l) \in Seq(Byte) /\ Cat(l, rest) \in Seq(Byte) /\ Cat(l, skipped) \in Seq(Byte)
        BY <1>1, CatType, WithoutASkippedNul
    <2>4. Cat(out', InPipe') = Cat(out, Cat(l, rest))
        BY <1>1, <2>1, <2>2, CatAssociative
    <2>5. WithoutNuls(Cat(l, rest)) = WithoutNuls(InPipe)
        <3>1. WithoutNuls(Cat(l, rest)) = WithoutNuls(l) \o WithoutNuls(rest)
            BY WithoutNulsCat
        <3>2. WithoutNuls(InPipe) = WithoutNuls(Cat(l, skipped)) \o WithoutNuls(rest)
            BY <2>1, <2>2, <2>3, WithoutNulsCat
        <3>3. WithoutNuls(Cat(l, skipped)) = WithoutNuls(l)
            BY WithoutASkippedNul
        <3> QED BY <3>1, <3>2, <3>3
    <2>6. WithoutNuls(Cat(out, Cat(l, rest))) = WithoutNuls(out) \o WithoutNuls(Cat(l, rest))
        BY <1>1, <2>3, WithoutNulsCat
    <2>7. WithoutNuls(Cat(out, InPipe)) = WithoutNuls(out) \o WithoutNuls(InPipe)
        BY <1>1, WithoutNulsCat
    <2> QED BY <1>2, <2>4, <2>5, <2>6, <2>7 DEF BytesInv
<1> QED BY <1>3, <1>4, <1>5, ReaderStep

LEMMA NextBytesInv == PIInv /\ BytesInv /\ [Next]_vars => BytesInv'
<1> SUFFICES ASSUME PIInv, BytesInv, [Next]_vars PROVE BytesInv'
    OBVIOUS
<1>1. /\ out \in Seq(Byte) /\ InPipe \in Seq(Byte) /\ sent \in Seq(Byte)
      /\ kernel \in Seq(Byte) /\ Content \in Seq(Byte)
    BY InPipeType DEF PIInv, PTypeOK
<1>2. PIInv'
    BY NextPIInv
<1>3. CASE Reader \/ SetDirectionRead
    BY <1>2, <1>3, ReaderBytesInv
<1>4. CASE Move
    <2>1. Cat(out', InPipe') = Cat(out, InPipe)
        BY <1>1, <1>4, MoveStep, CatAssociative
    <2>2. sent' = sent
        BY <1>4, MoveStep DEF writer
    <2> QED BY <2>1, <2>2 DEF BytesInv
<1>5. ASSUME NEW w \in Writers, Writer(w) \/ Interrupted(w) PROVE BytesInv'
    <2>1. PICK moved \in Seq(Byte) : InPipe' = Cat(InPipe, moved) /\ sent' = Cat(sent, moved)
        BY <1>5, WriterEffect
    <2>2. out' = out
        BY <1>5, WriterStep DEF reader
    <2>3. Cat(out', InPipe') = Cat(Cat(out, InPipe), moved)
        BY <1>1, <2>1, <2>2, CatAssociative
    <2>4. WithoutNuls(Cat(Cat(out, InPipe), moved))
             = WithoutNuls(Cat(out, InPipe)) \o WithoutNuls(moved)
        BY <1>1, CatType, WithoutNulsCat
    <2>5. WithoutNuls(Cat(sent, moved)) = WithoutNuls(sent) \o WithoutNuls(moved)
        BY <1>1, WithoutNulsCat
    <2> QED BY <2>1, <2>3, <2>4, <2>5 DEF BytesInv
<1>6. CASE UNCHANGED vars
    BY <1>6 DEF vars, pvars, buffer, reader, writer, BytesInv, InPipe, Content, loaded
<1> QED BY <1>3, <1>4, <1>5, <1>6 DEF Next

-----------------------------------------------------------------------------
(* With atomic whole-line writes the lines come out as they were written.    *)

(* What is in the pipe is the end of what was sent.                          *)
RestInv == \E gone \in Seq(Byte) : sent = Cat(gone, InPipe)

(* A stretch of a string that is one line.                                   *)
IsLineOf(s, n, m) == s[m] = NL /\ \A i \in n..m - 1 : s[i] # NL

(* What was sent consists of lines of the scripts, and so does what came out.*)
LinesInv == AtomicLines =>
    /\ sent = <<>> \/ sent[Len(sent)] = NL
    /\ \A m \in 1..Len(sent) : \A n \in 1..m :
          IsLineOf(sent, n, m) => EndsAScriptLine(SubSeq(sent, n, m))
    /\ \A i \in 1..Len(lines) : EndsAScriptLine(lines[i])

(* Stretches of a concatenation.                                             *)
LEMMA CatAt ==
    ASSUME NEW s \in Seq(Byte), NEW t \in Seq(Byte)
    PROVE  /\ Len(s) \in Nat /\ Len(t) \in Nat /\ Len(Cat(s, t)) = Len(s) + Len(t)
           /\ \A i \in 1..Len(s) : Cat(s, t)[i] = s[i]
           /\ \A i \in Len(s) + 1..Len(s) + Len(t) : Cat(s, t)[i] = t[i - Len(s)]
BY ConcatProperties, LenProperties DEF Cat

LEMMA LineInside ==
    ASSUME NEW g \in Seq(Byte), NEW l \in Seq(Byte), NEW r \in Seq(Byte), IsLine(l)
    PROVE  LET s == Cat(Cat(g, l), r) IN
           \E m \in 1..Len(s) : \E n \in 1..m : IsLineOf(s, n, m) /\ SubSeq(s, n, m) = l
<1> DEFINE h == Cat(g, l)
           s == Cat(h, r)
           n == Len(g) + 1
           m == Len(g) + Len(l)
<1>1. h \in Seq(Byte) /\ s \in Seq(Byte)
    BY CatType
<1>2. /\ Len(g) \in Nat /\ Len(l) \in Nat /\ Len(h) = Len(g) + Len(l)
      /\ \A i \in Len(g) + 1..Len(g) + Len(l) : h[i] = l[i - Len(g)]
    BY CatAt
<1>3. /\ Len(r) \in Nat /\ Len(s) = Len(h) + Len(r)
      /\ \A i \in 1..Len(h) : s[i] = h[i]
    BY <1>1, CatAt
<1>4. Len(l) # 0 /\ l[Len(l)] = NL /\ \A i \in 1..Len(l) - 1 : l[i] # NL
    BY EmptySeq DEF IsLine, EndsLine
<1> HIDE DEF h, s
<1>5. m \in 1..Len(h) /\ m \in 1..Len(s) /\ n \in 1..m /\ n \in 1..Len(h)
    BY <1>2, <1>3, <1>4
<1>6. \A i \in n..m : s[i] = l[i - Len(g)]
    BY <1>2, <1>3
<1>7. IsLineOf(s, n, m)
    <2>1. s[m] = l[Len(l)]
        BY <1>2, <1>4, <1>6
    <2>2. \A i \in n..m - 1 : i \in n..m /\ i - Len(g) \in 1..Len(l) - 1
        BY <1>2
    <2> QED BY <1>4, <1>6, <2>1, <2>2 DEF IsLineOf
<1>8. SubSeq(s, n, m) = l
    <2>1. SubSeq(s, n, m) = SubSeq(h, n, m)
        BY <1>1, <1>5, SubSeqOfConcat1 DEF s, Cat
    <2>2. /\ n \in Len(g) + 1..Len(g) + Len(l) /\ m \in Len(g) + 1..Len(g) + Len(l)
          /\ n - Len(g) = 1 /\ m - Len(g) = Len(l)
        BY <1>2, <1>4
    <2>3. SubSeq(h, n, m) = SubSeq(l, 1, Len(l))
        BY <2>2, SubSeqOfConcat2 DEF h, Cat
    <2> QED BY <2>1, <2>3, SubSeqFull
<1> QED BY <1>5, <1>7, <1>8 DEF h, s

LEMMA LinesOfCat ==
    ASSUME NEW s \in Seq(Byte), NEW t \in Seq(Byte), s = <<>> \/ s[Len(s)] = NL,
           NEW m \in 1..Len(Cat(s, t)), NEW n \in 1..m, IsLineOf(Cat(s, t), n, m)
    PROVE  \/ /\ m \in 1..Len(s) /\ IsLineOf(s, n, m)
              /\ SubSeq(Cat(s, t), n, m) = SubSeq(s, n, m)
           \/ \E j \in 1..Len(t) : \E i \in 1..j :
                 IsLineOf(t, i, j) /\ SubSeq(Cat(s, t), n, m) = SubSeq(t, i, j)
<1>1. /\ Len(s) \in Nat /\ Len(t) \in Nat /\ Len(Cat(s, t)) = Len(s) + Len(t)
      /\ \A i \in 1..Len(s) : Cat(s, t)[i] = s[i]
      /\ \A i \in Len(s) + 1..Len(s) + Len(t) : Cat(s, t)[i] = t[i - Len(s)]
    BY CatAt
<1>2. CASE m <= Len(s)
    <2>1. m \in 1..Len(s) /\ n \in 1..Len(s) /\ \A i \in n..m : i \in 1..Len(s)
        BY <1>1, <1>2
    <2>2. SubSeq(Cat(s, t), n, m) = SubSeq(s, n, m)
        BY <2>1, SubSeqOfConcat1 DEF Cat
    <2>3. IsLineOf(s, n, m)
        <3>1. \A i \in n..m - 1 : i \in n..m
            OBVIOUS
        <3> QED BY <1>1, <2>1, <3>1 DEF IsLineOf
    <2> QED BY <2>1, <2>2, <2>3
<1>3. CASE ~(m <= Len(s))
    <2>1. ~(n <= Len(s))
        <3> SUFFICES ASSUME n <= Len(s) PROVE FALSE
            OBVIOUS
        <3>1. Len(s) \in n..m - 1 /\ Len(s) \in 1..Len(s)
            BY <1>1, <1>3
        <3>2. s # <<>>
            BY <3>1, EmptySeq
        <3> QED BY <1>1, <3>1, <3>2 DEF IsLineOf
    <2> DEFINE i == n - Len(s)
               j == m - Len(s)
    <2>2. /\ j \in 1..Len(t) /\ i \in 1..j
          /\ m \in Len(s) + 1..Len(s) + Len(t) /\ n \in Len(s) + 1..Len(s) + Len(t)
        BY <1>1, <1>3, <2>1
    <2>3. SubSeq(Cat(s, t), n, m) = SubSeq(t, i, j)
        BY <2>2, SubSeqOfConcat2 DEF Cat
    <2>4. IsLineOf(t, i, j)
        <3>1. t[j] = NL
            BY <1>1, <2>2 DEF IsLineOf
        <3>2. ASSUME NEW k \in i..j - 1 PROVE t[k] # NL
            <4>1. PICK p \in Len(s) + 1..Len(s) + Len(t) : p \in n..m - 1 /\ p - Len(s) = k
                <5>1. /\ Len(s) + k \in n..m - 1 /\ Len(s) + k - Len(s) = k
                      /\ Len(s) + k \in Len(s) + 1..Len(s) + Len(t)
                    BY <1>1, <2>2
                <5> QED BY <5>1
            <4>2. Cat(s, t)[p] # NL
                BY <4>1 DEF IsLineOf
            <4>3. Cat(s, t)[p] = t[k]
                BY <1>1, <4>1
            <4> QED BY <4>2, <4>3
        <3> QED BY <3>1, <3>2 DEF IsLineOf
    <2> QED BY <2>2, <2>3, <2>4
<1> QED BY <1>2, <1>3

LEMMA SuffixOfCat ==
    ASSUME NEW s \in Seq(Byte), NEW t \in Seq(Byte)
    PROVE  t = SubSeq(Cat(s, t), Len(s) + 1, Len(Cat(s, t)))
<1>1. Len(s) \in Nat /\ Len(t) \in Nat /\ Len(Cat(s, t)) = Len(s) + Len(t)
    BY CatAt
<1>2. CASE Len(t) = 0
    <2>1. SubSeq(Cat(s, t), Len(s) + 1, Len(Cat(s, t))) = <<>>
        BY <1>1, <1>2, SubSeqEmpty
    <2> QED BY <1>2, <2>1, EmptySeq
<1>3. CASE Len(t) # 0
    <2>1. /\ Len(s) + 1 \in Len(s) + 1..Len(s) + Len(t)
          /\ Len(Cat(s, t)) \in Len(s) + 1..Len(s) + Len(t)
          /\ Len(s) + 1 - Len(s) = 1 /\ Len(Cat(s, t)) - Len(s) = Len(t)
        BY <1>1, <1>3
    <2>2. SubSeq(Cat(s, t), Len(s) + 1, Len(Cat(s, t))) = SubSeq(t, 1, Len(t))
        BY <2>1, SubSeqOfConcat2 DEF Cat
    <2> QED BY <2>2, SubSeqFull
<1> QED BY <1>2, <1>3

LEMMA NextRestInv == PIInv /\ RestInv /\ [Next]_vars => RestInv'
<1> SUFFICES ASSUME PIInv, RestInv, [Next]_vars PROVE RestInv'
    OBVIOUS
<1>1. PICK gone \in Seq(Byte) : sent = Cat(gone, InPipe)
    BY DEF RestInv
<1>2. /\ InPipe \in Seq(Byte) /\ sent \in Seq(Byte) /\ sent' \in Seq(Byte)
      /\ InPipe' \in Seq(Byte) /\ Content \in Seq(Byte) /\ kernel \in Seq(Byte)
    BY NextPIInv, InPipeType, InPipeTypeNext DEF PIInv, PTypeOK
<1>3. CASE Reader \/ SetDirectionRead
    <2>1. sent' = sent
        BY <1>3, ReaderStep DEF writer
    <2>2. CASE Leaves
        BY <1>1, <2>1, <2>2 DEF Leaves, RestInv
    <2>3. CASE Drops
        <3>1. sent' = Cat(sent, InPipe')
            BY <1>2, <2>1, <2>3, CatEmpty DEF Drops
        <3> QED BY <1>2, <3>1 DEF RestInv
    <2>4. CASE Takes
        <3>1. PICK l \in Seq(Byte), skipped \in {<<>>, <<NUL>>} :
                 InPipe = Cat(Cat(l, skipped), InPipe')
            BY <2>4 DEF Takes
        <3>2. Cat(l, skipped) \in Seq(Byte)
            BY WithoutASkippedNul
        <3>3. sent' = Cat(Cat(gone, Cat(l, skipped)), InPipe')
            BY <1>1, <1>2, <2>1, <3>1, <3>2, CatAssociative
        <3> QED BY <3>2, <3>3, CatType DEF RestInv
    <2> QED BY <1>3, <2>2, <2>3, <2>4, ReaderStep
<1>4. CASE Move
    <2>1. sent' = sent /\ InPipe = Cat(Content, kernel) /\ InPipe' = kernel
        BY <1>4, MoveStep DEF writer
    <2>2. sent' = Cat(Cat(gone, Content), InPipe')
        BY <1>1, <1>2, <2>1, CatAssociative
    <2> QED BY <1>2, <2>2, CatType DEF RestInv
<1>5. ASSUME NEW w \in Writers, Writer(w) \/ Interrupted(w) PROVE RestInv'
    <2>1. PICK moved \in Seq(Byte) : InPipe' = Cat(InPipe, moved) /\ sent' = Cat(sent, moved)
        BY <1>5, WriterEffect
    <2>2. sent' = Cat(gone, InPipe')
        BY <1>1, <1>2, <2>1, CatAssociative
    <2> QED BY <2>2 DEF RestInv
<1>6. CASE UNCHANGED vars
    BY <1>1, <1>6 DEF vars, pvars, buffer, reader, writer, RestInv, InPipe, Content, loaded
<1> QED BY <1>3, <1>4, <1>5, <1>6 DEF Next

(* What was sent grows by whole strings of the scripts.                      *)
LEMMA SentGrows ==
    ASSUME PIInv, LinesInv, AtomicLines, UNCHANGED <<script, lines>>,
           NEW w \in Writers, NEW j \in DOMAIN script[w], sent' = Cat(sent, script[w][j])
    PROVE  LinesInv'
<1> DEFINE moved == script[w][j]
<1>1. sent \in Seq(Byte) /\ moved \in Seq(Byte) /\ moved # <<>> /\ moved[Len(moved)] = NL
    <2>1. script[w] \in Seq(Message)
        BY DEF PIInv, PTypeOK
    <2>2. moved \in Message
        BY <2>1, ElementOfSeq, LenProperties
    <2>3. EndsLine(moved)
        BY DEF AtomicLines
    <2> QED BY <2>2, <2>3 DEF PIInv, PTypeOK, Message, EndsLine
<1>2. /\ sent = <<>> \/ sent[Len(sent)] = NL
      /\ \A m \in 1..Len(sent) : \A n \in 1..m :
            IsLineOf(sent, n, m) => EndsAScriptLine(SubSeq(sent, n, m))
      /\ \A i \in 1..Len(lines) : EndsAScriptLine(lines[i])
    BY DEF LinesInv
<1>3. \A line : EndsAScriptLine(line)' <=> EndsAScriptLine(line)
    BY DEF EndsAScriptLine
<1>4. sent'[Len(sent')] = NL
    <2>1. /\ Len(sent) \in Nat /\ Len(moved) \in Nat /\ Len(sent') = Len(sent) + Len(moved)
          /\ \A i \in Len(sent) + 1..Len(sent) + Len(moved) : sent'[i] = moved[i - Len(sent)]
        BY <1>1, CatAt
    <2>2. /\ Len(moved) # 0 /\ Len(sent') \in Len(sent) + 1..Len(sent) + Len(moved)
          /\ Len(sent') - Len(sent) = Len(moved)
        BY <1>1, <2>1, EmptySeq
    <2> QED BY <1>1, <2>1, <2>2
<1>5. ASSUME NEW m \in 1..Len(sent'), NEW n \in 1..m, IsLineOf(sent', n, m)
      PROVE  EndsAScriptLine(SubSeq(sent', n, m))
    <2> HIDE DEF moved
    <2>1. \/ /\ m \in 1..Len(sent) /\ IsLineOf(sent, n, m)
             /\ SubSeq(sent', n, m) = SubSeq(sent, n, m)
          \/ \E k \in 1..Len(moved) : \E i \in 1..k :
                IsLineOf(moved, i, k) /\ SubSeq(sent', n, m) = SubSeq(moved, i, k)
        <3>1. sent' = Cat(sent, moved)
            BY DEF moved
        <3>2. m \in 1..Len(Cat(sent, moved)) /\ IsLineOf(Cat(sent, moved), n, m)
            BY <1>5, <3>1
        <3>3. \/ /\ m \in 1..Len(sent) /\ IsLineOf(sent, n, m)
                 /\ SubSeq(Cat(sent, moved), n, m) = SubSeq(sent, n, m)
              \/ \E k \in 1..Len(moved) : \E i \in 1..k :
                    /\ IsLineOf(moved, i, k)
                    /\ SubSeq(Cat(sent, moved), n, m) = SubSeq(moved, i, k)
            BY <1>1, <1>2, <3>2, LinesOfCat
        <3> QED BY <3>1, <3>3
    <2>2. ASSUME NEW k \in 1..Len(moved), NEW i \in 1..k, IsLineOf(moved, i, k)
          PROVE  EndsAScriptLine(SubSeq(moved, i, k))
        BY <2>2 DEF EndsAScriptLine, IsLineOf, moved
    <2> QED BY <1>2, <2>1, <2>2
<1> QED BY <1>2, <1>3, <1>4, <1>5 DEF LinesInv

LEMMA NextLinesInv ==
    PIInv /\ AtomicInv /\ RestInv /\ LinesInv /\ [Next]_vars => LinesInv'
<1> SUFFICES ASSUME PIInv, AtomicInv, RestInv, LinesInv, [Next]_vars PROVE LinesInv'
    OBVIOUS
(* A step that sends and returns nothing.                                    *)
<1>1. ASSUME UNCHANGED <<script, sent, lines>> PROVE LinesInv'
    <2>1. AtomicLines' <=> AtomicLines
        BY <1>1 DEF AtomicLines
    <2>2. \A line : EndsAScriptLine(line)' <=> EndsAScriptLine(line)
        BY <1>1 DEF EndsAScriptLine
    <2> QED BY <1>1, <2>1, <2>2 DEF LinesInv
<1>2. CASE Reader \/ SetDirectionRead
    <2>1. UNCHANGED <<script, sent>>
        BY <1>2, ReaderStep DEF writer
    <2>2. CASE lines' = lines
        BY <1>1, <2>1, <2>2
    <2>3. CASE Takes
        <3>1. PICK l \in Seq(Byte), skipped \in {<<>>, <<NUL>>} :
                 /\ IsLine(l) /\ lines' = Append(lines, l)
                 /\ InPipe = Cat(Cat(l, skipped), InPipe')
            BY <2>3 DEF Takes
        <3>2. \A line : EndsAScriptLine(line)' <=> EndsAScriptLine(line)
            BY <2>1 DEF EndsAScriptLine
        <3>3. AtomicLines' <=> AtomicLines
            BY <2>1 DEF AtomicLines
        <3>4. ASSUME AtomicLines PROVE EndsAScriptLine(l)
            <4>1. PICK gone \in Seq(Byte) : sent = Cat(gone, InPipe)
                BY DEF RestInv
            <4>2. skipped \in Seq(Byte) /\ InPipe' \in Seq(Byte)
                <5>1. <<>> \in Seq(Byte) /\ <<NUL>> \in Seq(Byte)
                    BY EmptySeq, BufferAssumption
                <5> QED BY <5>1, NextPIInv, InPipeTypeNext DEF PIInv
            <4>3. PICK rest \in Seq(Byte) : rest = Cat(skipped, InPipe')
                BY <4>2, CatType
            <4>4. InPipe = Cat(l, rest)
                BY <3>1, <4>2, <4>3, CatAssociative
            <4>5. sent = Cat(Cat(gone, l), rest)
                BY <4>1, <4>4, CatAssociative
            <4>6. \E m \in 1..Len(sent) : \E n \in 1..m :
                     IsLineOf(sent, n, m) /\ SubSeq(sent, n, m) = l
                <5>1. \E m \in 1..Len(Cat(Cat(gone, l), rest)) : \E n \in 1..m :
                         /\ IsLineOf(Cat(Cat(gone, l), rest), n, m)
                         /\ SubSeq(Cat(Cat(gone, l), rest), n, m) = l
                    BY <3>1, LineInside
                <5> QED BY <4>5, <5>1
            <4>7. \A m \in 1..Len(sent) : \A n \in 1..m :
                     IsLineOf(sent, n, m) => EndsAScriptLine(SubSeq(sent, n, m))
                BY <3>4 DEF LinesInv
            <4> QED BY <4>6, <4>7
        <3>5. /\ Len(lines') = Len(lines) + 1 /\ Len(lines) \in Nat
              /\ lines'[Len(lines')] = l
              /\ \A i \in 1..Len(lines) : lines'[i] = lines[i]
            BY <3>1, AppendProperties, LenProperties DEF PIInv, PTypeOK
        <3>6. \A i \in 1..Len(lines') : i \in 1..Len(lines) \/ i = Len(lines')
            BY <3>5
        <3> QED BY <2>1, <3>2, <3>3, <3>4, <3>5, <3>6 DEF LinesInv
    <2> QED BY <1>2, <2>2, <2>3, ReaderStep DEF Leaves, Drops
<1>3. CASE Move
    BY <1>1, <1>3, MoveStep DEF writer
<1>4. ASSUME NEW w \in Writers, Writer(w) \/ Interrupted(w) PROVE LinesInv'
    <2>1. UNCHANGED <<script, lines>>
        BY <1>4, WriterStep DEF reader
    <2>2. CASE ~AtomicLines
        BY <2>1, <2>2 DEF LinesInv, AtomicLines
    <2>3. CASE AtomicLines
        <3>1. PICK moved \in Seq(Byte) :
                 /\ sent' = Cat(sent, moved)
                 /\ moved = <<>> \/ (moved = Head(todo[w]) /\ todo[w] # <<>>)
            BY <1>4, <2>3, WriterEffect
        <3>2. CASE moved = <<>>
            <4>1. sent' = sent
                BY <3>1, <3>2, CatEmpty DEF PIInv, PTypeOK
            <4> QED BY <1>1, <2>1, <4>1
        <3>3. CASE moved = Head(todo[w]) /\ todo[w] # <<>>
            <4>1. PICK j \in DOMAIN script[w] : moved = script[w][j]
                BY <3>3, HeadOfTodo
            <4> QED BY <2>1, <2>3, <3>1, <4>1, SentGrows
        <3> QED BY <3>1, <3>2, <3>3
    <2> QED BY <2>2, <2>3
<1>5. CASE UNCHANGED vars
    BY <1>1, <1>5 DEF vars, pvars, reader, writer
<1> QED BY <1>2, <1>3, <1>4, <1>5 DEF Next

LEMMA InitInPipe == PInit => InPipe = <<>>
<1> SUFFICES ASSUME PInit PROVE InPipe = <<>>
    OBVIOUS
<1>1. <<>> \in Seq(Byte)
    BY EmptySeq
<1>2. result = <<>> /\ kernel = <<>> /\ BTypeOK /\ ~has_data
    BY InitPIInv DEF PInit, BInit, has_data, PIInv, PTypeOK
<1> QED BY <1>1, <1>2, EmptyContent, CatEmpty DEF InPipe

LEMMA InitHistory == Init => RestInv /\ LinesInv /\ BytesInv
<1> SUFFICES ASSUME Init PROVE RestInv /\ LinesInv /\ BytesInv
    OBVIOUS
<1>1. <<>> \in Seq(Byte) /\ Len(<<>>) = 0
    BY EmptySeq
<1>2. sent = <<>> /\ lines = <<>> /\ out = <<>>
    BY DEF Init, PInit
<1>3. InPipe = <<>>
    BY InitInPipe DEF Init
<1>4. RestInv /\ BytesInv
    BY <1>1, <1>2, <1>3, CatEmpty DEF RestInv, BytesInv
<1>5. LinesInv
    BY <1>1, <1>2 DEF LinesInv
<1> QED BY <1>4, <1>5

LPIInv == PIInv /\ AtomicInv /\ RestInv /\ LinesInv /\ BytesInv

LEMMA InitLPIInv == Init => LPIInv
BY InitPIInv, InitHistory DEF Init, LPIInv

LEMMA NextLPIInv == LPIInv /\ [Next]_vars => LPIInv'
BY NextPIInv, NextAtomicInv, NextRestInv, NextLinesInv, NextBytesInv DEF LPIInv

-----------------------------------------------------------------------------
(* The variables keep their types: the index arithmetic of the buffer stays  *)
(* inside its storage under any reader, writers, scripts and sizes.          *)
THEOREM PipeTypeCorrect == Spec => []PTypeOK
<1>1. LPIInv => PTypeOK
    BY DEF LPIInv, PIInv
<1> QED BY <1>1, InitLPIInv, NextLPIInv, PTL DEF Spec

(* However the bytes are cut into writes, transfers, reads and lines, none   *)
(* but a NUL is lost, doubled or out of its order before the reader has it or*)
(* a move leaves it behind, a failed call drops no newline, and with atomic  *)
(* whole-line writes every line handed out is the end of a written one.      *)
THEOREM BytesKeepTheirOrder == Spec => []BytesInOrder
<1>1. LPIInv => BytesInOrder
    <2> SUFFICES ASSUME LPIInv PROVE BytesInOrder
        OBVIOUS
    <2>1. /\ out \in Seq(Byte) /\ result \in Seq(Byte) /\ kernel \in Seq(Byte)
          /\ Content \in Seq(Byte) /\ Cat(result, Content) \in Seq(Byte)
          /\ discarded \in Seq(Byte) /\ lines \in Seq(Seq(Byte))
        BY InPipeType DEF LPIInv, PIInv, PTypeOK
    <2>2. Cat(Cat(Cat(out, result), Content), kernel) = Cat(out, InPipe)
        BY <2>1, CatType, CatAssociative DEF InPipe
    <2>3. WithoutNuls(Cat(Cat(Cat(out, result), Content), kernel)) = WithoutNuls(sent)
        BY <2>2 DEF LPIInv, BytesInv
    <2>4. WithoutNuls(out \o result \o Content \o kernel) = WithoutNuls(sent)
        BY <2>3 DEF Cat
    <2>5. \A i \in DOMAIN discarded : discarded[i] # NL
        BY <2>1, LenProperties DEF LPIInv, PIInv, ReaderInv
    <2>6. AtomicLines => \A i \in DOMAIN lines : EndsAScriptLine(lines[i])
        BY <2>1, LenProperties DEF LPIInv, LinesInv
    <2> QED BY <2>4, <2>5, <2>6 DEF BytesInOrder
<1> QED BY <1>1, InitLPIInv, NextLPIInv, PTL DEF Spec

(* The read end is closed at end of file only, for any size of the buffer.   *)
THEOREM ReadEndClosesAtEof == Spec => ReadEndClosedOnlyAtEof
<1>1. LPIInv /\ [Next]_vars => (rd_open /\ ~rd_open' => kernel = <<>> /\ NoWriter)
    <2> SUFFICES ASSUME LPIInv, [Next]_vars, rd_open, ~rd_open'
                 PROVE  kernel = <<>> /\ NoWriter
        OBVIOUS
    <2>1. BufferLoad
        <3>1. rd_open' # rd_open
            OBVIOUS
        <3>2. ASSUME NEW w \in Writers, Writer(w) \/ Interrupted(w) PROVE FALSE
            BY <3>1, <3>2, WriterStep DEF reader, LPIInv
        <3>3. CASE UNCHANGED vars
            BY <3>1, <3>3 DEF vars, pvars, reader
        <3>4. CASE Reader
            BY <3>1, <3>4 DEF Reader, Call, PollReadable, PollEmpty, Unload
        <3>5. CASE SetDirectionRead \/ Move
            BY <3>1, <3>5 DEF SetDirectionRead, Move
        <3> QED BY <3>2, <3>3, <3>4, <3>5 DEF Next
    <2>2. ReadSize = 0
        BY <2>1 DEF BufferLoad
    <2>3. kernel = <<>>
        BY <2>1, <2>2, BufferLoadMoves DEF LPIInv
    <2>4. free # 0
        BY <2>1, BufferAssumption DEF BufferLoad, LPIInv, PIInv, ReaderInv, EmptyIsAllFree
    <2> QED BY <2>1, <2>3, <2>4 DEF BufferLoad
<1> QED BY <1>1, InitLPIInv, NextLPIInv, PTL DEF Spec, ReadEndClosedOnlyAtEof

-----------------------------------------------------------------------------
(* The refinement of the queue of lines.                                     *)

(* What a line with no newline inside is to the queue that begins with it.   *)
LEMMA LineIsFirst ==
    ASSUME NEW l \in Seq(Byte), IsLine(l), NEW skipped \in {<<>>, <<NUL>>},
           NEW rest \in Seq(Byte), NEW q \in Seq(Byte), q = Cat(Cat(l, skipped), rest)
    PROVE  Queue!HasLine(q) /\ l = Queue!FirstLine(q) /\ rest \in Queue!Rests(q)
<1> DEFINE n == Len(l)
<1>1. /\ n \in Nat \ {0} /\ l[n] = NL /\ \A i \in 1..n - 1 : l[i] # NL
    BY EmptySeq, LenProperties DEF IsLine, EndsLine
<1>2. /\ skipped \in Seq(Byte) /\ Cat(l, skipped) \in Seq(Byte)
      /\ Len(skipped) = 0 \/ (Len(skipped) = 1 /\ skipped[1] = NUL)
    <2>1. <<NUL>> \in Seq(Byte) /\ Len(<<NUL>>) = 1 /\ <<NUL>>[1] = NUL
        BY BufferAssumption
    <2>2. <<>> \in Seq(Byte) /\ Len(<<>>) = 0
        BY EmptySeq
    <2>3. skipped \in Seq(Byte)
        BY <2>1, <2>2
    <2>4. CASE skipped = <<>>
        BY <2>2, <2>3, <2>4, CatType
    <2>5. CASE skipped = <<NUL>>
        BY <2>1, <2>3, <2>5, CatType
    <2> QED BY <2>4, <2>5
<1>3. PICK tail \in Seq(Byte) : tail = Cat(skipped, rest) /\ q = Cat(l, tail)
    BY <1>2, CatType, CatAssociative
<1>4. /\ Len(tail) \in Nat /\ Len(q) = n + Len(tail)
      /\ \A i \in 1..n : q[i] = l[i]
      /\ \A i \in n + 1..n + Len(tail) : q[i] = tail[i - n]
    <2>1. /\ Len(tail) \in Nat /\ Len(Cat(l, tail)) = n + Len(tail)
          /\ \A i \in 1..n : Cat(l, tail)[i] = l[i]
          /\ \A i \in n + 1..n + Len(tail) : Cat(l, tail)[i] = tail[i - n]
        BY CatAt
    <2> QED BY <1>3, <2>1
<1>5. Queue!HasLine(q) /\ Queue!LineLen(q) = n
    <2>1. n \in Queue!Newlines(q)
        <3>1. n \in 1..Len(q) /\ n \in 1..n
            BY <1>1, <1>4
        <3> QED BY <1>1, <1>4, <3>1 DEF Queue!Newlines
    <2>2. \A i \in Queue!Newlines(q) : n <= i
        <3> SUFFICES ASSUME NEW i \in 1..Len(q), q[i] = NL, ~(n <= i) PROVE FALSE
            BY <1>1 DEF Queue!Newlines
        <3>1. i \in 1..n - 1 /\ i \in 1..n
            BY <1>1
        <3> QED BY <1>1, <1>4, <3>1
    <2>3. Queue!FirstNewline(q) = n
        <3>1. \A i \in Queue!Newlines(q) : i \in Nat
            BY DEF Queue!Newlines
        <3> QED BY <1>1, <2>1, <2>2, <3>1 DEF Queue!FirstNewline
    <2> QED BY <2>1, <2>3 DEF Queue!HasLine, Queue!LineLen
<1>6. Queue!FirstLine(q) = l
    <2>1. SubSeq(q, 1, n) = l
        BY <1>3, PrefixOfConcat DEF Cat
    <2> QED BY <1>5, <2>1 DEF Queue!FirstLine
<1>7. rest \in Queue!Rests(q)
    <2>1. CASE Len(skipped) = 0
        <3>1. rest = SubSeq(q, n + 1, Len(q))
            <4>1. skipped = <<>>
                BY <1>2, <2>1, EmptySeq
            <4>2. tail = rest
                BY <1>3, <4>1, CatEmpty
            <4>3. rest = SubSeq(Cat(l, rest), n + 1, Len(Cat(l, rest)))
                BY SuffixOfCat
            <4> QED BY <1>3, <4>2, <4>3
        <3> QED BY <1>5, <3>1 DEF Queue!Rests, Queue!From
    <2>2. CASE Len(skipped) = 1 /\ skipped[1] = NUL
        <3>1. /\ Len(tail) = 1 + Len(rest) /\ tail[1] = NUL /\ Len(rest) \in Nat
            <4>1. /\ Len(Cat(skipped, rest)) = Len(skipped) + Len(rest) /\ Len(rest) \in Nat
                  /\ \A i \in 1..Len(skipped) : Cat(skipped, rest)[i] = skipped[i]
                BY <1>2, CatAt
            <4>2. 1 \in 1..Len(skipped)
                BY <2>2
            <4> QED BY <1>3, <2>2, <4>1, <4>2
        <3>2. n < Len(q) /\ q[n + 1] = NUL
            <4>1. PICK p \in n + 1..n + Len(tail) : p = n + 1 /\ p - n = 1
                <5>1. n + 1 \in n + 1..n + Len(tail) /\ n + 1 - n = 1
                    BY <1>1, <3>1
                <5> QED BY <5>1
            <4>2. q[p] = NUL
                BY <1>4, <3>1, <4>1
            <4>3. n < Len(q)
                BY <1>1, <1>4, <3>1
            <4> QED BY <4>1, <4>2, <4>3
        <3>3. Len(Cat(l, skipped)) = n + 1
            <4>1. Len(Cat(l, skipped)) = n + Len(skipped)
                BY <1>2, CatAt
            <4> QED BY <2>2, <4>1
        <3>4. rest = SubSeq(q, n + 1 + 1, Len(q))
            BY <1>2, <3>3, SuffixOfCat
        <3>5. n + 1 + 1 = n + 2
            BY <1>1
        <3> QED BY <1>5, <3>2, <3>4, <3>5 DEF Queue!Rests, Queue!From
    <2> QED BY <1>2, <2>1, <2>2
<1> QED BY <1>5, <1>6, <1>7

(* A failed call drops nothing where only whole lines are written: what is   *)
(* left in the pipe ends with one.                                           *)
LEMMA NothingToDrop ==
    ASSUME LPIInv, AtomicLines, InPipe = result
    PROVE  InPipe = <<>>
<1>1. /\ result \in Seq(Byte) /\ sent \in Seq(Byte)
      /\ \A i \in 1..Len(result) : result[i] # NL
      /\ sent = <<>> \/ sent[Len(sent)] = NL
    BY DEF LPIInv, PIInv, PTypeOK, ReaderInv, LinesInv
<1>2. PICK gone \in Seq(Byte) : sent = Cat(gone, result)
    BY DEF LPIInv, RestInv
<1>3. /\ Len(gone) \in Nat /\ Len(result) \in Nat /\ Len(sent) = Len(gone) + Len(result)
      /\ \A i \in Len(gone) + 1..Len(gone) + Len(result) : sent[i] = result[i - Len(gone)]
    <2>1. /\ Len(gone) \in Nat /\ Len(result) \in Nat
          /\ Len(Cat(gone, result)) = Len(gone) + Len(result)
          /\ \A i \in Len(gone) + 1..Len(gone) + Len(result) :
                Cat(gone, result)[i] = result[i - Len(gone)]
        BY <1>1, CatAt
    <2> QED BY <1>2, <2>1
<1>4. CASE Len(result) # 0
    <2>1. /\ Len(sent) \in Len(gone) + 1..Len(gone) + Len(result)
          /\ Len(sent) - Len(gone) = Len(result) /\ Len(result) \in 1..Len(result)
          /\ Len(sent) # 0
        BY <1>3, <1>4
    <2>2. sent # <<>>
        BY <2>1, EmptySeq
    <2> QED BY <1>1, <1>3, <2>1, <2>2
<1> QED BY <1>1, <1>4, EmptySeq

LEMMA QueueIs ==
    ASSUME AtomicLines, ~moves
    PROVE  /\ Queue!qvars = <<InPipe, lines>>
           /\ WhenAtomic(result \o Content \o kernel) = InPipe /\ WhenAtomic(lines) = lines
BY DEF WhenAtomic, Queue!qvars, InPipe, Cat

LEMMA StepImplementsLines ==
    LPIInv /\ [Next]_vars => [Queue!Put \/ Queue!TakeLine]_(Queue!qvars)
<1> SUFFICES ASSUME LPIInv, [Next]_vars PROVE [Queue!Put \/ Queue!TakeLine]_(Queue!qvars)
    OBVIOUS
<1>1. UNCHANGED <<script, moves>>
    <2>1. CASE UNCHANGED vars
        BY <2>1 DEF vars, pvars, writer
    <2>2. CASE Reader \/ SetDirectionRead
        BY <2>1, <2>2, ReaderStep DEF Next, writer, LPIInv, vars
    <2>3. CASE Move
        BY <2>1, <2>3, MoveStep DEF Next, writer, LPIInv, vars
    <2>4. ASSUME NEW w \in Writers, Writer(w) \/ Interrupted(w) PROVE script' = script
        BY <2>4, WriterStep DEF LPIInv
    <2> QED BY <2>1, <2>2, <2>3, <2>4 DEF Next
<1>2. (AtomicLines /\ ~moves)' <=> AtomicLines /\ ~moves
    BY <1>1 DEF AtomicLines
<1>3. CASE ~(AtomicLines /\ ~moves)
    BY <1>2, <1>3 DEF WhenAtomic, Queue!qvars
<1>4. CASE AtomicLines /\ ~moves
    <2>1. /\ WhenAtomic(result \o Content \o kernel) = InPipe
          /\ WhenAtomic(lines) = lines
        BY <1>4, QueueIs
    <2>2. /\ WhenAtomic(result \o Content \o kernel)' = InPipe'
          /\ WhenAtomic(lines)' = lines'
        BY <1>2, <1>4 DEF WhenAtomic, InPipe, Cat
    <2>3. InPipe \in Seq(Byte) /\ InPipe' \in Seq(Byte)
        BY InPipeType, InPipeTypeNext, NextPIInv DEF LPIInv, PIInv
    <2>4. CASE Reader \/ SetDirectionRead
        <3>1. CASE Leaves
            BY <2>1, <2>2, <3>1 DEF Leaves, Queue!qvars
        <3>2. CASE Drops
            <4>1. InPipe = <<>>
                BY <1>4, <3>2, NothingToDrop DEF Drops
            <4> QED BY <2>1, <2>2, <3>2, <4>1 DEF Drops, Queue!qvars
        <3>3. CASE Takes
            <4>1. PICK l \in Seq(Byte), skipped \in {<<>>, <<NUL>>} :
                     /\ IsLine(l) /\ lines' = Append(lines, l)
                     /\ InPipe = Cat(Cat(l, skipped), InPipe')
                BY <3>3 DEF Takes
            <4>2. Queue!HasLine(InPipe) /\ l = Queue!FirstLine(InPipe)
                  /\ InPipe' \in Queue!Rests(InPipe)
                BY <2>3, <4>1, LineIsFirst
            <4>3. lines' = Append(lines, Queue!FirstLine(InPipe))
                BY <4>1, <4>2
            <4> QED BY <2>1, <2>2, <4>2, <4>3 DEF Queue!TakeLine, Queue!Take
        <3> QED BY <2>4, <3>1, <3>2, <3>3, ReaderStep DEF LPIInv
    <2>5. ASSUME NEW w \in Writers, Writer(w) \/ Interrupted(w) PROVE Queue!Put
        <3>1. PICK moved \in Seq(Byte) : InPipe' = Cat(InPipe, moved)
            BY <2>5, WriterEffect DEF LPIInv
        <3>2. lines' = lines
            BY <2>5, WriterStep DEF reader, LPIInv
        <3>3. SubSeq(InPipe', 1, Len(InPipe)) = InPipe
            BY <2>3, <3>1, PrefixOfConcat DEF Cat
        <3>4. Len(InPipe') >= Len(InPipe)
            <4>1. /\ Len(InPipe) \in Nat /\ Len(moved) \in Nat
                  /\ Len(Cat(InPipe, moved)) = Len(InPipe) + Len(moved)
                BY <2>3, CatAt
            <4> QED BY <3>1, <4>1
        <3> QED BY <2>1, <2>2, <3>2, <3>3, <3>4 DEF Queue!Put
    <2>6. CASE UNCHANGED vars
        <3>1. InPipe' = InPipe /\ lines' = lines
            BY <2>6 DEF vars, pvars, buffer, reader, writer, InPipe, Content, loaded
        <3> QED BY <2>1, <2>2, <3>1 DEF Queue!qvars
    <2>7. ~Move
        BY <1>4 DEF Move
    <2> QED BY <2>4, <2>5, <2>6, <2>7 DEF Next
<1> QED BY <1>3, <1>4

(* With atomic whole-line writes, and while the object is not moved, the     *)
(* pipe is a queue of lines for any number of writers, any scripts and any   *)
(* sizes: every step of the reader, the kernel and the writers is a step of  *)
(* the queue or none of it.                                                  *)
THEOREM PipeImplementsLines == Spec => ImplementsLines
<1>1. Init => Queue!QInit
    <2> SUFFICES ASSUME Init PROVE Queue!QInit
        OBVIOUS
    <2>1. InPipe = <<>> /\ lines = <<>>
        BY InitInPipe DEF Init, PInit
    <2>2. WhenAtomic(InPipe) = <<>> /\ WhenAtomic(lines) = <<>>
        BY <2>1 DEF WhenAtomic
    <2> QED BY <2>2 DEF Queue!QInit, InPipe, Cat
<1> QED BY <1>1, InitLPIInv, NextLPIInv, StepImplementsLines, PTL
           DEF Spec, ImplementsLines, Queue!LineSpec
=============================================================================
