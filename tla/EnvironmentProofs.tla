------------------------- MODULE EnvironmentProofs -------------------------
(* Proofs about Environment, for any names, values and ways to name them.    *)
EXTENDS Environment, SequenceTheorems, FiniteSetTheorems, TLAPS

LEMMA EraseIs ==
    ASSUME NEW S, NEW s \in Seq(S), NEW i \in 1..Len(s)
    PROVE  /\ Erase(s, i) \in Seq(S)
           /\ Len(Erase(s, i)) = Len(s) - 1
           /\ \A k \in 1..Len(s) - 1 :
                 Erase(s, i)[k] = IF k < i THEN s[k] ELSE s[k + 1]
<1>1. \A k \in 1..Len(s) - 1 : k \in 1..Len(s) /\ k + 1 \in 1..Len(s)
    OBVIOUS
<1>2. \A k \in 1..Len(s) - 1 : (IF k < i THEN s[k] ELSE s[k + 1]) \in S
    BY <1>1
<1>3. Len(s) - 1 \in Nat
    OBVIOUS
<1> DEFINE f == [k \in 1..Len(s) - 1 |-> IF k < i THEN s[k] ELSE s[k + 1]]
<1>4. f \in [1..Len(s) - 1 -> S]
    BY <1>2
<1>5. f \in Seq(S) /\ Len(f) = Len(s) - 1
    BY <1>3, <1>4
<1> QED BY <1>5 DEF Erase

(* Definitions of which no two have the same name.                           *)
Distinct(defs) == \A i, j \in DOMAIN defs : name(defs[i]) = name(defs[j]) => i = j

LEMMA FirstMatchIs ==
    ASSUME NEW defs \in Seq(Text), NEW n, Distinct(defs),
           NEW i \in 1..Len(defs), name(defs[i]) = n
    PROVE  FirstMatch(defs, n) = i /\ Matches(defs, n) = {i}
<1>1. DOMAIN defs = 1..Len(defs)
    OBVIOUS
<1>2. Matches(defs, n) = {i}
    BY <1>1 DEF Matches, Distinct
<1>3. FirstMatch(defs, n) = i
    BY <1>2 DEF FirstMatch
<1> QED BY <1>2, <1>3

(* Once the old definition of a name is gone, the others are all there, once *)
(* and none of them has the name.                                            *)
LEMMA OthersAre ==
    ASSUME NEW defs \in Seq(Text), NEW n, Distinct(defs)
    PROVE  /\ Others(defs, n) \in Seq(Text)
           /\ Distinct(Others(defs, n))
           /\ \A k \in 1..Len(Others(defs, n)) : 
                 /\ name(Others(defs, n)[k]) # n
                 /\ \E j \in 1..Len(defs) : Others(defs, n)[k] = defs[j]
           /\ \A j \in 1..Len(defs) : name(defs[j]) # n
                 => \E k \in 1..Len(Others(defs, n)) : Others(defs, n)[k] = defs[j]
<1>0. DOMAIN defs = 1..Len(defs)
    OBVIOUS
<1>1. CASE Matches(defs, n) = {}
    <2>1. Others(defs, n) = defs
        BY <1>1 DEF Others
    <2>2. \A k \in 1..Len(defs) : name(defs[k]) # n
        BY <1>0, <1>1 DEF Matches
    <2> QED BY <2>1, <2>2
<1>2. CASE Matches(defs, n) # {}
    <2>1. PICK i \in 1..Len(defs) : name(defs[i]) = n
        BY <1>0, <1>2 DEF Matches
    <2>2. FirstMatch(defs, n) = i
        BY <2>1, FirstMatchIs
    <2> DEFINE e == Erase(defs, i)
    <2>3. Others(defs, n) = e
        BY <1>2, <2>2 DEF Others
    <2>4. /\ e \in Seq(Text)
          /\ Len(e) = Len(defs) - 1
          /\ \A k \in 1..Len(defs) - 1 : e[k] = IF k < i THEN defs[k] ELSE defs[k + 1]
        BY EraseIs
    <2> HIDE DEF e
    <2>5. DOMAIN e = 1..Len(defs) - 1
        BY <2>4
    <2> DEFINE at(k) == IF k < i THEN k ELSE k + 1
    <2>6. \A k \in 1..Len(defs) - 1 : at(k) \in 1..Len(defs) /\ at(k) # i /\ e[k] = defs[at(k)]
        BY <2>4
    <2>7. \A k, l \in 1..Len(defs) - 1 : at(k) = at(l) => k = l
        OBVIOUS
    <2>8. \A j \in 1..Len(defs) : j # i => \E k \in 1..Len(defs) - 1 : at(k) = j
        <3> SUFFICES ASSUME NEW j \in 1..Len(defs), j # i
                     PROVE  \E k \in 1..Len(defs) - 1 : at(k) = j
            OBVIOUS
        <3>1. CASE j < i
            <4>1. j \in 1..Len(defs) - 1 /\ at(j) = j
                BY <3>1
            <4> QED BY <4>1
        <3>2. CASE j > i
            <4>1. j - 1 \in 1..Len(defs) - 1 /\ at(j - 1) = j
                BY <3>2
            <4> QED BY <4>1
        <3> QED BY <3>1, <3>2
    <2> HIDE DEF at
    <2>9. Distinct(e)
        BY <1>0, <2>5, <2>6, <2>7 DEF Distinct
    <2>10. \A k \in 1..Len(defs) - 1 : name(e[k]) # n
        BY <1>0, <2>1, <2>6 DEF Distinct
    <2>11. \A j \in 1..Len(defs) : name(defs[j]) # n => \E k \in 1..Len(e) : e[k] = defs[j]
        BY <2>1, <2>4, <2>6, <2>8
    <2>12. \A k \in 1..Len(e) : \E j \in 1..Len(defs) : e[k] = defs[j]
        BY <2>4, <2>6
    <2> QED BY <2>3, <2>4, <2>9, <2>10, <2>11, <2>12
<1> QED BY <1>1, <1>2

LEMMA Seen ==
    ASSUME NEW defs \in Seq(Text), NEW n, Distinct(defs)
    PROVE  /\ \A i \in 1..Len(defs) : name(defs[i]) = n => ProgramSees(defs, n) = value_str(defs[i])
           /\ (\A i \in 1..Len(defs) : name(defs[i]) # n) => ProgramSees(defs, n) = Unset
<1>1. ASSUME NEW i \in 1..Len(defs), name(defs[i]) = n
      PROVE  ProgramSees(defs, n) = value_str(defs[i])
    <2>1. FirstMatch(defs, n) = i /\ Matches(defs, n) = {i}
        BY <1>1, FirstMatchIs
    <2>2. Matches(defs, n) # {}
        BY <2>1
    <2> QED BY <2>1, <2>2 DEF ProgramSees
<1>2. ASSUME \A i \in 1..Len(defs) : name(defs[i]) # n
      PROVE  ProgramSees(defs, n) = Unset
    <2>1. Matches(defs, n) = {}
        BY <1>2 DEF Matches
    <2> QED BY <2>1 DEF ProgramSees
<1> QED BY <1>1, <1>2

(* A definition that is added is what the program sees of its name, and it   *)
(* sees all other names as before.                                           *)
Replaced(defs, def) == Append(Others(defs, name(def)), def)

LEMMA Added ==
    ASSUME NEW defs \in Seq(Text), Distinct(defs), NEW def \in Text
    PROVE  LET new == Replaced(defs, def) IN
           /\ new \in Seq(Text)
           /\ Distinct(new)
           /\ \A k \in 1..Len(new) : new[k] = def \/ \E j \in 1..Len(defs) : new[k] = defs[j]
           /\ ProgramSees(new, name(def)) = value_str(def)
           /\ \A n : n # name(def) => ProgramSees(new, n) = ProgramSees(defs, n)
<1> DEFINE old == Others(defs, name(def))
           new == Replaced(defs, def)
<1>1. /\ old \in Seq(Text)
      /\ Distinct(old)
      /\ \A k \in 1..Len(old) : /\ name(old[k]) # name(def)
                                 /\ \E j \in 1..Len(defs) : old[k] = defs[j]
      /\ \A j \in 1..Len(defs) : name(defs[j]) # name(def)
                                    => \E k \in 1..Len(old) : old[k] = defs[j]
    BY OthersAre
<1>2. new = Append(old, def)
    BY DEF Replaced
<1> HIDE DEF old, new
<1>3. /\ new \in Seq(Text) /\ Len(new) = Len(old) + 1
      /\ \A k \in 1..Len(old) : new[k] = old[k]
      /\ new[Len(new)] = def
    BY <1>1, <1>2
<1>4. \A k \in 1..Len(new) : k \in 1..Len(old) \/ k = Len(new)
    BY <1>1, <1>3
<1>5. DOMAIN new = 1..Len(new) /\ DOMAIN old = 1..Len(old)
    BY <1>1, <1>3
<1>6. Len(new) \in 1..Len(new) /\ 1..Len(old) \subseteq 1..Len(new)
    BY <1>1, <1>3
<1>7. Distinct(new)
    <2> SUFFICES ASSUME NEW i \in 1..Len(new), NEW j \in 1..Len(new),
                        name(new[i]) = name(new[j])
                 PROVE  i = j
        BY <1>5 DEF Distinct
    <2>1. \A k \in 1..Len(old) : name(new[k]) = name(old[k]) /\ name(new[k]) # name(def)
        BY <1>1, <1>3
    <2>2. CASE i \in 1..Len(old) /\ j \in 1..Len(old)
        <3>1. name(old[i]) = name(old[j])
            BY <2>1, <2>2
        <3>2. \A k, m \in 1..Len(old) : name(old[k]) = name(old[m]) => k = m
            BY <1>1, <1>5 DEF Distinct
        <3> QED BY <2>2, <3>1, <3>2
    <2>3. CASE i = Len(new) \/ j = Len(new)
        BY <1>3, <1>4, <2>1, <2>3
    <2> QED BY <1>4, <2>2, <2>3
<1>8. ASSUME NEW k \in 1..Len(new)
      PROVE  new[k] = def \/ \E j \in 1..Len(defs) : new[k] = defs[j]
    <2>1. CASE k = Len(new)
        BY <1>3, <2>1
    <2>2. CASE k \in 1..Len(old)
        <3>1. new[k] = old[k]
            BY <1>3, <2>2
        <3>2. \E j \in 1..Len(defs) : old[k] = defs[j]
            BY <1>1, <2>2
        <3> QED BY <3>1, <3>2
    <2> QED BY <1>4, <2>1, <2>2
<1>9. ProgramSees(new, name(def)) = value_str(def)
    BY <1>3, <1>6, <1>7, Seen
<1>10. ASSUME NEW n, n # name(def)
       PROVE  ProgramSees(new, n) = ProgramSees(defs, n)
    <2>1. CASE \E j \in 1..Len(defs) : name(defs[j]) = n
        <3>1. PICK j \in 1..Len(defs) : name(defs[j]) = n
            BY <2>1
        <3>2. PICK k \in 1..Len(old) : old[k] = defs[j]
            BY <1>1, <1>10, <3>1
        <3>3. k \in 1..Len(new) /\ new[k] = defs[j]
            BY <1>3, <1>6, <3>2
        <3>4. ProgramSees(new, n) = value_str(new[k])
            BY <1>3, <1>7, <3>1, <3>3, Seen
        <3>5. ProgramSees(defs, n) = value_str(defs[j])
            BY <3>1, Seen
        <3> QED BY <3>3, <3>4, <3>5
    <2>2. CASE \A j \in 1..Len(defs) : name(defs[j]) # n
        <3>1. \A k \in 1..Len(new) : name(new[k]) # n
            BY <1>8, <1>10, <2>2
        <3>2. ProgramSees(new, n) = Unset
            BY <1>3, <1>7, <3>1, Seen
        <3>3. ProgramSees(defs, n) = Unset
            BY <2>2, Seen
        <3> QED BY <3>2, <3>3
    <2> QED BY <2>1, <2>2
<1> QED BY <1>3, <1>7, <1>8, <1>9, <1>10 DEF new

-----------------------------------------------------------------------------
LEMMA TailOfTwo ==
    ASSUME NEW S, NEW s \in Seq(S), Len(s) = 2
    PROVE  Tail(s) = <<s[2]>>
<1>1. s # <<>>
    OBVIOUS
<1>2. Tail(s) \in Seq(S) /\ Len(Tail(s)) = 1 /\ Tail(s)[1] = s[2]
    <2>1. Tail(s) \in Seq(S) /\ Len(Tail(s)) = Len(s) - 1
        BY <1>1, HeadTailProperties
    <2>2. \A i \in 1..Len(Tail(s)) : Tail(s)[i] = s[i + 1]
        BY <1>1, HeadTailProperties
    <2> QED BY <2>1, <2>2
<1>3. <<s[2]>> \in Seq(S) /\ Len(<<s[2]>>) = 1 /\ <<s[2]>>[1] = s[2]
    OBVIOUS
<1>4. \A i \in 1..1 : i = 1
    OBVIOUS
<1> QED BY <1>2, <1>3, <1>4, SeqEqual

(* What the operations pass to add, taken apart.                             *)
LEMMA Definitions ==
    ASSUME NEW raw \in Text, name(raw) \in Names
    PROVE  /\ \A value \in Text : /\ variable(raw, value) \in Text
                                  /\ Len(variable(raw, value)) > 1
                                  /\ name(variable(raw, value)) = name(raw)
                                  /\ value_str(variable(raw, value)) = Tail(raw) \o value
           /\ \A value \in Text : /\ set_value(raw, value) \in Text
                                  /\ Len(set_value(raw, value)) > 1
                                  /\ name(set_value(raw, value)) = name(raw)
                                  /\ value_str(set_value(raw, value)) = value
           /\ variable_of(raw) \in Text
           /\ Len(variable_of(raw)) > 1
           /\ name(variable_of(raw)) = name(raw)
           /\ value_str(variable_of(raw)) = IF Tail(raw) = <<>> THEN <<Empty>> ELSE Tail(raw)
<1> DEFINE S == Names \union {Empty}
<1>1. raw \in Seq(S) /\ Len(raw) > 0 /\ Len(raw) \in Nat
    BY DEF Text
<1>2. ASSUME NEW value \in Text
      PROVE  /\ variable(raw, value) \in Text
             /\ Len(variable(raw, value)) > 1
             /\ name(variable(raw, value)) = name(raw)
             /\ value_str(variable(raw, value)) = Tail(raw) \o value
    <2>1. value \in Seq(S) /\ Len(value) > 0 /\ Len(value) \in Nat
        BY DEF Text
    <2>2. raw \o value \in Seq(S) /\ Len(raw \o value) = Len(raw) + Len(value)
        BY <1>1, <2>1
    <2>3. Head(raw \o value) = Head(raw)
        BY <1>1, <2>1
    <2>4. Tail(raw \o value) = Tail(raw) \o value
        BY <1>1, <2>1
    <2> QED BY <1>1, <2>1, <2>2, <2>3, <2>4 DEF variable, name, value_str, Text
<1>3. ASSUME NEW value \in Text
      PROVE  /\ set_value(raw, value) \in Text
             /\ Len(set_value(raw, value)) > 1
             /\ name(set_value(raw, value)) = name(raw)
             /\ value_str(set_value(raw, value)) = value
    <2>1. value \in Seq(S) /\ Len(value) > 0 /\ Len(value) \in Nat
        BY DEF Text
    <2>2. <<Head(raw)>> \in Seq(S)
        BY DEF name
    <2>3. <<Head(raw)>> \o value \in Seq(S) /\ Len(<<Head(raw)>> \o value) = 1 + Len(value)
        BY <2>1, <2>2
    <2>4. Head(<<Head(raw)>> \o value) = Head(raw) /\ Tail(<<Head(raw)>> \o value) = value
        BY <2>1, <2>2
    <2> QED BY <2>1, <2>3, <2>4 DEF set_value, name, value_str, Text
<1>4. /\ variable_of(raw) \in Text
      /\ Len(variable_of(raw)) > 1
      /\ name(variable_of(raw)) = name(raw)
      /\ value_str(variable_of(raw)) = IF Tail(raw) = <<>> THEN <<Empty>> ELSE Tail(raw)
    <2>1. CASE Len(raw) = 1
        <3>1. /\ Append(raw, Empty) \in Seq(S) /\ Len(Append(raw, Empty)) = 2
              /\ Append(raw, Empty)[1] = raw[1] /\ Append(raw, Empty)[2] = Empty
            <4>1. raw \in Seq(S) /\ Empty \in S
                BY <1>1
            <4>2. /\ Append(raw, Empty) \in Seq(S) /\ Len(Append(raw, Empty)) = Len(raw) + 1
                  /\ \A i \in 1..Len(raw) : Append(raw, Empty)[i] = raw[i]
                  /\ Append(raw, Empty)[Len(raw) + 1] = Empty
                BY <4>1, AppendProperties
            <4> QED BY <2>1, <4>2
        <3>2. Head(Append(raw, Empty)) = Head(raw)
            BY <1>1, <3>1
        <3>3. Tail(Append(raw, Empty)) = <<Empty>>
            BY <3>1, TailOfTwo
        <3>4. Tail(raw) = <<>>
            <4>1. raw # <<>>
                BY DEF Text
            <4>2. Tail(raw) \in Seq(S) /\ Len(Tail(raw)) = 0
                BY <1>1, <2>1, <4>1, HeadTailProperties
            <4> QED BY <4>2, EmptySeq
        <3> QED BY <2>1, <3>1, <3>2, <3>3, <3>4 DEF variable_of, name, value_str, Text
    <2>2. CASE Len(raw) # 1
        <3>1. Tail(raw) # <<>>
            <4>1. Tail(raw) \in Seq(S) /\ Len(Tail(raw)) = Len(raw) - 1
                BY <1>1, HeadTailProperties DEF Text
            <4> QED BY <1>1, <2>2, <4>1, EmptySeq
        <3> QED BY <1>1, <2>2, <3>1 DEF variable_of, name, value_str, Text
    <2> QED BY <2>1, <2>2
<1> QED BY <1>2, <1>3, <1>4

SystemText(n) == IF system[n] = Unset THEN <<Empty>> ELSE system[n]

LEMMA ValuesAreTexts == Values \subseteq Text
                        /\ \A raw \in Raws : raw \in Text /\ name(raw) \in Names
BY EnvironmentAssumption DEF Text, name

LEMMA SystemTextIs == 
    ASSUME TypeOK, NEW n \in Names
    PROVE  SystemText(n) \in Text
<1>1. <<Empty>> \in Text
    BY DEF Text
<1>2. system[n] \in Values \union {Unset}
    BY DEF TypeOK
<1> QED BY <1>1, <1>2, ValuesAreTexts DEF SystemText

SeenNow == [n \in Names |-> ProgramSees(definitions, n)]

(* A step that adds a definition keeps the invariants and gives its name the *)
(* value it holds.                                                           *)
LEMMA AddStep ==
    ASSUME TypeOK, OneDefinition, UNCHANGED system,
           NEW def \in Text, Len(def) > 1, name(def) \in Names, add(def)
    PROVE  /\ TypeOK' /\ OneDefinition'
           /\ SeenNow' = [SeenNow EXCEPT ![name(def)] = value_str(def)]
<1>1. definitions \in Seq(Text) /\ Distinct(definitions)
    BY DEF TypeOK, OneDefinition, Distinct
<1> DEFINE new == Replaced(definitions, def)
<1>2. definitions' = new
    BY DEF add, Replaced
<1>3. /\ new \in Seq(Text)
      /\ Distinct(new)
      /\ \A k \in 1..Len(new) : new[k] = def \/ \E j \in 1..Len(definitions) : new[k] = definitions[j]
      /\ ProgramSees(new, name(def)) = value_str(def)
      /\ \A n : n # name(def) => ProgramSees(new, n) = ProgramSees(definitions, n)
    BY <1>1, Added
<1> HIDE DEF new
<1>4. DOMAIN definitions = 1..Len(definitions) /\ DOMAIN new = 1..Len(new)
    BY <1>1, <1>3
<1>5. \A i \in DOMAIN new : Len(new[i]) > 1 /\ Head(new[i]) \in Names
    BY <1>3, <1>4 DEF TypeOK, name
<1>6. TypeOK'
    BY <1>2, <1>3, <1>5 DEF TypeOK
<1>7. OneDefinition'
    BY <1>2, <1>3 DEF OneDefinition, Distinct
<1>8. SeenNow' = [n \in Names |-> ProgramSees(new, n)]
    BY <1>2 DEF SeenNow
<1>9. SeenNow' = [n \in Names |-> IF n = name(def) THEN value_str(def) ELSE ProgramSees(definitions, n)]
    BY <1>3, <1>8
<1>10. SeenNow' = [SeenNow EXCEPT ![name(def)] = value_str(def)]
    BY <1>9 DEF SeenNow
<1> QED BY <1>6, <1>7, <1>10

IInv == TypeOK /\ OneDefinition

LEMMA InitIInv == Init => IInv /\ Map!MInit
<1> SUFFICES ASSUME Init PROVE IInv /\ Map!MInit
    OBVIOUS
<1>1. definitions = <<>> /\ definitions \in Seq(Text) /\ DOMAIN definitions = {}
    BY DEF Init
<1>2. IInv
    BY <1>1 DEF Init, IInv, TypeOK, OneDefinition
<1>3. \A n \in Names : ProgramSees(definitions, n) = Unset
    BY <1>1 DEF ProgramSees, Matches
<1> QED BY <1>2, <1>3 DEF Init, Map!MInit

(* Every step keeps the invariant and is one of the map's, or none.          *)
LEMMA StepIInv ==
    IInv /\ [Next]_vars => IInv' /\ [Map!Set \/ Map!Import \/ Map!Add \/ Map!SystemChange]_(Map!mvars)
<1> DEFINE MapStep == [Map!Set \/ Map!Import \/ Map!Add \/ Map!SystemChange]_(Map!mvars)
<1> SUFFICES ASSUME IInv, [Next]_vars PROVE IInv' /\ MapStep
    OBVIOUS
<1>0. TypeOK /\ OneDefinition
    BY DEF IInv
<1>1. ASSUME NEW raw \in Raws, NEW value \in Values, Set(raw, value) PROVE IInv' /\ MapStep
    <2> DEFINE start == from_system(raw)
               def == set_value(start, value)
    <2>1. raw \in Text /\ name(raw) \in Names /\ value \in Text
        BY ValuesAreTexts
    <2>2. start = variable(raw, SystemText(name(raw))) /\ SystemText(name(raw)) \in Text
        BY <1>0, <2>1, SystemTextIs DEF from_system, value_from_system, SystemText
    <2>3. start \in Text /\ name(start) = name(raw)
        BY <2>1, <2>2, Definitions
    <2> HIDE DEF start
    <2>4. def \in Text /\ Len(def) > 1 /\ name(def) = name(raw) /\ value_str(def) = value
        BY <2>1, <2>3, Definitions
    <2>5. add(def) /\ UNCHANGED system
        BY <1>1 DEF Set, start
    <2> HIDE DEF def
    <2>6. TypeOK' /\ OneDefinition' /\ SeenNow' = [SeenNow EXCEPT ![name(raw)] = value]
        BY <1>0, <2>1, <2>4, <2>5, AddStep
    <2>7. Map!Set
        BY <2>1, <2>5, <2>6 DEF Map!Set, Map!Give, SeenNow
    <2> QED BY <2>6, <2>7 DEF IInv
<1>2. ASSUME NEW raw \in Raws, Import(raw) PROVE IInv' /\ MapStep
    <2> DEFINE def == from_system(raw)
    <2>1. raw \in Text /\ name(raw) \in Names
        BY ValuesAreTexts
    <2>2. def = variable(raw, SystemText(name(raw))) /\ SystemText(name(raw)) \in Text
        BY <1>0, <2>1, SystemTextIs DEF from_system, value_from_system, SystemText
    <2>4. add(def) /\ UNCHANGED system
        BY <1>2 DEF Import
    <2> HIDE DEF def
    <2> DEFINE value == SystemText(name(raw))
    <2>7. value \in Text /\ def = variable(raw, value)
        BY <2>2
    <2> HIDE DEF value
    <2>8. def \in Text /\ Len(def) > 1 /\ name(def) = name(raw) /\ value_str(def) = Tail(raw) \o value
        BY <2>1, <2>7, Definitions
    <2>3. /\ def \in Text /\ Len(def) > 1 /\ name(def) = name(raw)
          /\ value_str(def) = Tail(raw) \o SystemText(name(raw))
        BY <2>8 DEF value
    <2>5. /\ TypeOK' /\ OneDefinition'
          /\ SeenNow' = [SeenNow EXCEPT ![name(raw)] = Tail(raw) \o SystemText(name(raw))]
        BY <1>0, <2>1, <2>3, <2>4, AddStep
    <2>6. Map!Import
        BY <2>1, <2>4, <2>5 DEF Map!Import, Map!Give, Map!SystemValue, SystemText, SeenNow, name
    <2> QED BY <2>5, <2>6 DEF IInv
<1>3. ASSUME NEW raw \in Raws, Add(raw) PROVE IInv' /\ MapStep
    <2> DEFINE def == variable_of(raw)
    <2>1. raw \in Text /\ name(raw) \in Names
        BY ValuesAreTexts
    <2>2. /\ def \in Text /\ Len(def) > 1 /\ name(def) = name(raw)
          /\ value_str(def) = IF Tail(raw) = <<>> THEN <<Empty>> ELSE Tail(raw)
        BY <2>1, Definitions
    <2>3. add(def) /\ UNCHANGED system
        BY <1>3 DEF Add
    <2> HIDE DEF def
    <2>4. /\ TypeOK' /\ OneDefinition'
          /\ SeenNow' = [SeenNow EXCEPT ![name(raw)] = IF Tail(raw) = <<>> THEN <<Empty>> ELSE Tail(raw)]
        BY <1>0, <2>1, <2>2, <2>3, AddStep
    <2>5. Map!Add
        BY <2>1, <2>3, <2>4 DEF Map!Add, Map!Give, SeenNow, name
    <2> QED BY <2>4, <2>5 DEF IInv
<1>4. ASSUME NEW i \in DOMAIN definitions, update_system(definitions[i]) PROVE IInv' /\ MapStep
    <2>1. Len(definitions[i]) # 1
        <3>1. definitions[i] \in Text /\ Len(definitions[i]) > 1
            BY <1>0 DEF TypeOK
        <3>2. Len(definitions[i]) \in Nat
            BY <3>1 DEF Text
        <3> DEFINE length == Len(definitions[i])
        <3>3. length \in Nat /\ length > 1
            BY <3>1, <3>2
        <3> HIDE DEF length
        <3>4. length # 1
            BY <3>3
        <3> QED BY <3>4 DEF length
    <2>2. UNCHANGED vars
        BY <1>4, <2>1 DEF update_system, setenv, vars
    <2>3. IInv'
        BY <1>0, <2>2 DEF IInv, vars, TypeOK, OneDefinition
    <2>4. UNCHANGED Map!mvars
        BY <2>2 DEF vars, Map!mvars
    <2> QED BY <2>3, <2>4
<1>5. ASSUME SystemChange PROVE IInv' /\ MapStep
    <2>1. PICK n \in Names, value \in Values \union {Unset} : setenv(<<n>>, value)
        BY <1>5 DEF SystemChange
    <2>2. system' = [system EXCEPT ![n] = value]
        BY <2>1 DEF setenv
    <2>3. definitions' = definitions
        BY <1>5 DEF SystemChange
    <2>4. system' \in [Names -> Values \union {Unset}]
        BY <1>0, <2>2 DEF TypeOK
    <2>5. IInv'
        BY <1>0, <2>3, <2>4 DEF IInv, TypeOK, OneDefinition
    <2>6. Map!SystemChange
        BY <2>3, <2>4 DEF Map!SystemChange
    <2> QED BY <2>5, <2>6
<1>6. ASSUME UNCHANGED vars PROVE IInv' /\ MapStep
    <2>1. IInv'
        BY <1>0, <1>6 DEF IInv, vars, TypeOK, OneDefinition
    <2>2. UNCHANGED Map!mvars
        BY <1>6 DEF vars, Map!mvars
    <2> QED BY <2>1, <2>2
<1> QED BY <1>1, <1>2, <1>3, <1>4, <1>5, <1>6 DEF Next

LEMMA Invariance == Spec => []IInv
BY InitIInv, StepIInv, PTL DEF Spec

(* Every definition is a text with a name in front and a separator.          *)
THEOREM TypeCorrect == Spec => []TypeOK
<1>1. IInv => TypeOK
    BY DEF IInv
<1> QED BY <1>1, Invariance, PTL

(* Definitions of different names are as many as the names.                  *)
LEMMA OnePerName ==
    ASSUME NEW defs \in Seq(Text), Distinct(defs)
    PROVE  Cardinality({name(defs[i]) : i \in 1..Len(defs)}) = Len(defs)
<1> DEFINE S == 1..Len(defs)
           T == {name(defs[i]) : i \in S}
           f == [i \in S |-> name(defs[i])]
<1>1. DOMAIN defs = S /\ Len(defs) \in Nat
    OBVIOUS
<1>2. f \in Bijection(S, T)
    <2>1. f \in Surjection(S, T)
        BY Zenon DEF Surjection
    <2>2. f \in Injection(S, T)
        BY <1>1 DEF Injection, IsInjective, Distinct
    <2> QED BY <2>1, <2>2 DEF Bijection
<1>3. ExistsBijection(S, T)
    BY <1>2 DEF ExistsBijection
<1>4. IsFiniteSet(S) /\ Cardinality(S) = Len(defs)
    BY <1>1, FS_Interval, SMTT(30)
<1>5. Cardinality(T) = Cardinality(S)
    BY <1>3, <1>4, FS_Bijection
<1> QED BY <1>4, <1>5

LEMMA IInvQueries == IInv => QueriesAgree
<1> SUFFICES ASSUME IInv PROVE QueriesAgree
    OBVIOUS
<1>1. /\ TypeOK /\ OneDefinition
      /\ definitions \in Seq(Text) /\ DOMAIN definitions = 1..Len(definitions)
      /\ Distinct(definitions)
    BY DEF IInv, TypeOK, OneDefinition, Distinct
<1>2. \A i \in 1..Len(definitions) : value_str(definitions[i]) # Unset
                                     /\ name(definitions[i]) \in Names
    <2> SUFFICES ASSUME NEW i \in 1..Len(definitions)
                 PROVE  value_str(definitions[i]) # Unset /\ name(definitions[i]) \in Names
        OBVIOUS
    <2> DEFINE def == definitions[i]
    <2>1. def \in Text /\ Len(def) > 1 /\ Head(def) \in Names
        BY <1>1 DEF TypeOK
    <2> HIDE DEF def
    <2>2. def \in Seq(Names \union {Empty}) /\ def # <<>>
        BY <2>1 DEF Text
    <2>3. Tail(def) \in Seq(Names \union {Empty}) /\ Len(Tail(def)) = Len(def) - 1
        BY <2>2, HeadTailProperties
    <2>4. Len(def) \in Nat
        BY <2>2
    <2>5. Len(Tail(def)) # 0
        BY <2>1, <2>3, <2>4
    <2>6. Tail(def) # <<>>
        BY <2>3, <2>5
    <2> QED BY <2>1, <2>6 DEF value_str, name, Unset, def
<1>3. ASSUME NEW n
      PROVE  /\ \A i \in 1..Len(definitions) : name(definitions[i]) = n =>
                    /\ Matches(definitions, n) # {} /\ FirstMatch(definitions, n) = i
                    /\ ProgramSees(definitions, n) = value_str(definitions[i])
             /\ (\A i \in 1..Len(definitions) : name(definitions[i]) # n) =>
                    Matches(definitions, n) = {} /\ ProgramSees(definitions, n) = Unset
    <2>1. \A i \in 1..Len(definitions) : name(definitions[i]) = n =>
              Matches(definitions, n) # {} /\ FirstMatch(definitions, n) = i
        BY <1>1, FirstMatchIs, SMTT(30)
    <2>2. (\A i \in 1..Len(definitions) : name(definitions[i]) # n)
             => Matches(definitions, n) = {}
        <3>1. Matches(definitions, n) = {i \in 1..Len(definitions) : name(definitions[i]) = n}
            BY <1>1 DEF Matches
        <3> QED BY <3>1
    <2> QED BY <1>1, <2>1, <2>2, Seen
<1>4. ASSUME NEW raw \in Raws
      PROVE  LET seen == ProgramSees(definitions, name(raw)) IN
             /\ contains(raw) <=> seen # Unset
             /\ value_for(raw) = IF seen = <<Empty>> THEN Unset ELSE seen
             /\ contains(raw) => (is_sync(get(raw)) <=> seen = system[name(raw)])
    <2> DEFINE n == name(raw)
               seen == ProgramSees(definitions, n)
    <2>1. CASE \E i \in 1..Len(definitions) : name(definitions[i]) = n
        <3>1. PICK i \in 1..Len(definitions) : name(definitions[i]) = n
            BY <2>1
        <3>2. contains(raw) /\ get(raw) = definitions[i] /\ seen = value_str(definitions[i])
            BY <1>3, <3>1 DEF contains, get
        <3>3. seen # Unset
            BY <1>2, <3>2
        <3>4. value_for(raw) = IF seen = <<Empty>> THEN Unset ELSE seen
            BY <3>2 DEF value_for, has_value
        <3>5. is_sync(get(raw)) <=> seen = system[n]
            BY <3>1, <3>2 DEF is_sync, value_from_system
        <3> QED BY <3>2, <3>3, <3>4, <3>5
    <2>2. CASE \A i \in 1..Len(definitions) : name(definitions[i]) # n
        <3>1. ~contains(raw) /\ seen = Unset
            BY <1>3, <2>2 DEF contains
        <3>2. value_for(raw) = Unset
            BY <3>1 DEF value_for
        <3> QED BY <3>1, <3>2
    <2> QED BY <2>1, <2>2
<1>5. {n \in Names : ProgramSees(definitions, n) # Unset} = {name(definitions[i]) : i \in 1..Len(definitions)}
    BY <1>2, <1>3
<1>6. size = Cardinality({n \in Names : ProgramSees(definitions, n) # Unset})
    BY <1>1, <1>5, OnePerName DEF size
<1> QED BY <1>1, <1>4, <1>6 DEF QueriesAgree

(* However a name is assigned, imported and added again, it is defined once, *)
(* and what the environment answers is what its program sees.                *)
THEOREM AnswersAgree == Spec => []QueriesAgree
BY IInvQueries, Invariance, PTL

(* The program finds the last value each name was given, and the ordered     *)
(* list of texts never shows: the environment is a map.                      *)
THEOREM EnvironmentImplementsMap == Spec => ImplementsMap
BY InitIInv, StepIInv, Invariance, PTL DEF Spec, ImplementsMap, Map!Spec
=============================================================================
