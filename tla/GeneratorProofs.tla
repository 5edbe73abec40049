-------------------------- MODULE GeneratorProofs --------------------------
(* Proofs about Generator, for any number of loops and values.               *)
EXTENDS Generator, SequenceTheorems, FiniteSetTheorems, TLAPS

Elements(s) == {s[i] : i \in DOMAIN s}
Seen(l) == Elements(seen[l])

SeenWereYielded == \A l \in Loops : \A v \in Seen(l) : v <= at

(* The value of a loop that is about to test for the end is new.             *)
Fresh(l) == /\ current[l] \in 1..at
            /\ \A m \in Loops : current[l] \notin Seen(m)
            /\ \A v \in Seen(l) : v < current[l]
            /\ \A m \in Loops \ {l} : pc[m] = "test" => current[m] # current[l]

IInv == /\ TypeOK
        /\ InOrderOnce
        /\ SeenWereYielded
        /\ ~finished => \A l \in Loops : pc[l] = "test" => Fresh(l)

LEMMA InitIInv == Init => IInv
<1> SUFFICES ASSUME Init PROVE IInv
    OBVIOUS
<1>1. TypeOK
    <2>1. <<>> \in Seq(1..Length) /\ 0 \in 0..Length /\ 0 \in Nat
        BY GeneratorAssumption
    <2>2. seen \in [Loops -> Seq(1..Length)] /\ current \in [Loops -> 0..Length]
        BY <2>1 DEF Init, Default
    <2>3. pc \in [Loops -> {"out", "test", "body", "threw"}]
        BY DEF Init
    <2>4. finished \in BOOLEAN /\ ~finished /\ exception \in BOOLEAN /\ at \in 0..Length /\ caught \in Nat
        BY <2>1 DEF Init
    <2>5. promised = IF at = 0 THEN NoValue ELSE at
        BY DEF Init
    <2> QED BY <2>2, <2>3, <2>4, <2>5 DEF TypeOK
<1>2. \A l \in Loops : DOMAIN seen[l] = {}
    BY DEF Init
<1>3. InOrderOnce /\ SeenWereYielded
    BY <1>2 DEF InOrderOnce, InOrder, NotShared, SeenWereYielded, Seen, Elements
<1>4. \A l \in Loops : pc[l] # "test"
    BY DEF Init
<1> QED BY <1>1, <1>3, <1>4 DEF IInv

(* A loop takes its value: seen grows by one that is larger than all before. *)
LEMMA AppendIs ==
    ASSUME NEW S, NEW s \in Seq(S), NEW e \in S
    PROVE  /\ Append(s, e) \in Seq(S)
           /\ DOMAIN Append(s, e) = 1..(Len(s) + 1)
           /\ DOMAIN s = 1..Len(s) /\ Len(s) \in Nat
           /\ \A i \in DOMAIN s : Append(s, e)[i] = s[i]
           /\ Append(s, e)[Len(s) + 1] = e
<1>1. /\ Append(s, e) \in Seq(S) /\ Len(Append(s, e)) = Len(s) + 1
      /\ \A i \in 1..Len(s) : Append(s, e)[i] = s[i]
      /\ Append(s, e)[Len(s) + 1] = e
    BY AppendProperties
<1>2. DOMAIN s = 1..Len(s) /\ Len(s) \in Nat
    OBVIOUS
<1> QED BY <1>1, <1>2

LEMMA Growing ==
    ASSUME NEW s \in Seq(Nat), NEW e \in Nat,
           \A i, j \in DOMAIN s : i < j => s[i] < s[j],
           \A i \in DOMAIN s : s[i] < e
    PROVE  \A i, j \in DOMAIN Append(s, e) : i < j => Append(s, e)[i] < Append(s, e)[j]
<1>1. /\ DOMAIN Append(s, e) = 1..(Len(s) + 1)
      /\ DOMAIN s = 1..Len(s) /\ Len(s) \in Nat
      /\ \A i \in DOMAIN s : Append(s, e)[i] = s[i]
      /\ Append(s, e)[Len(s) + 1] = e
    BY AppendIs
<1> SUFFICES ASSUME NEW i \in 1..(Len(s) + 1), NEW j \in 1..(Len(s) + 1), i < j
             PROVE  Append(s, e)[i] < Append(s, e)[j]
    BY <1>1
<1>2. i \in DOMAIN s /\ (j \in DOMAIN s \/ j = Len(s) + 1)
    BY <1>1
<1> QED BY <1>1, <1>2

LEMMA ElementsOfAppend ==
    ASSUME NEW S, NEW s \in Seq(S), NEW e \in S
    PROVE  Elements(Append(s, e)) = Elements(s) \union {e}
<1>1. /\ DOMAIN Append(s, e) = 1..(Len(s) + 1)
      /\ DOMAIN s = 1..Len(s) /\ Len(s) \in Nat
      /\ \A i \in DOMAIN s : Append(s, e)[i] = s[i]
      /\ Append(s, e)[Len(s) + 1] = e
    BY AppendIs
<1>2. 1..(Len(s) + 1) = 1..Len(s) \union {Len(s) + 1}
    BY <1>1
<1> QED BY <1>1, <1>2 DEF Elements

-----------------------------------------------------------------------------
(* Increments leave what was seen alone and give a fresh value.              *)
LEMMA IncrementStep ==
    ASSUME IInv, NEW l \in Loops, Increment(l)
    PROVE  IInv'
<1> USE GeneratorAssumption
<1>1. TypeOK'
    <2>1. /\ seen' = seen /\ pc' \in [Loops -> {"out", "test", "body", "threw"}] /\ caught' \in Nat
        <3>1. pc \in [Loops -> {"out", "test", "body", "threw"}] /\ caught \in Nat
            BY DEF IInv, TypeOK
        <3>2. \/ pc' = [pc EXCEPT ![l] = "test"] /\ caught' = caught
              \/ pc' = [pc EXCEPT ![l] = "threw"] /\ caught' = caught + 1
            BY DEF Increment
        <3>3. seen' = seen
            BY DEF Increment
        <3> QED BY <3>1, <3>2, <3>3
    <2>2. /\ at' \in 0..Length /\ finished' \in BOOLEAN
          /\ promised' = IF at' = 0 THEN NoValue ELSE at'
          /\ exception' \in BOOLEAN
          /\ current' \in [Loops -> 0..Length]
        <3>1. /\ at \in 0..Length /\ at \in Nat /\ finished \in BOOLEAN
              /\ promised = IF at = 0 THEN NoValue ELSE at
              /\ exception \in BOOLEAN
              /\ current \in [Loops -> 0..Length]
            BY DEF IInv, TypeOK
        <3>2. CASE Over(l)
            <4>1. Default \in 0..Length
                BY DEF Default
            <4> QED BY <3>1, <3>2, <4>1 DEF Over, coroutine
        <3>3. CASE yield_value(l)
            <4>1. at + 1 \in 0..Length /\ at + 1 # 0
                BY <3>1, <3>3 DEF yield_value
            <4> QED BY <3>1, <3>3, <4>1 DEF yield_value
        <3>4. CASE final_suspend(l)
            <4>1. (IF promised = NoValue THEN Default ELSE promised) \in 0..Length
                BY <3>1 DEF Default, NoValue
            <4> QED BY <3>1, <3>4, <4>1 DEF final_suspend
        <3>5. CASE unhandled_exception(l)
            BY <3>1, <3>5 DEF unhandled_exception
        <3> QED BY <3>2, <3>3, <3>4, <3>5 DEF Increment, next
    <2> QED BY <2>1, <2>2 DEF IInv, TypeOK
<1>2. seen' = seen /\ at' \in Nat /\ at \in Nat /\ at <= at'
    BY DEF IInv, Increment, next, Over, yield_value, final_suspend,
           unhandled_exception, coroutine, TypeOK
<1>3. InOrderOnce'
    BY <1>2 DEF IInv, InOrderOnce, InOrder, NotShared
<1>4. \A m \in Loops : Seen(m)' = Seen(m) /\ Seen(m) \subseteq Nat
    BY <1>2 DEF Seen, Elements, IInv, TypeOK
<1>5. SeenWereYielded'
    BY <1>2, <1>4 DEF IInv, SeenWereYielded
<1>6. ASSUME ~finished', NEW m \in Loops, pc'[m] = "test" PROVE Fresh(m)'
    <2>1. yield_value(l) /\ ~finished
        <3>1. ~Over(l)
            BY <1>6 DEF Over, coroutine
        <3>2. ~final_suspend(l)
            BY <1>6 DEF final_suspend
        <3>3. ~unhandled_exception(l)
            BY <1>6 DEF unhandled_exception
        <3> QED BY <3>1, <3>2, <3>3 DEF Increment, next, yield_value
    <2>2. /\ at' = at + 1
          /\ current' = [current EXCEPT ![l] = at + 1]
          /\ pc' = [pc EXCEPT ![l] = "test"]
        BY <2>1 DEF Increment, yield_value, unhandled_exception
    <2>3. current \in [Loops -> 0..Length] /\ pc \in [Loops -> {"out", "test", "body", "threw"}]
        BY DEF IInv, TypeOK
    <2>4. \A k \in Loops : \A v \in Seen(k) : v <= at
        BY DEF IInv, SeenWereYielded
    <2>5. \A k \in Loops \ {l} : pc'[k] = "test" => pc[k] = "test" /\ current'[k] = current[k]
                                                   /\ current[k] \in 1..at
        BY <2>1, <2>2, <2>3 DEF IInv, Fresh
    <2>6. current'[l] = at + 1
        BY <2>2, <2>3
    <2>7. CASE m = l
        <3>1. current'[m] \in 1..at'
            BY <1>2, <2>2, <2>6, <2>7
        <3>2. \A k \in Loops : \A v \in Seen(k) : v < current'[m]
            BY <1>2, <1>4, <2>4, <2>6, <2>7
        <3>3. \A k \in Loops : current'[m] \notin Seen(k)
            BY <1>2, <1>4, <2>4, <2>6, <2>7
        <3>4. \A k \in Loops \ {m} : pc'[k] = "test" => current'[k] # current'[m]
            BY <1>2, <2>5, <2>6, <2>7
        <3> QED BY <1>4, <2>7, <3>1, <3>2, <3>3, <3>4 DEF Fresh
    <2>8. CASE m # l
        <3>1. Fresh(m) /\ current'[m] = current[m] /\ current[m] \in 1..at
            BY <1>6, <2>1, <2>5, <2>8 DEF IInv
        <3>2. current'[m] \in 1..at'
            BY <1>2, <2>2, <3>1
        <3>3. \A k \in Loops \ {m} : pc'[k] = "test" => current'[k] # current'[m]
            BY <1>2, <2>5, <2>6, <3>1 DEF Fresh
        <3> QED BY <1>4, <3>1, <3>2, <3>3 DEF Fresh
    <2> QED BY <2>7, <2>8
<1> QED BY <1>1, <1>3, <1>5, <1>6 DEF IInv

LEMMA TestStep ==
    ASSUME IInv, NEW l \in Loops, Test(l)
    PROVE  IInv'
<1> USE GeneratorAssumption
<1>0. /\ TypeOK /\ InOrderOnce /\ SeenWereYielded
      /\ UNCHANGED <<at, finished, promised, exception, current, caught>>
      /\ pc[l] = "test"
    BY DEF IInv, Test, coroutine
<1>1. CASE finished
    <2>1. seen' = seen /\ pc' = [pc EXCEPT ![l] = "out"]
        BY <1>1 DEF Test, AtEnd
    <2>2. TypeOK' /\ InOrderOnce' /\ SeenWereYielded'
        BY <1>0, <2>1 DEF TypeOK, InOrderOnce, InOrder, NotShared, SeenWereYielded, Seen, Elements
    <2> QED BY <1>0, <1>1, <2>2 DEF IInv
<1>2. CASE ~finished
    <2> DEFINE e == current[l]
    <2>1. /\ seen' = [seen EXCEPT ![l] = Append(seen[l], e)]
          /\ pc' = [pc EXCEPT ![l] = "body"]
        BY <1>2 DEF Test, AtEnd
    <2>2. Fresh(l) /\ \A m \in Loops : pc[m] = "test" => Fresh(m)
        BY <1>0, <1>2 DEF IInv
    <2>3. e \in 1..at /\ at \in Nat /\ at <= Length /\ e \in 1..Length /\ e \in Nat
        BY <1>0, <2>2 DEF TypeOK, Fresh
    <2>4. /\ seen \in [Loops -> Seq(1..Length)] /\ seen[l] \in Seq(1..Length)
          /\ seen'[l] = Append(seen[l], e)
          /\ \A m \in Loops \ {l} : seen'[m] = seen[m]
        BY <1>0, <2>1 DEF TypeOK
    <2>5. Append(seen[l], e) \in Seq(1..Length)
        BY <2>3, <2>4, AppendIs
    <2>6. TypeOK'
        BY <1>0, <2>1, <2>5 DEF TypeOK
    <2>7. /\ Seen(l)' = Seen(l) \union {e}
          /\ \A m \in Loops \ {l} : Seen(m)' = Seen(m)
        <3>1. Elements(Append(seen[l], e)) = Elements(seen[l]) \union {e}
            BY <2>3, <2>4, ElementsOfAppend
        <3>2. Seen(l)' = Elements(Append(seen[l], e))
            BY <2>4 DEF Seen, Elements
        <3>3. \A m \in Loops \ {l} : Seen(m)' = Seen(m)
            BY <2>4 DEF Seen, Elements
        <3>4. Seen(l) = Elements(seen[l])
            BY DEF Seen
        <3> QED BY <3>1, <3>2, <3>3, <3>4
    <2>8. \A m \in Loops : e \notin Seen(m)
        BY <2>2 DEF Fresh
    <2>9. InOrder'
        <3>1. seen[l] \in Seq(Nat)
            BY <2>4
        <3>2. \A i \in DOMAIN seen[l] : seen[l][i] < e
            BY <2>2 DEF Fresh, Seen, Elements
        <3>3. \A i, j \in DOMAIN seen'[l] : i < j => seen'[l][i] < seen'[l][j]
            BY <1>0, <2>3, <2>4, <3>1, <3>2, Growing DEF InOrderOnce, InOrder
        <3> QED BY <1>0, <2>4, <3>3 DEF InOrderOnce, InOrder
    <2>10. NotShared'
        <3>1. \A k, m \in Loops : k # m => Seen(k) \cap Seen(m) = {}
            BY <1>0 DEF InOrderOnce, NotShared, Seen, Elements
        <3>2. \A k, m \in Loops : k # m => Seen(k)' \cap Seen(m)' = {}
            BY <2>7, <2>8, <3>1
        <3>3. \A k \in Loops : \A i \in DOMAIN seen'[k] : seen'[k][i] \in Seen(k)'
            BY DEF Seen, Elements
        <3> QED BY <3>2, <3>3 DEF NotShared
    <2>11. SeenWereYielded'
        BY <1>0, <2>3, <2>7 DEF SeenWereYielded
    <2>12. ASSUME NEW m \in Loops, pc'[m] = "test" PROVE Fresh(m)'
        <3>1. m # l /\ pc[m] = "test" /\ Fresh(m)
            BY <1>0, <2>1, <2>2, <2>12 DEF TypeOK
        <3>2. current[m] # e
            BY <1>0, <2>2, <3>1 DEF Fresh
        <3>3. \A k \in Loops : current[m] \notin Seen(k)'
            BY <2>7, <3>1, <3>2 DEF Fresh
        <3>4. \A k \in Loops : pc'[k] = "test" => pc[k] = "test"
            BY <1>0, <2>1 DEF TypeOK
        <3>5. Seen(m)' = Seen(m)
            BY <2>7, <3>1
        <3> QED BY <1>0, <3>1, <3>3, <3>4, <3>5 DEF Fresh
    <2> QED BY <2>6, <2>9, <2>10, <2>11, <2>12 DEF IInv, InOrderOnce
<1> QED BY <1>1, <1>2

LEMMA StepIInv == IInv /\ [Next]_vars => IInv'
<1> SUFFICES ASSUME IInv, [Next]_vars PROVE IInv'
    OBVIOUS
<1>1. ASSUME NEW l \in Loops, begin(l) \/ Continue(l) PROVE IInv'
    BY <1>1, IncrementStep DEF begin, Continue
<1>2. ASSUME NEW l \in Loops, Break(l) PROVE IInv'
    <2>1. /\ UNCHANGED <<at, finished, promised, exception, current, seen, caught>>
          /\ pc' = [pc EXCEPT ![l] = "out"]
        BY <1>2 DEF Break, coroutine
    <2>2. TypeOK' /\ InOrderOnce' /\ SeenWereYielded'
        BY <2>1 DEF IInv, TypeOK, InOrderOnce, InOrder, NotShared, SeenWereYielded, Seen, Elements
    <2>3. \A m \in Loops : pc'[m] = "test" => pc[m] = "test"
        BY <2>1 DEF IInv, TypeOK
    <2>4. \A m \in Loops : Seen(m)' = Seen(m)
        BY <2>1 DEF Seen, Elements
    <2> QED BY <2>1, <2>2, <2>3, <2>4 DEF IInv, Fresh
<1>3. ASSUME NEW l \in Loops, Test(l) PROVE IInv'
    BY <1>3, TestStep
<1>4. CASE UNCHANGED vars
    BY <1>4 DEF vars, IInv, TypeOK, InOrderOnce, InOrder, NotShared, SeenWereYielded, Seen, Elements, Fresh
<1> QED BY <1>1, <1>2, <1>3, <1>4 DEF Next

LEMMA Invariance == Spec => []IInv
BY InitIInv, StepIInv, PTL DEF Spec

(* The promise keeps the last value yielded.                                 *)
THEOREM TypeCorrect == Spec => []TypeOK
<1>1. IInv => TypeOK
    BY DEF IInv
<1> QED BY <1>1, Invariance, PTL

(* However many loops alternate over one coroutine, are left and begun       *)
(* again, each sees values in order and no value is seen twice.              *)
THEOREM SeenInOrderOnce == Spec => []InOrderOnce
<1>1. IInv => InOrderOnce
    BY DEF IInv
<1> QED BY <1>1, Invariance, PTL

-----------------------------------------------------------------------------
(* unhandled_exception is the only step that stores an exception, and it     *)
(* comes at most once: it ends the coroutine.                                *)
ThrownIInv == /\ exception \in BOOLEAN /\ finished \in BOOLEAN
              /\ exception => finished
              /\ ThrownOnce

(* The exception of a coroutine reaches one loop, once, however many loops   *)
(* go on with a coroutine that is over.                                      *)
THEOREM ThrownToOneLoop == Spec => []ThrownOnce
<1>1. Init => ThrownIInv
    BY DEF Init, ThrownIInv, ThrownOnce
<1>2. ThrownIInv /\ [Next]_vars => ThrownIInv'
    <2> SUFFICES ASSUME ThrownIInv, [Next]_vars PROVE ThrownIInv'
        OBVIOUS
    <2>1. ASSUME NEW l \in Loops, next(l), caught' = caught PROVE ThrownIInv'
        <3>1. exception' = exception /\ (finished => finished') /\ finished' \in BOOLEAN
            BY <2>1 DEF ThrownIInv, next, Over, yield_value, final_suspend, coroutine
        <3> QED BY <2>1, <3>1 DEF ThrownIInv, ThrownOnce
    <2>2. ASSUME NEW l \in Loops, unhandled_exception(l), caught' = caught + 1
          PROVE ThrownIInv'
        BY <2>2 DEF ThrownIInv, ThrownOnce, unhandled_exception
    <2>3. ASSUME UNCHANGED <<finished, exception, caught>> PROVE ThrownIInv'
        BY <2>3 DEF ThrownIInv, ThrownOnce
    <2>4. ASSUME NEW l \in Loops, Increment(l) PROVE ThrownIInv'
        BY <2>1, <2>2, <2>4 DEF Increment
    <2>5. ASSUME NEW l \in Loops, Break(l) \/ Test(l) PROVE ThrownIInv'
        BY <2>3, <2>5 DEF Break, Test, coroutine
    <2>6. CASE UNCHANGED vars
        BY <2>3, <2>6 DEF vars
    <2> QED BY <2>4, <2>5, <2>6 DEF Next, begin, Continue
<1>3. ThrownIInv => ThrownOnce
    BY DEF ThrownIInv
<1> QED BY <1>1, <1>2, <1>3, PTL DEF Spec

-----------------------------------------------------------------------------
(* What no loop has seen of a coroutine that is not over is the current      *)
(* value of a loop between its increment and its test.                       *)
HeldBack == \A v \in Unseen : \E l \in Loops : pc[l] = "test" /\ current[l] = v

LostIInv == IF finished THEN Cardinality(Unseen) <= Cardinality(Loops) - 1
            ELSE HeldBack

LEMMA UnseenIs ==
    ASSUME TypeOK
    PROVE  /\ IsFiniteSet(Unseen)
           /\ \A v : v \in Unseen <=> v \in 1..at /\ \A l \in Loops : v \notin Seen(l)
<1>1. \A v : v \in Unseen <=> v \in 1..at /\ \A l \in Loops : v \notin Seen(l)
    BY DEF Unseen, Seen, Elements
<1>2. IsFiniteSet(1..at)
    BY FS_Interval, GeneratorAssumption DEF TypeOK
<1>3. Unseen \in SUBSET (1..at)
    BY DEF Unseen
<1> QED BY <1>1, <1>2, <1>3, FS_Subset

(* Values that are each the current one of another loop are no more than the *)
(* loops.                                                                    *)
LEMMA OneLoopEach ==
    ASSUME NEW V, NEW L, IsFiniteSet(V), IsFiniteSet(L),
           \A v \in V : \E l \in L : current[l] = v
    PROVE  Cardinality(V) <= Cardinality(L)
<1>1. Cardinality(V) \in Nat /\ Cardinality(L) \in Nat
    BY FS_CardinalityType
<1> DEFINE f == [v \in V |-> CHOOSE l \in L : current[l] = v]
<1>2. \A v \in V : f[v] \in L /\ current[f[v]] = v
    OBVIOUS
<1>3. f \in [V -> L]
    BY <1>2
<1>4. ~(Cardinality(L) < Cardinality(V))
    <2> SUFFICES ASSUME Cardinality(L) < Cardinality(V) PROVE FALSE
        OBVIOUS
    <2> HIDE DEF f
    <2>1. \E x, y \in V : x # y /\ f[x] = f[y]
        BY <1>3, FS_PigeonHole
    <2> QED BY <1>2, <2>1
<1> QED BY <1>1, <1>4

LEMMA StepLostIInv == IInv /\ LostIInv /\ [Next]_vars => LostIInv'
<1> SUFFICES ASSUME IInv, LostIInv, [Next]_vars PROVE LostIInv'
    OBVIOUS
<1> USE GeneratorAssumption
<1>0. TypeOK /\ TypeOK'
    BY StepIInv DEF IInv
<1>1. ASSUME finished PROVE LostIInv'
    <2>1. UNCHANGED <<finished, at, seen>>
        BY <1>1 DEF Next, begin, Continue, Increment, next, Over, yield_value, final_suspend,
                    unhandled_exception, Break, Test, AtEnd, coroutine, vars
    <2> QED BY <1>1, <2>1 DEF LostIInv, Unseen
<1>2. ASSUME ~finished, NEW l \in Loops, pc[l] # "test", Increment(l) PROVE LostIInv'
    <2>1. seen' = seen /\ \A m \in Loops : Seen(m)' = Seen(m)
        BY <1>2 DEF Increment, Seen, Elements
    <2>2. CASE yield_value(l)
        <3>1. /\ pc' = [pc EXCEPT ![l] = "test"] /\ ~finished'
              /\ current' = [current EXCEPT ![l] = at + 1] /\ at' = at + 1
            BY <1>2, <2>2 DEF yield_value, Increment, unhandled_exception
        <3>2. /\ pc'[l] = "test" /\ current'[l] = at + 1
              /\ \A m \in Loops : pc[m] = "test" => pc'[m] = "test" /\ current'[m] = current[m]
            BY <1>0, <1>2, <3>1 DEF TypeOK
        <3>3. ASSUME NEW v \in Unseen' PROVE v \in Unseen \/ v = at + 1
            BY <1>0, <2>1, <3>1, <3>3, UnseenIs DEF Unseen, TypeOK
        <3>4. HeldBack'
            BY <1>2, <3>2, <3>3 DEF HeldBack, LostIInv
        <3> QED BY <3>1, <3>4 DEF LostIInv
    <2>3. CASE ~yield_value(l)
        <3>1. finished' /\ at' = at
            BY <1>2, <2>3 DEF Increment, next, Over, final_suspend, unhandled_exception
        <3>2. Unseen' = Unseen
            BY <2>1, <3>1 DEF Unseen
        <3>3. \A v \in Unseen : \E m \in Loops \ {l} : current[m] = v
            BY <1>2 DEF LostIInv, HeldBack
        <3>4. /\ IsFiniteSet(Loops \ {l})
              /\ Cardinality(Loops \ {l}) = Cardinality(Loops) - 1
            BY FS_RemoveElement
        <3>5. Cardinality(Unseen) <= Cardinality(Loops \ {l})
            BY <1>0, <3>3, <3>4, UnseenIs, OneLoopEach
        <3> QED BY <3>1, <3>2, <3>4, <3>5 DEF LostIInv
    <2> QED BY <2>2, <2>3
<1>3. ASSUME ~finished, NEW l \in Loops, Test(l) PROVE LostIInv'
    <2>1. /\ pc' = [pc EXCEPT ![l] = "body"]
          /\ seen' = [seen EXCEPT ![l] = Append(seen[l], current[l])]
          /\ UNCHANGED <<finished, at, current>>
        BY <1>3 DEF Test, AtEnd, coroutine
    <2>2. current[l] \in 1..Length
        BY <1>0, <1>3 DEF IInv, Fresh, TypeOK, Test
    <2>3. Seen(l)' = Seen(l) \union {current[l]}
        <3>1. seen[l] \in Seq(1..Length)
            BY <1>0 DEF TypeOK
        <3>2. Elements(Append(seen[l], current[l])) = Elements(seen[l]) \union {current[l]}
            BY <2>2, <3>1, ElementsOfAppend, SMTT(30)
        <3>3. seen'[l] = Append(seen[l], current[l])
            BY <1>0, <2>1 DEF TypeOK
        <3> QED BY <3>2, <3>3 DEF Seen, Elements
    <2>4. ASSUME NEW v \in Unseen' PROVE v \in Unseen /\ v # current[l]
        <3>1. \A m \in Loops : v \notin Seen(m)'
            BY <1>0, <2>4 DEF Unseen, Seen, Elements
        <3>2. \A m \in Loops \ {l} : Seen(m)' = Seen(m)
            BY <1>0, <2>1 DEF TypeOK, Seen, Elements
        <3>3. v \in 1..at
            BY <2>1, <2>4 DEF Unseen
        <3> QED BY <1>0, <2>3, <3>1, <3>2, <3>3, UnseenIs
    <2>5. \A m \in Loops \ {l} : pc'[m] = pc[m]
        BY <1>0, <2>1 DEF TypeOK
    <2> QED BY <1>3, <2>1, <2>4, <2>5 DEF LostIInv, HeldBack
<1>4. ASSUME ~finished, NEW l \in Loops, Break(l) PROVE LostIInv'
    <2>1. /\ UNCHANGED <<finished, at, current, seen>> /\ pc[l] = "body"
          /\ \A m \in Loops \ {l} : pc'[m] = pc[m]
        BY <1>0, <1>4 DEF Break, coroutine, TypeOK
    <2>2. Unseen' = Unseen
        BY <2>1 DEF Unseen
    <2> QED BY <1>4, <2>1, <2>2 DEF LostIInv, HeldBack
<1>5. CASE UNCHANGED vars
    <2>1. UNCHANGED <<finished, at, current, seen, pc>>
        BY <1>5 DEF vars
    <2>2. Unseen' = Unseen
        BY <2>1 DEF Unseen
    <2> QED BY <2>1, <2>2 DEF LostIInv, HeldBack
<1>6. ASSUME NEW l \in Loops, begin(l) \/ Continue(l) PROVE pc[l] # "test" /\ Increment(l)
    BY <1>6 DEF begin, Continue
<1> QED BY <1>1, <1>2, <1>3, <1>4, <1>5, <1>6 DEF Next

(* A value is lost only to a loop between its increment and its test when    *)
(* another one runs the coroutine to its end: at most one less than there    *)
(* are loops, and none when a loop runs alone.                               *)
THEOREM ValuesLostOnlyToTheEnd == Spec => []LostToTheEnd
<1>1. Init => LostIInv
    <2> SUFFICES ASSUME Init PROVE LostIInv
        OBVIOUS
    <2>1. Unseen = {}
        BY DEF Init, Unseen
    <2> QED BY <2>1 DEF Init, LostIInv, HeldBack
<1>2. IInv /\ LostIInv => LostToTheEnd
    <2> SUFFICES ASSUME IInv, LostIInv, ~finished PROVE LostToTheEnd
        BY DEF LostIInv, LostToTheEnd
    <2> DEFINE Testing == {l \in Loops : pc[l] = "test"}
    <2>1. IsFiniteSet(Testing)
        <3>1. Testing \in SUBSET Loops
            OBVIOUS
        <3> HIDE DEF Testing
        <3> QED BY <3>1, FS_Subset, GeneratorAssumption
    <2>2. \A v \in Unseen : \E l \in Testing : current[l] = v
        BY DEF LostIInv, HeldBack
    <2>3. IsFiniteSet(Unseen)
        BY UnseenIs DEF IInv
    <2>4. Cardinality(Unseen) <= Cardinality(Testing)
        <3> HIDE DEF Testing
        <3> QED BY <2>1, <2>2, <2>3, OneLoopEach
    <2> QED BY <2>4 DEF LostToTheEnd
<1> QED BY <1>1, <1>2, Invariance, StepLostIInv, PTL DEF Spec
=============================================================================
