---------------------------- MODULE SpawnProofs ----------------------------
(* Proofs about Spawn: what an executed program finds in its descriptors, for*)
(* any number of objects and descriptors.  After them proofs about Reaping,  *)
(* the other half of a program's life: how it is waited for.                 *)
EXTENDS Spawn, Reaping, SequenceTheorems, FiniteSetTheorems, WellFoundedInduction, TLAPS

(* Induction over the natural numbers, with a set in the place of the        *)
(* predicate.                                                                *)
LEMMA InductionOnNat ==
    ASSUME NEW T, 0 \in T, \A n \in Nat : n \in T => n + 1 \in T
    PROVE  Nat \subseteq T
<1> SUFFICES ASSUME Nat \ T # {} PROVE FALSE
    OBVIOUS
<1> DEFINE R == {ss \in Nat \X Nat : ss[1] < ss[2]}
<1>1. IsWellFoundedOn(R, Nat)
    BY NatLessThanWellFounded DEF OpToRel
<1>2. PICK n \in Nat \ T : \A m \in Nat \ T : ~(<<m, n>> \in R)
    <2> HIDE DEF R
    <2> QED BY <1>1, WFMin
<1>3. \A m \in Nat \ T : ~(m < n)
    BY <1>2
<1>4. n # 0 /\ n - 1 \in Nat /\ n - 1 \in T
    BY <1>3
<1> QED BY <1>4

-----------------------------------------------------------------------------
(* Sets of streams as numbers.                                               *)

(* The number io_set makes of a set.                                         *)
Bits(ios) == (IF In \in ios THEN 1 ELSE 0) + (IF Out \in ios THEN 2 ELSE 0)
             + (IF Err \in ios THEN 4 ELSE 0)

LEMMA BitsType ==
    ASSUME NEW ios
    PROVE  Bits(ios) \in 0..7
BY DEF Bits

LEMMA HasBits ==
    ASSUME NEW ios, NEW io \in Io
    PROVE  Has(Bits(ios), io) <=> io \in ios
<1>1. CASE io = In
    BY <1>1 DEF Has, Bits, to_set, In, Out, Err
<1>2. CASE io = Out
    BY <1>2 DEF Has, Bits, to_set, In, Out, Err
<1>3. CASE io = Err
    BY <1>3 DEF Has, Bits, to_set, In, Out, Err
<1> QED BY <1>1, <1>2, <1>3 DEF Io

LEMMA WithBits ==
    ASSUME NEW ios, NEW io \in Io, io \in ios
    PROVE  /\ With(Bits(ios \ {io}), io) = Bits(ios)
           /\ Bits(ios \ {io}) < Bits(ios)
<1>1. ~Has(Bits(ios \ {io}), io)
    BY HasBits
<1>2. With(Bits(ios \ {io}), io) = Bits(ios \ {io}) + to_set(io)
    BY <1>1 DEF With
<1>3. Bits(ios) = Bits(ios \ {io}) + to_set(io) /\ to_set(io) \in 1..4
    BY DEF Bits, to_set, Io, In, Out, Err
<1> QED BY <1>2, <1>3, BitsType

(* A fold over a set of streams comes to that number, in whatever order it   *)
(* takes them.                                                               *)
BitFold(f, ios) == f = [s \in SUBSET ios |->
    IF s = {} THEN 0
    ELSE LET io == CHOOSE x \in s : TRUE IN With(f[s \ {io}], io)]

LEMMA BitFoldExists ==
    ASSUME NEW ios \in SUBSET Io
    PROVE  \E f : BitFold(f, ios)
<1> DEFINE f == [s \in SUBSET ios |-> Bits(s)]
<1>1. ASSUME NEW s \in SUBSET ios, s # {}
      PROVE  LET io == CHOOSE x \in s : TRUE IN With(f[s \ {io}], io) = f[s]
    BY <1>1, WithBits
<1>2. f[{}] = 0
    BY DEF Bits
<1> HIDE DEF f
<1>3. f = [s \in SUBSET ios |-> f[s]]
    BY DEF f
<1>4. \A s \in SUBSET ios : f[s] =
         IF s = {} THEN 0
         ELSE LET io == CHOOSE x \in s : TRUE IN With(f[s \ {io}], io)
    BY <1>1, <1>2
<1>5. f = [s \in SUBSET ios |->
         IF s = {} THEN 0
         ELSE LET io == CHOOSE x \in s : TRUE IN With(f[s \ {io}], io)]
    BY <1>3, <1>4, Zenon
<1> QED BY <1>5 DEF BitFold

LEMMA BitFoldIs ==
    ASSUME NEW ios \in SUBSET Io, NEW f, BitFold(f, ios)
    PROVE  \A s \in SUBSET ios : f[s] = Bits(s)
<1> DEFINE T == {n \in Nat : \A s \in SUBSET ios : Bits(s) <= n => f[s] = Bits(s)}
<1>1. ASSUME NEW s \in SUBSET ios, s # {}
      PROVE  \E io \in s : f[s] = With(f[s \ {io}], io)
    BY <1>1 DEF BitFold
<1>2. f[{}] = 0 /\ Bits({}) = 0
    BY DEF BitFold, Bits
<1>3. 0 \in T
    <2> SUFFICES ASSUME NEW s \in SUBSET ios, Bits(s) <= 0, NEW io \in s PROVE FALSE
        BY <1>2
    <2>1. Bits(s \ {io}) < Bits(s)
        BY WithBits
    <2>2. Bits(s \ {io}) \in 0..7 /\ Bits(s) \in 0..7
        BY BitsType
    <2> QED BY <2>1, <2>2
<1>4. ASSUME NEW n \in Nat, n \in T PROVE n + 1 \in T
    <2> SUFFICES ASSUME NEW s \in SUBSET ios, Bits(s) <= n + 1, s # {}
                 PROVE  f[s] = Bits(s)
        BY <1>2
    <2>1. PICK io \in s : f[s] = With(f[s \ {io}], io)
        BY <1>1
    <2>2. Bits(s \ {io}) <= n
        BY WithBits, BitsType
    <2> QED BY <1>4, <2>1, <2>2, WithBits
<1>5. Nat \subseteq T
    <2> HIDE DEF T
    <2> QED BY <1>3, <1>4, InductionOnNat
<1> QED BY <1>5, BitsType

LEMMA RedirectedIsAsked ==
    ASSUME NEW ios \in SUBSET Io
    PROVE  redirected(io_set(ios)) = ios
<1>1. io_set(ios) = (CHOOSE f : BitFold(f, ios))[ios]
    BY DEF io_set, FoldSet, MapThenFoldSet, BitFold
<1>2. BitFold(CHOOSE f : BitFold(f, ios), ios)
    BY BitFoldExists
<1>3. io_set(ios) = Bits(ios)
    BY <1>1, <1>2, BitFoldIs
<1> QED BY <1>3, HasBits DEF redirected

-----------------------------------------------------------------------------
(* The lowest free numbers.                                                  *)

LEMMA FiniteBelow ==
    ASSUME NEW ns \in SUBSET Nat, NEW n \in Nat
    PROVE  /\ IsFiniteSet({m \in ns : m < n})
           /\ Cardinality({m \in ns : m < n}) \in 0..n
<1>0. \A m \in ns : m \in Nat /\ ~(m < 0)
    OBVIOUS
<1>1. CASE n = 0
    <2>1. {m \in ns : m < n} = {}
        BY <1>0, <1>1
    <2> QED BY <1>1, <2>1, FS_EmptySet
<1>2. CASE n # 0
    <2>1. n - 1 \in Nat
        BY <1>2
    <2>2. ASSUME NEW below, below = {m \in ns : m < n}
          PROVE  IsFiniteSet(below) /\ Cardinality(below) \in 0..n
        <3>1. below \in SUBSET Nat
            BY <2>2
        <3>2. ASSUME NEW m \in below PROVE m <= n - 1
            BY <1>0, <2>2
        <3>3. IsFiniteSet(below) /\ Cardinality(below) <= (n - 1) + 1
            BY <2>1, <3>1, <3>2, FS_BoundedSetOfNaturals
        <3>4. Cardinality(below) \in Nat
            BY <3>3, FS_CardinalityType
        <3> QED BY <3>3, <3>4
    <2> QED BY <2>2
<1> QED BY <1>1, <1>2

LEMMA BeforeType ==
    ASSUME NEW ns \in SUBSET Nat, NEW n \in Nat
    PROVE  Before(n, ns) \in 0..n
BY FiniteBelow DEF Before

LEMMA BeforeGrows ==
    ASSUME NEW ns \in SUBSET Nat, NEW m \in ns, NEW n \in ns, m < n
    PROVE  Before(m, ns) < Before(n, ns)
<1> SUFFICES ASSUME NEW lower, lower = {j \in ns : j < m},
                    NEW upper, upper = {j \in ns : j < n}
             PROVE  Cardinality(lower) < Cardinality(upper)
    BY DEF Before
<1>1. /\ IsFiniteSet(lower) /\ Cardinality(lower) \in Nat
      /\ IsFiniteSet(upper) /\ Cardinality(upper) \in Nat
    BY FiniteBelow
<1>2. m \notin lower /\ lower \union {m} \in SUBSET upper
    <2>1. \A j \in ns : j \in Nat
        OBVIOUS
    <2>2. m \notin lower /\ m \in upper
        BY <2>1
    <2>3. ASSUME NEW j \in lower PROVE j \in upper
        BY <2>1
    <2> QED BY <2>2, <2>3
<1>3. Cardinality(lower \union {m}) = Cardinality(lower) + 1
    BY <1>1, <1>2, FS_AddElement
<1>4. Cardinality(lower \union {m}) <= Cardinality(upper)
    BY <1>1, <1>2, FS_Subset
<1> QED BY <1>1, <1>3, <1>4

LEMMA KthLowest ==
    ASSUME NEW b \in Nat, NEW ns \in SUBSET (0..b), NEW k \in 1..Cardinality(ns)
    PROVE  \E n \in ns : Before(n, ns) = k - 1
<1> DEFINE T == {i \in Nat : \A s \in SUBSET (0..i - 1) : \A j \in 1..Cardinality(s) :
                                \E n \in s : Before(n, s) = j - 1}
<1>1. 0 \in T
    <2>1. ASSUME NEW s \in SUBSET (0..0 - 1) PROVE Cardinality(s) = 0
        <3>1. s = {}
            OBVIOUS
        <3> QED BY <3>1, FS_EmptySet
    <2> QED BY <2>1
<1>2. ASSUME NEW i \in Nat, i \in T PROVE i + 1 \in T
    <2> SUFFICES ASSUME NEW s \in SUBSET (0..i), NEW j \in 1..Cardinality(s)
                 PROVE  \E n \in s : Before(n, s) = j - 1
        OBVIOUS
    <2> DEFINE r == s \ {i}
    <2>1. /\ r \in SUBSET (0..i - 1) /\ r \in SUBSET Nat /\ \A n \in r : n < i
          /\ s = r \/ s = r \union {i}
        OBVIOUS
    <2>2. IsFiniteSet(s) /\ Cardinality(s) \in Nat
        <3>1. IsFiniteSet(0..i)
            BY FS_Interval
        <3> QED BY <3>1, FS_Subset, FS_CardinalityType
    <2>3. /\ Cardinality(r) = IF i \in s THEN Cardinality(s) - 1 ELSE Cardinality(s)
          /\ Cardinality(r) \in Nat
        BY <2>2, FS_RemoveElement, FS_CardinalityType
    <2>4. CASE j \in 1..Cardinality(r)
        <3>1. PICK n \in r : Before(n, r) = j - 1
            BY <1>2, <2>1, <2>4
        <3>2. {m \in s : m < n} = {m \in r : m < n}
            BY <2>1
        <3> QED BY <3>1, <3>2 DEF Before
    <2>5. CASE ~(j \in 1..Cardinality(r))
        <3>1. i \in s /\ j = Cardinality(s) /\ Cardinality(r) = j - 1
            BY <2>2, <2>3, <2>5
        <3>2. {m \in s : m < i} = r
            <4>1. ~(i < i) /\ \A m \in s : m = i \/ m \in r
                OBVIOUS
            <4> QED BY <2>1, <4>1
        <3>3. Before(i, s) = Cardinality(r)
            BY <3>2 DEF Before
        <3> QED BY <3>1, <3>3
    <2> QED BY <2>4, <2>5
<1>3. Nat \subseteq T
    <2> HIDE DEF T
    <2> QED BY <1>1, <1>2, InductionOnNat
<1>4. b + 1 \in T /\ (b + 1) - 1 = b
    BY <1>3
<1> QED BY <1>4

LEMMA InOrderIs ==
    ASSUME NEW b \in Nat, NEW ns \in SUBSET (0..b), NEW k \in 1..Cardinality(ns)
    PROVE  /\ InOrder(ns)[k] \in ns /\ Before(InOrder(ns)[k], ns) = k - 1
           /\ InOrder(ns)[k] >= k - 1
<1>1. InOrder(ns)[k] = CHOOSE n \in ns : Before(n, ns) = k - 1
    BY DEF InOrder
<1>2. InOrder(ns)[k] \in ns /\ Before(InOrder(ns)[k], ns) = k - 1
    BY <1>1, KthLowest
<1>3. ns \in SUBSET Nat
    OBVIOUS
<1> HIDE DEF InOrder
<1>6. InOrder(ns)[k] \in Nat
    BY <1>2, <1>3
<1>4. Before(InOrder(ns)[k], ns) \in 0..InOrder(ns)[k]
    BY <1>3, <1>6, BeforeType
<1>5. k \in Int
    OBVIOUS
<1> QED BY <1>2, <1>4, <1>5, <1>6

-----------------------------------------------------------------------------
(* What a child has done behind some actions.                                *)
Entry == {Free} \union {Stream(n) : n \in Io}
         \union {PipeEnd(o, io, end) : o \in Objects, io \in Io, end \in Ends}

Action == {add_close(fd) : fd \in Fds} \union {setup_dup2(fd, io) : fd \in Fds, io \in Io}

Child == [ok : BOOLEAN, fds : [Fds -> Entry]]

Run(child, acts) == FoldLeft(Perform, child, acts)

LEMMA StreamsAreFds == Io \subseteq Fds
BY SpawnAssumption DEF Io, Fds, In, Out, Err

LEMMA PerformClose ==
    ASSUME NEW child \in Child, NEW fd \in Fds
    PROVE  /\ Perform(child, add_close(fd)) \in Child
           /\ Perform(child, add_close(fd)).ok = child.ok
           /\ Perform(child, add_close(fd)).fds = [child.fds EXCEPT ![fd] = Free]
BY DEF Perform, add_close, Child, Entry

LEMMA PerformDup2 ==
    ASSUME NEW child \in Child, NEW fd \in Fds, NEW io \in Io
    PROVE  LET after == Perform(child, setup_dup2(fd, io)) IN
           /\ after \in Child
           /\ after.ok = (child.ok /\ child.fds[fd] # Free)
           /\ after.fds = IF child.fds[fd] = Free THEN child.fds
                          ELSE [child.fds EXCEPT ![io] = child.fds[fd]]
BY StreamsAreFds DEF Perform, setup_dup2, Child

LEMMA PerformType ==
    ASSUME NEW child \in Child, NEW act \in Action
    PROVE  Perform(child, act) \in Child /\ (Perform(child, act).ok => child.ok)
<1>1. CASE \E fd \in Fds : act = add_close(fd)
    <2>1. PICK fd \in Fds : act = add_close(fd)
        BY <1>1
    <2>2. /\ Perform(child, add_close(fd)) \in Child
          /\ Perform(child, add_close(fd)).ok = child.ok
        BY PerformClose
    <2> QED BY <2>1, <2>2
<1>2. CASE \E fd \in Fds, io \in Io : act = setup_dup2(fd, io)
    <2>1. PICK fd \in Fds, io \in Io : act = setup_dup2(fd, io)
        BY <1>2
    <2>2. /\ Perform(child, setup_dup2(fd, io)) \in Child
          /\ Perform(child, setup_dup2(fd, io)).ok = (child.ok /\ child.fds[fd] # Free)
        BY PerformDup2
    <2> QED BY <2>1, <2>2
<1> QED BY <1>1, <1>2 DEF Action

(* A fold over a sequence takes its elements in their order.                 *)
ActionFold(f, n, child, s) == f = [t \in SUBSET (1..n) |->
    IF t = {} THEN child
    ELSE LET i == Max(t) IN Perform(f[t \ {i}], s[i])]

LEMMA MaxIs ==
    ASSUME NEW t \in SUBSET Nat, NEW i \in t, \A j \in t : i >= j
    PROVE  Max(t) = i
<1>1. Max(t) \in t /\ \A j \in t : Max(t) >= j
    BY DEF Max
<1>2. Max(t) \in Nat /\ i \in Nat /\ Max(t) >= i /\ i >= Max(t)
    BY <1>1
<1> QED BY <1>2

LEMMA MaxIn ==
    ASSUME NEW n \in Nat, NEW t \in SUBSET (1..n), t # {}
    PROVE  Max(t) \in t
<1> DEFINE T == {k \in Nat : \A u \in SUBSET (1..k) :
                     u # {} => \E x \in u : \A y \in u : x >= y}
<1>1. 0 \in T
    <2>1. 1..0 = {}
        OBVIOUS
    <2> QED BY <2>1
<1>2. ASSUME NEW k \in Nat, k \in T PROVE k + 1 \in T
    <2> SUFFICES ASSUME NEW u \in SUBSET (1..k + 1), u # {}
                 PROVE  \E x \in u : \A y \in u : x >= y
        OBVIOUS
    <2>1. CASE k + 1 \in u
        BY <2>1
    <2>2. CASE k + 1 \notin u
        <3>1. u \in SUBSET (1..k)
            BY <2>2
        <3> QED BY <1>2, <3>1
    <2> QED BY <2>1, <2>2
<1>3. Nat \subseteq T
    <2> HIDE DEF T
    <2> QED BY <1>1, <1>2, InductionOnNat
<1>4. \E x \in t : \A y \in t : x >= y
    BY <1>3
<1> QED BY <1>4 DEF Max

LEMMA ActionFoldExists ==
    ASSUME NEW child, NEW s, NEW n \in Nat
    PROVE  \E f : ActionFold(f, n, child, s)
<1> DEFINE T == {k \in Nat : \E f : ActionFold(f, k, child, s)}
<1>1. 0 \in T
    <2> DEFINE f == [t \in SUBSET (1..0) |-> child]
    <2>1. \A t \in SUBSET (1..0) : t = {}
        <3>1. 1..0 = {}
            OBVIOUS
        <3> QED BY <3>1
    <2>2. ActionFold(f, 0, child, s)
        BY <2>1, Zenon DEF ActionFold
    <2> QED BY <2>2
<1>2. ASSUME NEW k \in Nat, k \in T PROVE k + 1 \in T
    <2>1. PICK f : ActionFold(f, k, child, s)
        BY <1>2
    <2> DEFINE g == [t \in SUBSET (1..k + 1) |->
                        IF k + 1 \in t THEN Perform(f[t \ {k + 1}], s[k + 1]) ELSE f[t]]
    <2>2. ASSUME NEW t \in SUBSET (1..k + 1)
          PROVE  g[t] = IF t = {} THEN child
                        ELSE LET i == Max(t) IN Perform(g[t \ {i}], s[i])
        <3>1. CASE k + 1 \in t
            <4>1. Max(t) = k + 1
                <5>1. t \in SUBSET Nat /\ \A j \in t : k + 1 >= j
                    OBVIOUS
                <5> QED BY <3>1, <5>1, MaxIs
            <4>2. t \ {k + 1} \in SUBSET (1..k + 1) /\ k + 1 \notin t \ {k + 1}
                OBVIOUS
            <4>3. g[t \ {k + 1}] = f[t \ {k + 1}]
                BY <4>2
            <4>4. g[t] = Perform(f[t \ {k + 1}], s[k + 1])
                BY <3>1
            <4> HIDE DEF g
            <4> QED BY <3>1, <4>1, <4>3, <4>4
        <3>2. CASE k + 1 \notin t
            <4>1. t \in SUBSET (1..k)
                BY <3>2
            <4>2. g[t] = f[t]
                BY <3>2
            <4>3. f[t] = IF t = {} THEN child
                         ELSE LET i == Max(t) IN Perform(f[t \ {i}], s[i])
                BY <2>1, <4>1, Zenon DEF ActionFold
            <4>4. \A i : g[t \ {i}] = f[t \ {i}]
                BY <3>2
            <4> HIDE DEF g
            <4> QED BY <4>2, <4>3, <4>4
        <3> QED BY <3>1, <3>2
    <2>3. g = [t \in SUBSET (1..k + 1) |-> g[t]]
        OBVIOUS
    <2> HIDE DEF g
    <2>4. ActionFold(g, k + 1, child, s)
        BY <2>2, <2>3, Zenon DEF ActionFold
    <2> QED BY <2>4
<1>3. Nat \subseteq T
    <2> HIDE DEF T
    <2> QED BY <1>1, <1>2, InductionOnNat
<1> QED BY <1>3

LEMMA ActionFoldSteps ==
    ASSUME NEW child, NEW s, NEW n \in Nat, NEW f, ActionFold(f, n, child, s)
    PROVE  /\ f[1..0] = child
           /\ \A k \in 1..n : f[1..k] = Perform(f[1..k - 1], s[k])
<1>1. f[1..0] = child
    <2>1. 1..0 = {}
        OBVIOUS
    <2> QED BY <2>1 DEF ActionFold
<1>2. ASSUME NEW k \in 1..n PROVE f[1..k] = Perform(f[1..k - 1], s[k])
    <2>1. 1..k \in SUBSET (1..n) /\ 1..k # {} /\ (1..k) \ {k} = 1..k - 1
        OBVIOUS
    <2>2. Max(1..k) = k
        <3>1. 1..k \in SUBSET Nat /\ k \in 1..k /\ \A j \in 1..k : k >= j
            OBVIOUS
        <3> QED BY <3>1, MaxIs
    <2>3. f[1..k] = LET i == Max(1..k) IN Perform(f[(1..k) \ {i}], s[i])
        BY <2>1 DEF ActionFold
    <2> QED BY <2>1, <2>2, <2>3
<1> QED BY <1>1, <1>2

LEMMA RunIs ==
    ASSUME NEW child, NEW s, NEW n \in Nat, DOMAIN s = 1..n
    PROVE  \E f : ActionFold(f, n, child, s) /\ Run(child, s) = f[1..n]
<1>1. Run(child, s) = (CHOOSE f : ActionFold(f, n, child, s))[1..n]
    BY DEF Run, FoldLeft, MapThenFoldSet, ActionFold
<1> QED BY <1>1, ActionFoldExists

LEMMA RunEmpty ==
    ASSUME NEW child
    PROVE  Run(child, <<>>) = child
<1>1. DOMAIN <<>> = 1..0
    OBVIOUS
<1>2. PICK f : ActionFold(f, 0, child, <<>>) /\ Run(child, <<>>) = f[1..0]
    BY <1>1, RunIs
<1> QED BY <1>2, ActionFoldSteps

LEMMA RunAppend ==
    ASSUME NEW child, NEW S, NEW s \in Seq(S), NEW act \in S
    PROVE  Run(child, Append(s, act)) = Perform(Run(child, s), act)
<1> DEFINE n == Len(s)
           a == Append(s, act)
<1>1. /\ n \in Nat /\ DOMAIN s = 1..n /\ DOMAIN a = 1..n + 1
      /\ a[n + 1] = act /\ \A k \in 1..n : a[k] = s[k]
    BY AppendProperties, LenProperties
<1> HIDE DEF n, a
<1>2. PICK f : ActionFold(f, n, child, s) /\ Run(child, s) = f[1..n]
    BY <1>1, RunIs
<1>3. PICK g : ActionFold(g, n + 1, child, a) /\ Run(child, a) = g[1..n + 1]
    BY <1>1, RunIs
<1>4. f[1..0] = child /\ \A k \in 1..n : f[1..k] = Perform(f[1..k - 1], s[k])
    BY <1>1, <1>2, ActionFoldSteps
<1>5. g[1..0] = child /\ \A k \in 1..n + 1 : g[1..k] = Perform(g[1..k - 1], a[k])
    BY <1>1, <1>3, ActionFoldSteps
<1> DEFINE T == {k \in Nat : k <= n => f[1..k] = g[1..k]}
<1>6. 0 \in T
    BY <1>4, <1>5
<1>7. ASSUME NEW k \in Nat, k \in T PROVE k + 1 \in T
    <2> SUFFICES ASSUME k + 1 <= n PROVE f[1..k + 1] = g[1..k + 1]
        OBVIOUS
    <2>1. k + 1 \in 1..n /\ k + 1 \in 1..n + 1 /\ (k + 1) - 1 = k /\ f[1..k] = g[1..k]
        BY <1>1, <1>7
    <2>2. f[1..k + 1] = Perform(f[1..k], s[k + 1])
        BY <1>4, <2>1
    <2>3. g[1..k + 1] = Perform(g[1..k], a[k + 1])
        BY <1>5, <2>1
    <2> QED BY <1>1, <2>1, <2>2, <2>3
<1>8. Nat \subseteq T
    <2> HIDE DEF T
    <2> QED BY <1>6, <1>7, InductionOnNat
<1>9. f[1..n] = g[1..n]
    BY <1>1, <1>8
<1>10. n + 1 \in 1..n + 1 /\ (n + 1) - 1 = n
    BY <1>1
<1>11. g[1..n + 1] = Perform(g[1..n], act)
    BY <1>1, <1>5, <1>10
<1> QED BY <1>2, <1>3, <1>9, <1>11 DEF a

LEMMA SequenceInduction ==
    ASSUME NEW S, NEW T, <<>> \in T,
           \A s \in Seq(S), e \in S : s \in T => Append(s, e) \in T
    PROVE  Seq(S) \subseteq T
<1> DEFINE L == {n \in Nat : \A s \in Seq(S) : Len(s) = n => s \in T}
<1>1. 0 \in L
    <2>1. \A s \in Seq(S) : Len(s) = 0 => s = <<>>
        BY EmptySeq
    <2> QED BY <2>1
<1>2. ASSUME NEW n \in Nat, n \in L PROVE n + 1 \in L
    <2> SUFFICES ASSUME NEW s \in Seq(S), Len(s) = n + 1 PROVE s \in T
        OBVIOUS
    <2>1. s # <<>>
        OBVIOUS
    <2>2. PICK t \in Seq(S) : \E e \in S : s = Append(t, e)
        BY <2>1, SequenceEmptyOrAppend
    <2>3. PICK e \in S : s = Append(t, e)
        BY <2>2
    <2>4. Len(t) = n
        BY <2>3, AppendProperties, LenProperties
    <2> QED BY <1>2, <2>3, <2>4
<1>3. Nat \subseteq L
    <2> HIDE DEF L
    <2> QED BY <1>1, <1>2, InductionOnNat
<1> QED BY <1>3, LenProperties

LEMMA RunConcat ==
    ASSUME NEW child, NEW S, NEW s \in Seq(S), NEW t \in Seq(S)
    PROVE  Run(child, s \o t) = Run(Run(child, s), t)
<1> DEFINE T == {u \in Seq(S) : Run(child, s \o u) = Run(Run(child, s), u)}
<1>1. <<>> \in T
    BY RunEmpty, ConcatEmptySeq, EmptySeq
<1>2. ASSUME NEW u \in Seq(S), NEW e \in S, u \in T PROVE Append(u, e) \in T
    <2>1. s \o Append(u, e) = Append(s \o u, e)
        OBVIOUS
    <2>2. s \o u \in Seq(S) /\ Append(u, e) \in Seq(S)
        BY ConcatProperties, AppendProperties
    <2>3. Run(child, Append(s \o u, e)) = Perform(Run(child, s \o u), e)
        BY <2>2, RunAppend
    <2>4. Run(Run(child, s), Append(u, e)) = Perform(Run(Run(child, s), u), e)
        BY RunAppend
    <2> QED BY <1>2, <2>1, <2>2, <2>3, <2>4
<1>3. Seq(S) \subseteq T
    <2> HIDE DEF T
    <2> QED BY <1>1, <1>2, SequenceInduction
<1> QED BY <1>3

LEMMA RunType ==
    ASSUME NEW child \in Child, NEW s \in Seq(Action)
    PROVE  Run(child, s) \in Child /\ (Run(child, s).ok => child.ok)
<1> DEFINE T == {u \in Seq(Action) :
                    Run(child, u) \in Child /\ (Run(child, u).ok => child.ok)}
<1>1. <<>> \in T
    BY RunEmpty, EmptySeq
<1>2. ASSUME NEW u \in Seq(Action), NEW e \in Action, u \in T PROVE Append(u, e) \in T
    <2>1. Append(u, e) \in Seq(Action)
        BY AppendProperties
    <2>2. Run(child, Append(u, e)) = Perform(Run(child, u), e)
        BY RunAppend
    <2>3. Run(child, u) \in Child /\ (Run(child, u).ok => child.ok)
        BY <1>2
    <2>4. /\ Perform(Run(child, u), e) \in Child
          /\ Perform(Run(child, u), e).ok => Run(child, u).ok
        BY <2>3, PerformType
    <2> QED BY <2>1, <2>2, <2>3, <2>4
<1>3. Seq(Action) \subseteq T
    <2> HIDE DEF T
    <2> QED BY <1>1, <1>2, SequenceInduction
<1> QED BY <1>3

(* What the actions of one pipe do: w is the parent's end and d the child's. *)
Block(w, d, io) == <<add_close(w), setup_dup2(d, io), add_close(d)>>

LEMMA BlockIsActions ==
    ASSUME NEW w \in Fds, NEW d \in Fds, NEW io \in Io
    PROVE  Block(w, d, io) \in Seq(Action)
<1>1. add_close(w) \in Action /\ setup_dup2(d, io) \in Action /\ add_close(d) \in Action
    BY DEF Action
<1> HIDE DEF Action
<1> QED BY <1>1 DEF Block

LEMMA RunThree ==
    ASSUME NEW child, NEW S, NEW a \in S, NEW b \in S, NEW c \in S
    PROVE  Run(child, <<a, b, c>>) = Perform(Perform(Perform(child, a), b), c)
<1> DEFINE none == <<>>
           one == Append(none, a)
           two == Append(one, b)
<1>1. none \in Seq(S) /\ one \in Seq(S) /\ two \in Seq(S)
    OBVIOUS
<1>2. <<a, b, c>> = Append(two, c)
    OBVIOUS
<1>3. Run(child, none) = child
    BY RunEmpty
<1> HIDE DEF none
<1>4. Run(child, one) = Perform(child, a)
    BY <1>1, <1>3, RunAppend
<1> HIDE DEF one
<1>5. Run(child, two) = Perform(Perform(child, a), b)
    BY <1>1, <1>4, RunAppend
<1> HIDE DEF two
<1>6. Run(child, Append(two, c)) = Perform(Perform(Perform(child, a), b), c)
    BY <1>1, <1>5, RunAppend
<1> QED BY <1>2, <1>6, Zenon

LEMMA BlockRun ==
    ASSUME NEW child \in Child, NEW w \in Fds, NEW d \in Fds, NEW io \in Io
    PROVE  LET after == Run(child, Block(w, d, io)) IN
           /\ after \in Child
           /\ after.ok <=> child.ok /\ d # w /\ child.fds[d] # Free
           /\ after.ok => \A n \in Fds : after.fds[n] =
                IF n = d THEN Free
                ELSE IF n = io THEN child.fds[d]
                ELSE IF n = w THEN Free ELSE child.fds[n]
<1> DEFINE first == Perform(child, add_close(w))
           second == Perform(first, setup_dup2(d, io))
           third == Perform(second, add_close(d))
<1>1. Run(child, Block(w, d, io)) = third
    <2>1. add_close(w) \in Action /\ setup_dup2(d, io) \in Action /\ add_close(d) \in Action
        BY DEF Action
    <2> HIDE DEF Action
    <2> QED BY <2>1, RunThree DEF Block
<1>2. /\ first \in Child /\ first.ok = child.ok
      /\ first.fds = [child.fds EXCEPT ![w] = Free]
    BY PerformClose
<1>3. /\ second \in Child /\ second.ok = (first.ok /\ first.fds[d] # Free)
      /\ second.fds = IF first.fds[d] = Free THEN first.fds
                      ELSE [first.fds EXCEPT ![io] = first.fds[d]]
    <2> HIDE DEF first
    <2> QED BY <1>2, PerformDup2, ZenonT(30)
<1>4. /\ third \in Child /\ third.ok = second.ok
      /\ third.fds = [second.fds EXCEPT ![d] = Free]
    <2> HIDE DEF second
    <2> QED BY <1>3, PerformClose
<1> HIDE DEF first, second, third
<1>5. child.fds \in [Fds -> Entry] /\ child.ok \in BOOLEAN
    BY DEF Child
<1>6. \A n \in Fds : first.fds[n] = IF n = w THEN Free ELSE child.fds[n]
    BY <1>2, <1>5
<1>7. first.fds[d] = Free <=> d = w \/ child.fds[d] = Free
    BY <1>6
<1>8. third.ok <=> child.ok /\ d # w /\ child.fds[d] # Free
    BY <1>2, <1>3, <1>4, <1>7
<1>9. ASSUME third.ok, NEW n \in Fds
      PROVE  third.fds[n] = IF n = d THEN Free
                            ELSE IF n = io THEN child.fds[d]
                            ELSE IF n = w THEN Free ELSE child.fds[n]
    <2>1. first.fds \in [Fds -> Entry] /\ second.fds \in [Fds -> Entry]
        BY <1>2, <1>3 DEF Child
    <2>2. second.fds = [first.fds EXCEPT ![io] = first.fds[d]]
        BY <1>3, <1>7, <1>8, <1>9
    <2>3. second.fds[n] = IF n = io THEN first.fds[d] ELSE first.fds[n]
        BY <2>1, <2>2
    <2>4. third.fds[n] = IF n = d THEN Free ELSE second.fds[n]
        BY <1>4, <2>1
    <2>5. first.fds[d] = child.fds[d]
        BY <1>6, <1>8, <1>9
    <2> QED BY <1>6, <2>3, <2>4, <2>5
<1> QED BY <1>1, <1>4, <1>8, <1>9

-----------------------------------------------------------------------------
(* The invariants.                                                           *)
TypeCorrect ==
    /\ table \in [Fds -> Entry]
    /\ pipes \in [Objects -> [Io -> [Ends -> Fds \union {NoFd}]]]
    /\ actions \in [Objects -> Seq(Action)]
    /\ life \in [Objects -> {"unborn", "alive", "gone"}]
    /\ program \in [Objects -> {"none", "running", "over"}]
    /\ started \in [Objects -> [Fds -> Entry]]
    /\ waiting \in Objects \union {None}
    /\ nested \in BOOLEAN
    /\ missing \in SUBSET Io
    /\ redirections \in [Objects -> SUBSET Io]
    /\ asked \in [Objects -> SUBSET Io]
    /\ outcomes \in [Objects -> Seq({"ran", "failed"})]
    /\ order \in Seq(Objects)

(* The pipes name the descriptors that hold their ends.                      *)
PipesAreHeld == \A o \in Objects, io \in Io, end \in Ends, n \in Fds :
    pipes[o][io][end] = n <=> table[n] = PipeEnd(o, io, end)

StreamsStay == \A n \in Io \ missing : table[n] = Stream(n)

(* An object has pipes for the streams it was asked to redirect, while it is *)
(* alive, and their numbers lie above those of the streams before.           *)
PipesOfTheRedirected == \A o \in Objects :
    /\ \A io \in Io : io \notin redirections[o] \/ life[o] # "alive"
                      => pipes[o][io] = NoPipe
    /\ life[o] # "unborn" => redirections[o] = asked[o] /\ asked[o] # {}
    /\ life[o] = "unborn" => redirections[o] = {} /\ asked[o] = {} /\ outcomes[o] = <<>>
    /\ \A io, jo \in redirections[o], end \in Ends :
          jo < io => pipes[o][io][end] # jo

(* Behind a call of execute, either an end is gone or the actions of all the *)
(* pipes are in the spawner.                                                 *)
CallsLeave == \A o \in Objects :
    IF outcomes[o] = <<>> THEN actions[o] = <<>> /\ program[o] = "none"
    ELSE \/ \E io \in redirections[o], end \in Ends : pipes[o][io][end] = NoFd
         \/ \E acts \in Seq(Action) : actions[o] = acts \o Requested(o)

ProgramsEndIsGone == \A o \in Objects, io \in Io :
    program[o] # "none" => pipes[o][io][direction(io)] = NoFd


-----------------------------------------------------------------------------
(* The file actions of an object.                                            *)
ForPipe(o, io) == IF io \in redirections[o] THEN FileActions(o, io) ELSE <<>>

(* Both ends of each pipe are there.                                         *)
EndsAreOpen(o) == \A io \in redirections[o], end \in Ends : pipes[o][io][end] \in Fds

(* An action as it is asked for, with an end that may be gone.               *)
AskedAction == {add_close(fd) : fd \in Fds \union {NoFd}}
               \union {setup_dup2(fd, io) : fd \in Fds \union {NoFd}, io \in Io}

LEMMA EndType ==
    ASSUME TypeCorrect, NEW o \in Objects, NEW io \in Io, NEW end \in Ends
    PROVE  pipes[o][io][end] \in Fds \union {NoFd}
BY DEF TypeCorrect

LEMMA DirectionType ==
    ASSUME NEW io
    PROVE  /\ direction(io) \in Ends /\ Not(direction(io)) \in Ends
           /\ direction(io) # Not(direction(io))
           /\ Ends = {direction(io), Not(direction(io))}
BY DEF direction, Not, Ends

LEMMA AskedType ==
    ASSUME NEW act \in AskedAction
    PROVE  act.fd \in Fds \union {NoFd} /\ (act.fd >= 0 => act \in Action)
<1>1. CASE \E fd \in Fds \union {NoFd} : act = add_close(fd)
    <2>1. PICK fd \in Fds \union {NoFd} : act = add_close(fd)
        BY <1>1
    <2>2. act.fd = fd
        BY <2>1 DEF add_close
    <2>3. fd >= 0 => fd \in Fds
        BY DEF NoFd
    <2> QED BY <2>1, <2>2, <2>3 DEF Action
<1>2. CASE \E fd \in Fds \union {NoFd}, io \in Io : act = setup_dup2(fd, io)
    <2>1. PICK fd \in Fds \union {NoFd}, io \in Io : act = setup_dup2(fd, io)
        BY <1>2
    <2>2. act.fd = fd
        BY <2>1 DEF setup_dup2
    <2>3. fd >= 0 => fd \in Fds
        BY DEF NoFd
    <2> QED BY <2>1, <2>2, <2>3 DEF Action
<1> QED BY <1>1, <1>2 DEF AskedAction

LEMMA ForPipeType ==
    ASSUME TypeCorrect, NEW o \in Objects, NEW io \in Io
    PROVE  ForPipe(o, io) \in Seq(AskedAction)
<1>1. CASE io \in redirections[o]
    <2> DEFINE w == pipes[o][io][Not(direction(io))]
               d == pipes[o][io][direction(io)]
    <2>1. w \in Fds \union {NoFd} /\ d \in Fds \union {NoFd}
        BY EndType, DirectionType
    <2>2. ForPipe(o, io) = <<add_close(w), setup_dup2(d, io), add_close(d)>>
        BY <1>1 DEF ForPipe, FileActions
    <2> HIDE DEF w, d
    <2>3. /\ add_close(w) \in AskedAction /\ setup_dup2(d, io) \in AskedAction
          /\ add_close(d) \in AskedAction
        BY <2>1 DEF AskedAction
    <2> HIDE DEF AskedAction
    <2> QED BY <2>2, <2>3
<1>2. CASE io \notin redirections[o]
    BY <1>2, EmptySeq DEF ForPipe
<1> QED BY <1>1, <1>2

LEMMA RequestedType ==
    ASSUME TypeCorrect, NEW o \in Objects
    PROVE  /\ Requested(o) = (ForPipe(o, In) \o ForPipe(o, Out)) \o ForPipe(o, Err)
           /\ Requested(o) \in Seq(AskedAction)
<1>1. Requested(o) = (ForPipe(o, In) \o ForPipe(o, Out)) \o ForPipe(o, Err)
    BY DEF Requested, ForPipe
<1>2. /\ ForPipe(o, In) \in Seq(AskedAction) /\ ForPipe(o, Out) \in Seq(AskedAction)
      /\ ForPipe(o, Err) \in Seq(AskedAction)
    BY ForPipeType DEF Io
<1>3. ForPipe(o, In) \o ForPipe(o, Out) \in Seq(AskedAction)
    BY <1>2, ConcatProperties
<1> QED BY <1>1, <1>2, <1>3, ConcatProperties

LEMMA MinIn ==
    ASSUME NEW ns \in SUBSET Nat, ns # {}
    PROVE  Min(ns) \in ns /\ \A n \in ns : Min(ns) <= n
<1> DEFINE R == {ss \in Nat \X Nat : ss[1] < ss[2]}
<1>1. IsWellFoundedOn(R, Nat)
    BY NatLessThanWellFounded DEF OpToRel
<1>2. PICK n \in ns : \A m \in ns : ~(<<m, n>> \in R)
    <2> HIDE DEF R
    <2> QED BY <1>1, WFMin
<1>3. \A m \in ns : n <= m
    <2> TAKE m \in ns
    <2>1. m \in Nat /\ n \in Nat
        OBVIOUS
    <2>2. ~(m < n)
        BY <1>2, <2>1
    <2> QED BY <2>1, <2>2
<1> QED BY <1>3 DEF Min

LEMMA AddedType ==
    ASSUME TypeCorrect, NEW o \in Objects
    PROVE  Added(o) \in Seq(Action)
<1> DEFINE acts == Requested(o)
<1>1. acts \in Seq(AskedAction) /\ actions[o] \in Seq(Action)
    BY RequestedType DEF TypeCorrect
<1>2. CASE Refused(acts) = {}
    <2>1. ASSUME NEW k \in 1..Len(acts) PROVE acts[k] \in Action
        <3>1. acts[k] \in AskedAction /\ k \in DOMAIN acts
            BY <1>1
        <3>2. acts[k].fd \in Fds \union {NoFd} /\ ~(acts[k].fd < 0)
            BY <1>2, <3>1, AskedType DEF Refused
        <3> QED BY <3>1, <3>2, AskedType DEF NoFd, Fds
    <2>2. acts \in Seq(Action)
        <3> HIDE DEF Action, acts
        <3> QED BY <1>1, <2>1
    <2> QED BY <1>1, <1>2, <2>2, ConcatProperties DEF Added
<1>3. CASE Refused(acts) # {}
    <2> DEFINE m == Min(Refused(acts))
    <2>1. m \in 1..Len(acts) /\ \A k \in 1..Len(acts) : k < m => ~(acts[k].fd < 0)
        <3>1. Refused(acts) \in SUBSET Nat /\ DOMAIN acts = 1..Len(acts)
            BY <1>1 DEF Refused
        <3>2. m \in Refused(acts) /\ \A n \in Refused(acts) : m <= n
            BY <1>3, <3>1, MinIn
        <3> HIDE DEF m, acts
        <3> QED BY <3>1, <3>2 DEF Refused
    <2>2. ASSUME NEW k \in 1..m - 1 PROVE acts[k] \in Action
        <3>1. acts[k] \in AskedAction /\ ~(acts[k].fd < 0)
            <4> HIDE DEF m, acts
            <4> QED BY <1>1, <2>1
        <3>2. acts[k].fd \in Fds \union {NoFd}
            BY <3>1, AskedType
        <3> QED BY <3>1, <3>2, AskedType DEF NoFd, Fds
    <2>3. SubSeq(acts, 1, m - 1) \in Seq(Action)
        <3> HIDE DEF Action, acts, m
        <3> QED BY <1>1, <2>1, <2>2
    <2> QED BY <1>1, <1>3, <2>3, ConcatProperties DEF Added
<1> QED BY <1>2, <1>3


LEMMA InTheConcat ==
    ASSUME NEW S, NEW a \in Seq(S), NEW b \in Seq(S), NEW c \in Seq(S)
    PROVE  /\ \A i \in 1..Len(a) : i \in DOMAIN ((a \o b) \o c) /\ ((a \o b) \o c)[i] = a[i]
           /\ \A i \in 1..Len(b) : /\ Len(a) + i \in DOMAIN ((a \o b) \o c)
                                   /\ ((a \o b) \o c)[Len(a) + i] = b[i]
           /\ \A i \in 1..Len(c) : /\ Len(a) + Len(b) + i \in DOMAIN ((a \o b) \o c)
                                   /\ ((a \o b) \o c)[Len(a) + Len(b) + i] = c[i]
<1>1. /\ a \o b \in Seq(S) /\ Len(a \o b) = Len(a) + Len(b)
      /\ \A i \in 1..Len(a) + Len(b) : (a \o b)[i] =
                IF i <= Len(a) THEN a[i] ELSE b[i - Len(a)]
    BY ConcatProperties
<1> DEFINE ab == a \o b
<1> HIDE DEF ab
<1>2. /\ ab \o c \in Seq(S) /\ Len(ab \o c) = Len(ab) + Len(c)
      /\ \A i \in 1..Len(ab) + Len(c) : (ab \o c)[i] =
                IF i <= Len(ab) THEN ab[i] ELSE c[i - Len(ab)]
    BY <1>1, ConcatProperties DEF ab
<1> DEFINE abc == ab \o c
<1>3. DOMAIN abc = 1..Len(a) + Len(b) + Len(c) /\ Len(ab) = Len(a) + Len(b)
    BY <1>1, <1>2 DEF ab
<1>4. Len(a) \in Nat /\ Len(b) \in Nat /\ Len(c) \in Nat
    OBVIOUS
<1>5. \A i \in 1..Len(ab) : abc[i] = IF i <= Len(a) THEN a[i] ELSE b[i - Len(a)]
    BY <1>1, <1>2, <1>3, <1>4 DEF ab
<1>6. \A i \in 1..Len(c) : abc[Len(a) + Len(b) + i] = c[i]
    BY <1>2, <1>3, <1>4
<1> HIDE DEF abc
<1>7. ASSUME NEW i \in 1..Len(a) PROVE i \in DOMAIN abc /\ abc[i] = a[i]
    BY <1>3, <1>4, <1>5
<1>8. ASSUME NEW i \in 1..Len(b)
      PROVE  Len(a) + i \in DOMAIN abc /\ abc[Len(a) + i] = b[i]
    <2>1. /\ Len(a) + i \in 1..Len(a) + Len(b) + Len(c) /\ Len(a) + i \in 1..Len(ab)
          /\ ~(Len(a) + i <= Len(a)) /\ (Len(a) + i) - Len(a) = i
        BY <1>3, <1>4
    <2> QED BY <1>3, <1>5, <2>1
<1>9. ASSUME NEW i \in 1..Len(c)
      PROVE  /\ Len(a) + Len(b) + i \in DOMAIN abc
             /\ abc[Len(a) + Len(b) + i] = c[i]
    <2>1. Len(a) + Len(b) + i \in 1..Len(a) + Len(b) + Len(c)
        BY <1>4
    <2> QED BY <1>3, <1>6, <2>1
<1> QED BY <1>7, <1>8, <1>9 DEF abc, ab

LEMMA NoneRefused ==
    ASSUME TypeCorrect, NEW o \in Objects
    PROVE  /\ Refused(Requested(o)) = {} <=> EndsAreOpen(o)
           /\ EndsAreOpen(o) => /\ Requested(o) \in Seq(Action)
                                /\ \A io \in Io : ForPipe(o, io) \in Seq(Action)
<1>1. ASSUME Refused(Requested(o)) = {}, NEW io \in redirections[o], NEW end \in Ends
      PROVE  pipes[o][io][end] \in Fds
    <2>1. io \in Io
        BY DEF TypeCorrect
    <2>2. PICK i \in 1..3 : /\ Len(ForPipe(o, io)) = 3
                            /\ ForPipe(o, io)[i].fd = pipes[o][io][end]
        <3>1. ForPipe(o, io) = FileActions(o, io)
            BY DEF ForPipe
        <3>2. CASE end = Not(direction(io))
            <4>1. FileActions(o, io)[1].fd = pipes[o][io][end] /\ Len(FileActions(o, io)) = 3
                BY <3>2 DEF FileActions, add_close
            <4> QED BY <3>1, <4>1
        <3>3. CASE end = direction(io)
            <4>1. FileActions(o, io)[3].fd = pipes[o][io][end] /\ Len(FileActions(o, io)) = 3
                BY <3>3 DEF FileActions, add_close
            <4> QED BY <3>1, <4>1
        <3> QED BY <3>2, <3>3, DirectionType
    <2>3. \E k \in DOMAIN Requested(o) : Requested(o)[k] = ForPipe(o, io)[i]
        <3>1. /\ ForPipe(o, In) \in Seq(AskedAction) /\ ForPipe(o, Out) \in Seq(AskedAction)
              /\ ForPipe(o, Err) \in Seq(AskedAction)
            BY ForPipeType DEF Io
        <3>2. i \in 1..Len(ForPipe(o, io))
            BY <2>2
        <3> DEFINE a == ForPipe(o, In)
                   b == ForPipe(o, Out)
                   c == ForPipe(o, Err)
                   abc == (a \o b) \o c
        <3> HIDE DEF a, b, c
        <3>6. /\ \A j \in 1..Len(a) : j \in DOMAIN abc /\ abc[j] = a[j]
              /\ \A j \in 1..Len(b) : Len(a) + j \in DOMAIN abc /\ abc[Len(a) + j] = b[j]
              /\ \A j \in 1..Len(c) : /\ Len(a) + Len(b) + j \in DOMAIN abc
                                      /\ abc[Len(a) + Len(b) + j] = c[j]
            <4>1. a \in Seq(AskedAction) /\ b \in Seq(AskedAction) /\ c \in Seq(AskedAction)
                BY <3>1 DEF a, b, c
            <4> QED BY <4>1, InTheConcat
        <3>7. Requested(o) = abc
            BY RequestedType DEF a, b, c
        <3> HIDE DEF abc
        <3>3. CASE io = In
            <4>1. ForPipe(o, io) = a
                BY <3>3 DEF a
            <4> QED BY <3>2, <3>6, <3>7, <4>1
        <3>4. CASE io = Out
            <4>1. ForPipe(o, io) = b
                BY <3>4 DEF b
            <4> QED BY <3>2, <3>6, <3>7, <4>1
        <3>5. CASE io = Err
            <4>1. ForPipe(o, io) = c
                BY <3>5 DEF c
            <4> QED BY <3>2, <3>6, <3>7, <4>1
        <3> QED BY <2>1, <3>3, <3>4, <3>5 DEF Io
    <2>4. ~(pipes[o][io][end] < 0)
        BY <1>1, <2>2, <2>3 DEF Refused
    <2>5. pipes[o][io][end] \in Fds \union {NoFd}
        BY <2>1, EndType
    <2> QED BY <2>4, <2>5 DEF NoFd, Fds
<1>2. ASSUME EndsAreOpen(o), NEW io \in Io PROVE ForPipe(o, io) \in Seq(Action)
    <2>1. CASE io \in redirections[o]
        <3> DEFINE w == pipes[o][io][Not(direction(io))]
                   d == pipes[o][io][direction(io)]
        <3>1. w \in Fds /\ d \in Fds
            BY <1>2, <2>1, DirectionType DEF EndsAreOpen
        <3>2. ForPipe(o, io) = Block(w, d, io)
            BY <2>1 DEF ForPipe, FileActions, Block
        <3> HIDE DEF w, d
        <3> QED BY <3>1, <3>2, BlockIsActions
    <2>2. CASE io \notin redirections[o]
        BY <2>2, EmptySeq DEF ForPipe
    <2> QED BY <2>1, <2>2
<1>3. ASSUME EndsAreOpen(o) PROVE Requested(o) \in Seq(Action)
    <2>1. /\ ForPipe(o, In) \in Seq(Action) /\ ForPipe(o, Out) \in Seq(Action)
          /\ ForPipe(o, Err) \in Seq(Action)
        BY <1>2, <1>3 DEF Io
    <2>2. ForPipe(o, In) \o ForPipe(o, Out) \in Seq(Action)
        BY <2>1, ConcatProperties
    <2> QED BY <2>1, <2>2, ConcatProperties, RequestedType
<1>4. ASSUME EndsAreOpen(o) PROVE Refused(Requested(o)) = {}
    <2>1. ASSUME NEW k \in DOMAIN Requested(o) PROVE ~(Requested(o)[k].fd < 0)
        <3>1. Requested(o)[k] \in Action
            <4> HIDE DEF Action
            <4> QED BY <1>3, <1>4
        <3>2. \A act \in Action : act.fd \in Fds
            BY DEF Action, add_close, setup_dup2
        <3>3. Requested(o)[k].fd \in Fds
            BY <3>1, <3>2, Zenon
        <3> QED BY <3>3 DEF Fds
    <2> QED BY <2>1 DEF Refused
<1> QED BY <1>1, <1>2, <1>3, <1>4 DEF EndsAreOpen

-----------------------------------------------------------------------------
(* The child of a call of execute.                                           *)
LEMMA PipeRun ==
    ASSUME TypeCorrect, NEW o \in Objects, EndsAreOpen(o), NEW io \in redirections[o],
           NEW child \in Child
    PROVE  LET w == pipes[o][io][Not(direction(io))]
               d == pipes[o][io][direction(io)]
               after == Run(child, ForPipe(o, io))
           IN  /\ io \in Io /\ w \in Fds /\ d \in Fds
               /\ after \in Child
               /\ after.ok <=> child.ok /\ d # w /\ child.fds[d] # Free
               /\ after.ok => \A n \in Fds : after.fds[n] =
                      IF n = d THEN Free
                      ELSE IF n = io THEN child.fds[d]
                      ELSE IF n = w THEN Free ELSE child.fds[n]
<1> DEFINE w == pipes[o][io][Not(direction(io))]
           d == pipes[o][io][direction(io)]
<1>1. io \in Io
    BY DEF TypeCorrect
<1>2. w \in Fds /\ d \in Fds
    BY DirectionType DEF EndsAreOpen
<1>3. ForPipe(o, io) = Block(w, d, io)
    BY DEF ForPipe, FileActions, Block
<1> HIDE DEF w, d
<1>4. /\ Run(child, ForPipe(o, io)) \in Child
      /\ Run(child, ForPipe(o, io)).ok <=> child.ok /\ d # w /\ child.fds[d] # Free
      /\ Run(child, ForPipe(o, io)).ok =>
            \A n \in Fds : Run(child, ForPipe(o, io)).fds[n] =
                IF n = d THEN Free
                ELSE IF n = io THEN child.fds[d]
                ELSE IF n = w THEN Free ELSE child.fds[n]
    BY <1>1, <1>2, <1>3, BlockRun
<1> QED BY <1>1, <1>2, <1>4 DEF w, d

LEMMA NoPipeRun ==
    ASSUME NEW o, NEW io, io \notin redirections[o], NEW child
    PROVE  Run(child, ForPipe(o, io)) = child
BY RunEmpty DEF ForPipe

LEMMA RequestedRun ==
    ASSUME TypeCorrect, NEW o \in Objects, EndsAreOpen(o), NEW child \in Child
    PROVE  Run(child, Requested(o)) =
             Run(Run(Run(child, ForPipe(o, In)), ForPipe(o, Out)), ForPipe(o, Err))
<1>1. /\ ForPipe(o, In) \in Seq(Action) /\ ForPipe(o, Out) \in Seq(Action)
      /\ ForPipe(o, Err) \in Seq(Action)
    BY NoneRefused DEF Io
<1>2. ForPipe(o, In) \o ForPipe(o, Out) \in Seq(Action)
    BY <1>1, ConcatProperties
<1>3. Run(child, Requested(o)) =
        Run(Run(child, ForPipe(o, In) \o ForPipe(o, Out)), ForPipe(o, Err))
    <2> DEFINE s == ForPipe(o, In) \o ForPipe(o, Out)
               t == ForPipe(o, Err)
    <2>1. s \in Seq(Action) /\ t \in Seq(Action) /\ Requested(o) = s \o t
        BY <1>1, <1>2, RequestedType
    <2> HIDE DEF s, t
    <2>2. Run(child, s \o t) = Run(Run(child, s), t)
        BY <2>1, RunConcat
    <2> QED BY <2>1, <2>2 DEF s, t
<1>4. Run(child, ForPipe(o, In) \o ForPipe(o, Out)) =
        Run(Run(child, ForPipe(o, In)), ForPipe(o, Out))
    BY <1>1, RunConcat
<1> QED BY <1>3, <1>4


LEMMA ForPipeRunType ==
    ASSUME TypeCorrect, NEW o \in Objects, EndsAreOpen(o), NEW io \in Io,
           NEW child \in Child
    PROVE  /\ Run(child, ForPipe(o, io)) \in Child
           /\ Run(child, ForPipe(o, io)).ok => child.ok
BY NoneRefused, RunType

(* The actions of an object work once.                                       *)
LEMMA TwiceFails ==
    ASSUME TypeCorrect, PipesOfTheRedirected, NEW o \in Objects, EndsAreOpen(o),
           redirections[o] # {}, NEW child \in Child
    PROVE  ~Run(Run(child, Requested(o)), Requested(o)).ok
<1>1. PICK io \in redirections[o] : \A jo \in redirections[o] : jo <= io
    <2>1. redirections[o] \in SUBSET {0, 1, 2}
        BY DEF TypeCorrect, Io, In, Out, Err
    <2>2. CASE 2 \in redirections[o]
        BY <2>1, <2>2
    <2>3. CASE 2 \notin redirections[o] /\ 1 \in redirections[o]
        BY <2>1, <2>3
    <2>4. CASE 2 \notin redirections[o] /\ 1 \notin redirections[o]
        <3>1. redirections[o] = {0}
            BY <2>1, <2>4
        <3> QED BY <3>1
    <2> QED BY <2>2, <2>3, <2>4
<1>2. io \in Io
    BY DEF TypeCorrect
<1> DEFINE d == pipes[o][io][direction(io)]
           Lost(c) == c \in Child /\ (c.ok => c.fds[d] = Free)
           Failed(c) == c \in Child /\ ~c.ok
           After(c, jo) == Run(c, ForPipe(o, jo))
<1>3. d \in Fds
    BY DirectionType DEF EndsAreOpen
<1>4. ASSUME NEW c \in Child PROVE Lost(After(c, io))
    BY <1>3, PipeRun
<1>5. ASSUME NEW c, Lost(c), NEW jo \in Io, jo # io PROVE Lost(After(c, jo))
    <2>1. CASE jo \in redirections[o]
        <3>1. jo < io
            <4>1. jo <= io
                BY <1>1, <2>1
            <4>2. jo \in Int /\ io \in Int
                BY <1>2 DEF Io, In, Out, Err
            <4> QED BY <1>5, <4>1, <4>2
        <3>2. d # jo
            BY <2>1, <3>1, DirectionType DEF PipesOfTheRedirected
        <3>3. /\ After(c, jo) \in Child
              /\ After(c, jo).ok => c.ok
              /\ After(c, jo).ok => \A n \in Fds : n # jo =>
                    After(c, jo).fds[n] = Free \/ After(c, jo).fds[n] = c.fds[n]
            BY <1>5, <2>1, PipeRun
        <3> HIDE DEF After
        <3> QED BY <1>3, <1>5, <3>2, <3>3
    <2>2. CASE jo \notin redirections[o]
        BY <1>5, <2>2, NoPipeRun
    <2> QED BY <2>1, <2>2
<1>6. ASSUME NEW c, Lost(c) PROVE Failed(After(c, io))
    BY <1>6, PipeRun
<1>7. ASSUME NEW c, Failed(c), NEW jo \in Io PROVE Failed(After(c, jo))
    BY <1>7, ForPipeRunType
<1>8. ASSUME NEW c \in Child, NEW jo \in Io PROVE After(c, jo) \in Child
    BY ForPipeRunType
<1> DEFINE c1 == After(child, In)
           c2 == After(c1, Out)
           c3 == After(c2, Err)
           c4 == After(c3, In)
           c5 == After(c4, Out)
           c6 == After(c5, Err)
<1>9. Run(child, Requested(o)) = c3
    BY RequestedRun
<1>10. In \in Io /\ Out \in Io /\ Err \in Io /\ In # Out /\ In # Err /\ Out # Err
    BY DEF Io, In, Out, Err
<1> HIDE DEF After, Lost, Failed
<1>11. c1 \in Child /\ c2 \in Child /\ c3 \in Child
    BY <1>8, <1>10
<1>12. Run(c3, Requested(o)) = c6
    <2> HIDE DEF c3
    <2> QED BY <1>11, RequestedRun DEF After
<1>13. Failed(c6)
    <2>1. CASE io = In
        <3>1. Lost(c3)
            BY <1>4, <1>5, <1>10, <2>1
        <3>2. Failed(c4)
            BY <1>6, <2>1, <3>1
        <3> QED BY <1>7, <1>10, <3>2
    <2>2. CASE io = Out
        <3>1. Lost(c4)
            BY <1>4, <1>5, <1>10, <1>11, <2>2
        <3>2. Failed(c5)
            BY <1>6, <2>2, <3>1
        <3> QED BY <1>7, <1>10, <3>2
    <2>3. CASE io = Err
        <3>1. Lost(c5)
            BY <1>4, <1>5, <1>10, <1>11, <2>3
        <3> QED BY <1>6, <2>3, <3>1
    <2> QED BY <1>2, <2>1, <2>2, <2>3 DEF Io
<1> QED BY <1>9, <1>12, <1>13 DEF Failed

(* What the child's table is behind the actions of some of the pipes.        *)
ChildTable(o, ios, fds) == \A n \in Fds :
    IF n \in ios
    THEN fds[n] = IF pipes[o][n][direction(n)] = n THEN Free
                  ELSE PipeEnd(o, n, direction(n))
    ELSE fds[n] = IF \E io \in ios, end \in Ends : pipes[o][io][end] = n THEN Free
                  ELSE table[n]

LEMMA ChildTableGrows ==
    ASSUME TypeCorrect, PipesOfTheRedirected, PipesAreHeld, NEW o \in Objects, EndsAreOpen(o),
           NEW child \in Child,
           NEW ios \in SUBSET redirections[o], NEW io \in Io \ ios, \A jo \in ios : jo < io,
           child.ok => ChildTable(o, ios, child.fds)
    PROVE  LET after == Run(child, ForPipe(o, io)) IN
           /\ after \in Child
           /\ after.ok => ChildTable(o, (ios \union {io}) \intersect redirections[o], after.fds)
<1>1. CASE io \notin redirections[o]
    <2>1. (ios \union {io}) \intersect redirections[o] = ios
        BY <1>1
    <2>2. Run(child, ForPipe(o, io)) = child
        BY <1>1, NoPipeRun
    <2> QED BY <2>1, <2>2
<1>2. CASE io \in redirections[o]
    <2>1. (ios \union {io}) \intersect redirections[o] = ios \union {io}
        BY <1>2
    <2> DEFINE w == pipes[o][io][Not(direction(io))]
               d == pipes[o][io][direction(io)]
               after == Run(child, ForPipe(o, io))
    <2>2. /\ w \in Fds /\ d \in Fds
          /\ after \in Child
          /\ after.ok => child.ok
          /\ after.ok => \A n \in Fds : after.fds[n] =
                IF n = d THEN Free
                ELSE IF n = io THEN child.fds[d]
                ELSE IF n = w THEN Free ELSE child.fds[n]
        BY <1>2, PipeRun
    <2>3. d \notin ios /\ w \notin ios
        <3>1. \A jo \in ios : jo \in redirections[o] /\ jo < io
            OBVIOUS
        <3> QED BY <1>2, <3>1, DirectionType DEF PipesOfTheRedirected
    <2>4. table[d] = PipeEnd(o, io, direction(io))
        BY <2>2, DirectionType DEF PipesAreHeld
    <2>5. ~\E jo \in ios, end \in Ends : pipes[o][jo][end] = d
        <3> SUFFICES ASSUME NEW jo \in ios, NEW end \in Ends, pipes[o][jo][end] = d
                     PROVE  FALSE
            OBVIOUS
        <3>1. jo \in Io
            BY DEF TypeCorrect
        <3>2. table[d] = PipeEnd(o, jo, end)
            BY <2>2, <3>1 DEF PipesAreHeld
        <3>3. jo = io
            BY <2>4, <3>2 DEF PipeEnd
        <3> QED BY <3>3
    <2>6. \A n : (\E jo \in ios \union {io}, end \in Ends : pipes[o][jo][end] = n)
                 <=> n = d \/ n = w \/ \E jo \in ios, end \in Ends : pipes[o][jo][end] = n
        BY DirectionType
    <2>7. ASSUME after.ok PROVE ChildTable(o, ios \union {io}, after.fds)
        <3> HIDE DEF after
        <3>1. ChildTable(o, ios, child.fds)
            BY <2>2, <2>7
        <3>2. child.fds[d] = PipeEnd(o, io, direction(io))
            BY <2>2, <2>3, <2>4, <2>5, <3>1 DEF ChildTable
        <3>3. ASSUME NEW n \in Fds
              PROVE  IF n \in ios \union {io}
                     THEN after.fds[n] = IF pipes[o][n][direction(n)] = n THEN Free
                                         ELSE PipeEnd(o, n, direction(n))
                     ELSE after.fds[n] =
                            IF \E jo \in ios \union {io}, end \in Ends : pipes[o][jo][end] = n
                            THEN Free ELSE table[n]
            <4>1. after.fds[n] = IF n = d THEN Free
                                 ELSE IF n = io THEN child.fds[d]
                                 ELSE IF n = w THEN Free ELSE child.fds[n]
                BY <2>2, <2>7
            <4>2. CASE n = io
                BY <3>2, <4>1, <4>2
            <4>3. CASE n \in ios
                <5>1. n # d /\ n # io /\ n # w
                    BY <2>3, <4>3
                <5>2. after.fds[n] = child.fds[n]
                    BY <4>1, <5>1
                <5> QED BY <3>1, <4>3, <5>2 DEF ChildTable
            <4>4. CASE n \notin ios \union {io}
                <5>1. after.fds[n] = IF n = d \/ n = w THEN Free ELSE child.fds[n]
                    BY <4>1, <4>4
                <5>2. child.fds[n] =
                        IF \E jo \in ios, end \in Ends : pipes[o][jo][end] = n
                        THEN Free ELSE table[n]
                    BY <3>1, <4>4 DEF ChildTable
                <5> HIDE DEF d, w
                <5> QED BY <2>6, <4>4, <5>1, <5>2
            <4> QED BY <4>2, <4>3, <4>4
        <3> QED BY <3>3 DEF ChildTable
    <2> QED BY <2>1, <2>2, <2>7
<1> QED BY <1>1, <1>2


-----------------------------------------------------------------------------
(* The inductive invariant, but for what nested use adds.                    *)
IInv == /\ TypeCorrect /\ PipesAreHeld /\ StreamsStay /\ PipesOfTheRedirected
        /\ CallsLeave /\ ProgramsEndIsGone

LEMMA ParentsCopy ==
    ASSUME TypeCorrect
    PROVE  [ok |-> TRUE, fds |-> table] \in Child
BY DEF TypeCorrect, Child

LEMMA SpawnIsRun ==
    ASSUME NEW acts
    PROVE  posix_spawn(acts) = Run([ok |-> TRUE, fds |-> table], acts)
BY DEF posix_spawn, Run

(* A program runs with the first call of execute or never.                   *)
LEMMA FirstCall ==
    ASSUME IInv, NEW o \in Objects, Execute(o)
    PROVE  /\ EndsAreOpen(o) /\ redirections[o] # {} /\ redirections[o] = asked[o]
           /\ outcomes[o] = <<>> /\ program[o] = "none"
           /\ Added(o) = Requested(o)
<1> DEFINE parent == [ok |-> TRUE, fds |-> table]
<1>1. /\ life[o] = "alive" /\ Refused(Requested(o)) = {} /\ posix_spawn(Added(o)).ok
      /\ Added(o) = actions[o] \o Requested(o)
    BY DEF Execute, CanExecute, Added
<1>2. EndsAreOpen(o) /\ Requested(o) \in Seq(Action)
    BY <1>1, NoneRefused DEF IInv
<1>3. redirections[o] # {} /\ redirections[o] = asked[o]
    BY <1>1 DEF IInv, PipesOfTheRedirected
<1>4. parent \in Child
    BY ParentsCopy DEF IInv
<1>5. ASSUME NEW acts \in Seq(Action), actions[o] = acts \o Requested(o) PROVE FALSE
    <2> DEFINE r == Requested(o)
               c == Run(parent, acts)
    <2> HIDE DEF parent
    <2>1. c \in Child
        BY <1>4, RunType
    <2>2. ~Run(Run(c, r), r).ok
        <3> HIDE DEF c
        <3> QED BY <1>2, <1>3, <2>1, TwiceFails DEF IInv
    <2> DEFINE once == acts \o r
    <2>3. r \in Seq(Action) /\ once \in Seq(Action)
        BY <1>2, ConcatProperties
    <2>5. Run(parent, once) = Run(c, r)
        BY <2>3, RunConcat
    <2>7. Added(o) = once \o r
        BY <1>1, <1>5 DEF r
    <2> HIDE DEF r, once
    <2>4. Run(parent, once \o r) = Run(Run(parent, once), r)
        BY <2>3, RunConcat
    <2>6. ~Run(parent, once \o r).ok
        BY <2>2, <2>4, <2>5
    <2> QED BY <1>1, <2>6, <2>7, SpawnIsRun DEF parent
<1>6. ~\E io \in redirections[o], end \in Ends : pipes[o][io][end] = NoFd
    BY <1>2 DEF EndsAreOpen, NoFd, Fds
<1>7. outcomes[o] = <<>> /\ actions[o] = <<>> /\ program[o] = "none"
    BY <1>5, <1>6 DEF IInv, CallsLeave
<1>8. Added(o) = Requested(o)
    BY <1>1, <1>2, <1>7, ConcatEmptySeq
<1> QED BY <1>2, <1>3, <1>7, <1>8

LEMMA FirstTable ==
    ASSUME IInv, NEW o \in Objects, Execute(o)
    PROVE  ChildTable(o, redirections[o], started'[o])
<1> DEFINE parent == [ok |-> TRUE, fds |-> table]
           after(c, io) == Run(c, ForPipe(o, io))
           first == after(parent, In)
           second == after(first, Out)
           third == after(second, Err)
           upto(ios) == ios \intersect redirections[o]
<1>1. EndsAreOpen(o) /\ Added(o) = Requested(o)
    BY FirstCall
<1>2. /\ TypeCorrect /\ PipesOfTheRedirected /\ PipesAreHeld
      /\ redirections[o] \in SUBSET {0, 1, 2}
    BY DEF IInv, TypeCorrect, Io, In, Out, Err
<1>3. parent \in Child /\ ChildTable(o, {}, parent.fds)
    BY ParentsCopy DEF IInv, ChildTable
<1>4. first \in Child /\ (first.ok => ChildTable(o, upto({0}), first.fds))
    <2>1. In \in Io \ {} /\ {} \in SUBSET redirections[o] /\ {} \union {In} = {0}
        BY DEF In, Io
    <2> HIDE DEF parent
    <2> QED BY <1>1, <1>2, <1>3, <2>1, ChildTableGrows, SMTT(30)
<1>5. second \in Child /\ (second.ok => ChildTable(o, upto({0, 1}), second.fds))
    <2>1. /\ Out \in Io \ upto({0}) /\ upto({0}) \in SUBSET redirections[o]
          /\ \A jo \in upto({0}) : jo < Out
          /\ (upto({0}) \union {Out}) \intersect redirections[o] = upto({0, 1})
        BY DEF In, Out, Io
    <2> HIDE DEF first, upto
    <2>2. /\ second \in Child
          /\ second.ok => ChildTable(o, (upto({0}) \union {Out}) \intersect redirections[o],
                                     second.fds)
        BY <1>1, <1>2, <1>4, <2>1, ChildTableGrows, ZenonT(30)
    <2> HIDE DEF second
    <2> QED BY <2>1, <2>2
<1>6. third \in Child /\ (third.ok => ChildTable(o, upto({0, 1, 2}), third.fds))
    <2>1. /\ Err \in Io \ upto({0, 1}) /\ upto({0, 1}) \in SUBSET redirections[o]
          /\ \A jo \in upto({0, 1}) : jo < Err
          /\ (upto({0, 1}) \union {Err}) \intersect redirections[o] = upto({0, 1, 2})
        BY DEF In, Out, Err, Io
    <2> HIDE DEF second, upto
    <2>2. /\ third \in Child
          /\ third.ok => ChildTable(o, (upto({0, 1}) \union {Err}) \intersect redirections[o],
                                    third.fds)
        BY <1>1, <1>2, <1>5, <2>1, ChildTableGrows, ZenonT(30)
    <2> HIDE DEF third
    <2> QED BY <2>1, <2>2
<1>7. posix_spawn(Added(o)) = third
    BY <1>1, <1>2, <1>3, RequestedRun, SpawnIsRun
<1>8. third.ok /\ started'[o] = third.fds
    <2>1. posix_spawn(Added(o)).ok /\ started' = [started EXCEPT ![o] = posix_spawn(Added(o)).fds]
        BY DEF Execute
    <2>2. started \in [Objects -> [Fds -> Entry]]
        BY <1>2 DEF TypeCorrect
    <2> HIDE DEF third
    <2> QED BY <1>7, <2>1, <2>2
<1>9. upto({0, 1, 2}) = redirections[o]
    BY <1>2
<1> HIDE DEF third, upto
<1> QED BY <1>6, <1>8, <1>9

-----------------------------------------------------------------------------
(* The steps keep the types.                                                 *)
LEMMA ReleaseType ==
    ASSUME TypeCorrect, NEW fds, Release(fds)
    PROVE  table' \in [Fds -> Entry]
<1>1. Free \in Entry
    BY DEF Entry
<1> QED BY <1>1 DEF TypeCorrect, Release

LEMMA TypeInit ==
    ASSUME Init
    PROVE  TypeCorrect
<1>1. missing \in SUBSET Io
    BY SpawnAssumption DEF Init, Io, In, Out, Err
<1>2. table \in [Fds -> Entry]
    BY DEF Init, Entry
<1>3. /\ pipes \in [Objects -> [Io -> [Ends -> Fds \union {NoFd}]]]
      /\ started \in [Objects -> [Fds -> Entry]]
    BY DEF Init, NoPipe, Entry
<1>4. actions \in [Objects -> Seq(Action)] /\ outcomes \in [Objects -> Seq({"ran", "failed"})]
    BY EmptySeq DEF Init
<1> QED BY <1>1, <1>2, <1>3, <1>4 DEF TypeCorrect, Init


-----------------------------------------------------------------------------
(* The descriptors of a new object.                                          *)
LEMMA BeforeBelow ==
    ASSUME NEW ns \in SUBSET Nat, IsFiniteSet(ns), NEW n \in ns
    PROVE  Before(n, ns) < Cardinality(ns)
<1> SUFFICES ASSUME NEW lower, lower = {j \in ns : j < n}
             PROVE  Cardinality(lower) < Cardinality(ns)
    BY DEF Before
<1>1. n \in Nat
    OBVIOUS
<1>2. IsFiniteSet(lower) /\ Cardinality(lower) \in Nat
    BY <1>1, FiniteBelow
<1>3. n \notin lower /\ lower \union {n} \in SUBSET ns
    BY <1>1
<1>4. Cardinality(lower \union {n}) = Cardinality(lower) + 1
    BY <1>2, <1>3, FS_AddElement
<1>5. Cardinality(lower \union {n}) <= Cardinality(ns) /\ Cardinality(ns) \in Nat
    BY <1>3, FS_Subset, FS_CardinalityType
<1> QED BY <1>2, <1>4, <1>5

LEMMA StreamSets ==
    ASSUME NEW ios \in SUBSET Io
    PROVE  ios \in SUBSET Nat /\ IsFiniteSet(ios) /\ Cardinality(ios) \in Nat
<1>1. \A io \in Io : io \in Nat /\ io \in 0..2
    BY DEF Io, In, Out, Err
<1>2. ios \in SUBSET (0..2) /\ ios \in SUBSET Nat
    BY <1>1
<1>3. IsFiniteSet(0..2)
    <2>1. 0 \in Int /\ 2 \in Int
        OBVIOUS
    <2> QED BY <2>1, FS_Interval, Zenon
<1>4. IsFiniteSet(ios)
    BY <1>2, <1>3, FS_Subset
<1> QED BY <1>2, <1>4, FS_CardinalityType

(* Where the number of an end is among the free ones.                        *)
Place(ios, p) == 2 * Before(p[1], ios) + IF p[2] = "READ" THEN 1 ELSE 2

LEMMA PlacesDiffer ==
    ASSUME NEW ios \in SUBSET Io
    PROVE  /\ \A p \in ios \X Ends : /\ Place(ios, p) \in 1..2 * Cardinality(ios)
                                     /\ Place(ios, p) - 1 >= 2 * Before(p[1], ios)
           /\ \A p, q \in ios \X Ends : Place(ios, p) = Place(ios, q) => p = q
<1>1. /\ ios \in SUBSET Nat /\ Cardinality(ios) \in Nat
      /\ \A io \in ios : io \in Nat
    BY StreamSets
<1>2. \A io \in ios : Before(io, ios) \in Nat /\ Before(io, ios) < Cardinality(ios)
    BY <1>1, StreamSets, BeforeType, BeforeBelow
<1>3. ASSUME NEW p \in ios \X Ends
      PROVE  /\ Place(ios, p) \in 1..2 * Cardinality(ios)
             /\ Place(ios, p) - 1 >= 2 * Before(p[1], ios)
    <2>1. p[1] \in ios
        OBVIOUS
    <2>2. Before(p[1], ios) \in Nat /\ Before(p[1], ios) < Cardinality(ios)
        BY <1>2, <2>1
    <2>3. \A b, c \in Nat : b < c => /\ 2 * b + 1 \in 1..2 * c /\ 2 * b + 2 \in 1..2 * c
                                     /\ (2 * b + 1) - 1 >= 2 * b /\ (2 * b + 2) - 1 >= 2 * b
        OBVIOUS
    <2> QED BY <1>1, <2>2, <2>3 DEF Place
<1>4. ASSUME NEW p \in ios \X Ends, NEW q \in ios \X Ends, Place(ios, p) = Place(ios, q)
      PROVE  p = q
    <2>1. /\ p[1] \in ios /\ q[1] \in ios /\ p[2] \in Ends /\ q[2] \in Ends
          /\ p = <<p[1], p[2]>> /\ q = <<q[1], q[2]>>
        OBVIOUS
    <2>2. /\ Before(p[1], ios) \in Nat /\ Before(q[1], ios) \in Nat
        BY <1>2, <2>1
    <2>3. \A b, c \in Nat : /\ 2 * b + 1 = 2 * c + 1 => b = c
                            /\ 2 * b + 2 = 2 * c + 2 => b = c
                            /\ 2 * b + 1 # 2 * c + 2
        OBVIOUS
    <2>4. Before(p[1], ios) = Before(q[1], ios) /\ (p[2] = "READ" <=> q[2] = "READ")
        BY <1>4, <2>2, <2>3 DEF Place
    <2>5. p[2] = q[2]
        BY <2>1, <2>4 DEF Ends
    <2>6. p[1] = q[1]
        <3> DEFINE i == p[1]
                   j == q[1]
        <3>1. i \in ios /\ j \in ios /\ i \in Nat /\ j \in Nat
            BY <1>1, <2>1
        <3>2. Before(i, ios) \in Nat /\ Before(i, ios) = Before(j, ios)
            BY <2>2, <2>4
        <3> HIDE DEF i, j
        <3>3. ~(i < j)
            BY <1>1, <3>1, <3>2, BeforeGrows
        <3>4. ~(j < i)
            BY <1>1, <3>1, <3>2, BeforeGrows
        <3>5. i = j
            BY <3>1, <3>3, <3>4
        <3> QED BY <3>5 DEF i, j
    <2> QED BY <2>1, <2>5, <2>6
<1> QED BY <1>3, <1>4

LEMMA NumberOfPlace ==
    ASSUME NEW b \in Nat, NEW free \in SUBSET (0..b), NEW ios \in SUBSET Io,
           Cardinality(free) >= 2 * Cardinality(ios), Cardinality(free) \in Nat,
           NEW p \in ios \X Ends
    PROVE  LET n == InOrder(free)[Place(ios, p)] IN
           /\ Place(ios, p) \in Nat /\ n \in free
           /\ Before(n, free) = Place(ios, p) - 1
           /\ n >= 2 * Before(p[1], ios)
<1> DEFINE n == InOrder(free)[Place(ios, p)]
<1>1. /\ Place(ios, p) \in 1..Cardinality(free)
      /\ Place(ios, p) - 1 >= 2 * Before(p[1], ios)
      /\ Place(ios, p) \in Nat
    <2>1. /\ Place(ios, p) \in 1..2 * Cardinality(ios)
          /\ Place(ios, p) - 1 >= 2 * Before(p[1], ios)
        BY PlacesDiffer
    <2>2. Cardinality(ios) \in Nat
        BY StreamSets
    <2> QED BY <2>1, <2>2
<1>2. n \in free /\ Before(n, free) = Place(ios, p) - 1 /\ n >= Place(ios, p) - 1
    BY <1>1, InOrderIs
<1>3. p[1] \in ios /\ ios \in SUBSET Nat /\ p[1] \in Nat
    BY StreamSets
<1>4. Before(p[1], ios) \in Nat
    <2>1. Before(p[1], ios) \in 0..p[1]
        BY <1>3, BeforeType
    <2> QED BY <1>3, <2>1
<1>5. n \in Nat
    <2>1. \A k \in free : k \in Nat
        OBVIOUS
    <2> HIDE DEF n
    <2> QED BY <1>2, <2>1
<1> QED BY <1>1, <1>2, <1>4, <1>5

LEMMA NumbersDiffer ==
    ASSUME NEW b \in Nat, NEW free \in SUBSET (0..b), NEW ios \in SUBSET Io,
           Cardinality(free) >= 2 * Cardinality(ios), Cardinality(free) \in Nat,
           NEW p \in ios \X Ends, NEW q \in ios \X Ends,
           InOrder(free)[Place(ios, p)] = InOrder(free)[Place(ios, q)]
    PROVE  p = q
<1>1. /\ Place(ios, p) \in Nat
      /\ Before(InOrder(free)[Place(ios, p)], free) = Place(ios, p) - 1
    BY NumberOfPlace
<1>2. /\ Place(ios, q) \in Nat
      /\ Before(InOrder(free)[Place(ios, q)], free) = Place(ios, q) - 1
    BY NumberOfPlace
<1>3. Place(ios, p) = Place(ios, q)
    BY <1>1, <1>2
<1> QED BY <1>3, PlacesDiffer

(* What the new object gets.                                                 *)
LEMMA NewPipes ==
    ASSUME TypeCorrect, NEW o \in Objects, NEW streams \in SUBSET Io, Construct(o, streams)
    PROVE  /\ pipes' = [pipes EXCEPT ![o] = pipes'[o]]
           /\ redirections' = [redirections EXCEPT ![o] = streams]
           /\ \A io \in Io \ streams : pipes'[o][io] = NoPipe
           /\ pipes'[o] \in [Io -> [Ends -> Fds \union {NoFd}]]
           /\ \A io \in streams, end \in Ends :
                 /\ pipes'[o][io][end] \in Fds /\ table[pipes'[o][io][end]] = Free
                 /\ table'[pipes'[o][io][end]] = PipeEnd(o, io, end)
                 /\ \A jo \in streams : jo < io => pipes'[o][io][end] # jo
           /\ table' = [n \in Fds |-> table'[n]]
           /\ \A n \in Fds : \/ table'[n] = table[n]
                             \/ \E io \in streams, end \in Ends :
                                   pipes'[o][io][end] = n /\ table'[n] = PipeEnd(o, io, end)
<1> DEFINE free == {n \in Fds : table[n] = Free}
           number(io, end) == InOrder(free)[2 * Before(io, streams)
                                            + IF end = "READ" THEN 1 ELSE 2]
           holder(n) == {p \in streams \X Ends : number(p[1], p[2]) = n}
<1>1. redirected(io_set(streams)) = streams
    BY RedirectedIsAsked
<1>2. /\ Cardinality(free) >= 2 * Cardinality(streams)
      /\ pipes' = [pipes EXCEPT ![o] = [io \in Io |->
              IF io \in streams THEN [end \in Ends |-> number(io, end)] ELSE NoPipe]]
      /\ table' = [n \in Fds |-> IF holder(n) = {} THEN table[n]
                                 ELSE LET p == CHOOSE p \in holder(n) : TRUE
                                      IN PipeEnd(o, p[1], p[2])]
      /\ redirections' = [redirections EXCEPT ![o] = streams]
    <2> HIDE DEF InOrder, Before, io_set, redirected
    <2> QED BY <1>1 DEF Construct
<1>3. /\ free \in SUBSET (0..MaxFd) /\ MaxFd \in Nat
      /\ Cardinality(free) \in Nat
    <2>1. free \in SUBSET (0..MaxFd) /\ MaxFd \in Nat
        BY SpawnAssumption DEF Fds
    <2>2. IsFiniteSet(0..MaxFd)
        <3>1. 0 \in Int /\ MaxFd \in Int
            BY <2>1
        <3> QED BY <3>1, FS_Interval, Zenon
    <2> HIDE DEF free
    <2> QED BY <2>1, <2>2, FS_Subset, FS_CardinalityType
<1>4. \A p : number(p[1], p[2]) = InOrder(free)[Place(streams, p)]
    <2> HIDE DEF InOrder, Before, free
    <2> QED BY DEF Place
<1>5. /\ \A p \in streams \X Ends : /\ number(p[1], p[2]) \in free
                                    /\ number(p[1], p[2]) >= 2 * Before(p[1], streams)
      /\ \A p, q \in streams \X Ends : number(p[1], p[2]) = number(q[1], q[2]) => p = q
    <2> HIDE DEF free
    <2>1. /\ Cardinality(free) >= 2 * Cardinality(streams)
          /\ MaxFd \in Nat /\ free \in SUBSET (0..MaxFd) /\ Cardinality(free) \in Nat
        BY <1>2, <1>3
    <2>2. ASSUME NEW p \in streams \X Ends
          PROVE  /\ InOrder(free)[Place(streams, p)] \in free
                 /\ InOrder(free)[Place(streams, p)] >= 2 * Before(p[1], streams)
        BY <2>1, NumberOfPlace
    <2>3. ASSUME NEW p \in streams \X Ends, NEW q \in streams \X Ends,
                 InOrder(free)[Place(streams, p)] = InOrder(free)[Place(streams, q)]
          PROVE  p = q
        BY <2>1, <2>3, NumbersDiffer
    <2> HIDE DEF number
    <2> QED BY <1>4, <2>2, <2>3
<1> HIDE DEF number
<1>6. /\ \A io \in streams, end \in Ends : /\ number(io, end) \in free
                                           /\ number(io, end) >= 2 * Before(io, streams)
      /\ \A io, jo \in streams, end, dir \in Ends :
            number(io, end) = number(jo, dir) => io = jo /\ end = dir
    <2>1. \A io \in streams, end \in Ends :
                \E p \in streams \X Ends : p[1] = io /\ p[2] = end
        <3> TAKE io \in streams, end \in Ends
        <3>1. /\ <<io, end>> \in streams \X Ends
              /\ <<io, end>>[1] = io /\ <<io, end>>[2] = end
            OBVIOUS
        <3> WITNESS <<io, end>> \in streams \X Ends
        <3> QED BY <3>1
    <2>2. ASSUME NEW io \in streams, NEW end \in Ends
          PROVE  number(io, end) \in free /\ number(io, end) >= 2 * Before(io, streams)
        <3> HIDE DEF free
        <3> QED BY <1>5, <2>1
    <2>3. ASSUME NEW io \in streams, NEW jo \in streams, NEW end \in Ends, NEW dir \in Ends,
                 number(io, end) = number(jo, dir)
          PROVE  io = jo /\ end = dir
        <3>1. PICK p \in streams \X Ends : p[1] = io /\ p[2] = end
            BY <2>1
        <3>2. PICK q \in streams \X Ends : q[1] = jo /\ q[2] = dir
            BY <2>1
        <3>3. p = q
            BY <1>5, <2>3, <3>1, <3>2
        <3> QED BY <3>1, <3>2, <3>3
    <2> QED BY <2>2, <2>3
<1>7. /\ pipes'[o] = [io \in Io |->
              IF io \in streams THEN [end \in Ends |-> number(io, end)] ELSE NoPipe]
      /\ pipes' = [pipes EXCEPT ![o] = pipes'[o]]
    BY <1>2 DEF TypeCorrect
<1>8. \A io \in streams, end \in Ends : pipes'[o][io][end] = number(io, end)
    BY <1>7
<1>9. ASSUME NEW io \in streams, NEW end \in Ends
      PROVE  holder(number(io, end)) = {<<io, end>>}
    <2>1. <<io, end>> \in holder(number(io, end))
        OBVIOUS
    <2>2. ASSUME NEW p \in holder(number(io, end)) PROVE p = <<io, end>>
        <3>1. /\ p[1] \in streams /\ p[2] \in Ends /\ p = <<p[1], p[2]>>
              /\ number(p[1], p[2]) = number(io, end)
            OBVIOUS
        <3>2. p[1] = io /\ p[2] = end
            BY <1>6, <3>1
        <3> QED BY <3>1, <3>2
    <2> QED BY <2>1, <2>2
<1>10. ASSUME NEW io \in streams, NEW end \in Ends
       PROVE  table'[number(io, end)] = PipeEnd(o, io, end)
    <2>1. number(io, end) \in Fds
        BY <1>6
    <2>2. (CHOOSE p \in holder(number(io, end)) : TRUE) = <<io, end>>
        BY <1>9
    <2>3. holder(number(io, end)) # {}
        BY <1>9
    <2> HIDE DEF holder
    <2> QED BY <1>2, <2>1, <2>2, <2>3
<1>11. ASSUME NEW n \in Fds
       PROVE  \/ table'[n] = table[n]
              \/ \E io \in streams, end \in Ends :
                    pipes'[o][io][end] = n /\ table'[n] = PipeEnd(o, io, end)
    <2>1. CASE holder(n) = {}
        BY <1>2, <2>1
    <2>2. CASE holder(n) # {}
        <3>1. PICK p \in streams \X Ends : number(p[1], p[2]) = n
            BY <2>2
        <3> QED BY <1>8, <1>10, <3>1
    <2> QED BY <2>1, <2>2
<1>12. ASSUME NEW io \in streams, NEW end \in Ends, NEW jo \in streams, jo < io
       PROVE  number(io, end) # jo
    <2>1. streams \in SUBSET Nat /\ io \in Nat /\ jo \in Nat /\ jo <= 1
        <3>1. io \in {0, 1, 2} /\ jo \in {0, 1, 2}
            BY DEF Io, In, Out, Err
        <3> QED BY <1>12, <3>1, StreamSets
    <2>2. Before(jo, streams) < Before(io, streams)
        BY <1>12, <2>1, BeforeGrows
    <2>3. Before(jo, streams) \in 0..jo /\ Before(io, streams) \in 0..io
        BY <2>1, BeforeType
    <2>4. Before(jo, streams) \in Nat /\ Before(io, streams) \in Nat
        BY <2>1, <2>3
    <2>5. number(io, end) >= 2 * Before(io, streams)
        BY <1>6
    <2>6. number(io, end) \in Nat
        BY <1>3, <1>6
    <2> QED BY <2>1, <2>2, <2>4, <2>5, <2>6
<1>13. pipes'[o] \in [Io -> [Ends -> Fds \union {NoFd}]]
    <2>1. ASSUME NEW io \in Io
          PROVE  (IF io \in streams THEN [end \in Ends |-> number(io, end)] ELSE NoPipe)
                    \in [Ends -> Fds \union {NoFd}]
        BY <1>6 DEF NoPipe
    <2> QED BY <1>7, <2>1
<1>14. \A io \in Io \ streams : pipes'[o][io] = NoPipe
    BY <1>7
<1>15. \A io \in streams, end \in Ends :
          pipes'[o][io][end] \in Fds /\ table[pipes'[o][io][end]] = Free
    BY <1>6, <1>8
<1>16. table' = [n \in Fds |-> table'[n]]
    <2> HIDE DEF holder
    <2> QED BY <1>2
<1> HIDE DEF free, holder
<1>17. ASSUME NEW io \in streams, NEW end \in Ends
       PROVE  /\ pipes'[o][io][end] \in Fds /\ table[pipes'[o][io][end]] = Free
              /\ table'[pipes'[o][io][end]] = PipeEnd(o, io, end)
              /\ \A jo \in streams : jo < io => pipes'[o][io][end] # jo
    BY <1>8, <1>10, <1>12, <1>15
<1>18. redirections' = [redirections EXCEPT ![o] = streams]
    BY <1>2
<1> QED BY <1>7, <1>11, <1>13, <1>14, <1>16, <1>17, <1>18

-----------------------------------------------------------------------------
(* The type invariant is kept.                                               *)
LEMMA TypeStep ==
    ASSUME TypeCorrect, [Next]_vars
    PROVE  TypeCorrect'
<1> USE DEF TypeCorrect
<1>1. ASSUME NEW o \in Objects, NEW streams \in Redirections, Construct(o, streams)
      PROVE  TypeCorrect'
    <2>1. streams \in SUBSET Io
        BY SpawnAssumption DEF Io, In, Out, Err
    <2>2. /\ pipes' = [pipes EXCEPT ![o] = pipes'[o]]
          /\ pipes'[o] \in [Io -> [Ends -> Fds \union {NoFd}]]
          /\ redirections' = [redirections EXCEPT ![o] = streams]
          /\ table' = [n \in Fds |-> table'[n]]
          /\ \A n \in Fds : table'[n] = table[n]
                            \/ \E io \in streams, end \in Ends : table'[n] = PipeEnd(o, io, end)
        BY <1>1, <2>1, NewPipes
    <2>3. table' \in [Fds -> Entry]
        <3>1. ASSUME NEW n \in Fds PROVE table'[n] \in Entry
            <4>1. \A io \in streams, end \in Ends : PipeEnd(o, io, end) \in Entry
                BY <2>1 DEF Entry
            <4>2. table[n] \in Entry
                OBVIOUS
            <4>3. \/ table'[n] = table[n]
                  \/ \E io \in streams, end \in Ends : table'[n] = PipeEnd(o, io, end)
                BY <2>2
            <4> HIDE DEF TypeCorrect
            <4> QED BY <4>1, <4>2, <4>3, Zenon
        <3> HIDE DEF Entry
        <3> QED BY <2>2, <3>1
    <2>4. pipes' \in [Objects -> [Io -> [Ends -> Fds \union {NoFd}]]]
        BY <2>2
    <2>5. /\ life' = [life EXCEPT ![o] = "alive"]
          /\ asked' = [asked EXCEPT ![o] = streams]
          /\ UNCHANGED <<actions, program, started, waiting, outcomes, order, nested, missing>>
        BY <1>1 DEF Construct
    <2> QED BY <2>1, <2>2, <2>3, <2>4, <2>5
<1>2. ASSUME NEW o \in Objects, Execute(o) PROVE TypeCorrect'
    <2>1. table' \in [Fds -> Entry]
        BY <1>2, ReleaseType DEF Execute, set_direction
    <2>2. pipes' \in [Objects -> [Io -> [Ends -> Fds \union {NoFd}]]]
        BY <1>2, DirectionType DEF Execute, set_direction
    <2>3. actions' \in [Objects -> Seq(Action)]
        BY <1>2, AddedType DEF Execute
    <2>4. posix_spawn(Added(o)) \in Child
        BY AddedType, ParentsCopy, RunType, SpawnIsRun
    <2>5. started' \in [Objects -> [Fds -> Entry]]
        BY <1>2, <2>4 DEF Execute, Child
    <2>6. program' \in [Objects -> {"none", "running", "over"}] /\ order' \in Seq(Objects)
        BY <1>2 DEF Execute
    <2>7. outcomes' \in [Objects -> Seq({"ran", "failed"})]
        BY <1>2 DEF Execute, Outcome
    <2>8. UNCHANGED <<life, waiting, redirections, asked, nested, missing>>
        BY <1>2 DEF Execute
    <2> HIDE DEF Execute
    <2> QED BY <2>1, <2>2, <2>3, <2>5, <2>6, <2>7, <2>8
<1>3. ASSUME NEW o \in Objects, ExecuteFails(o) PROVE TypeCorrect'
    <2>1. actions' \in [Objects -> Seq(Action)]
        BY <1>3, AddedType DEF ExecuteFails
    <2>2. outcomes' \in [Objects -> Seq({"ran", "failed"})]
        BY <1>3 DEF ExecuteFails, Outcome
    <2>3. UNCHANGED <<table, pipes, life, program, started, waiting, redirections, asked,
                      order, nested, missing>>
        BY <1>3 DEF ExecuteFails
    <2> QED BY <2>1, <2>2, <2>3
<1>4. ASSUME NEW o \in Objects, NEW io \in Io, done(o, io) PROVE TypeCorrect'
    <2>1. table' \in [Fds -> Entry]
        BY <1>4, ReleaseType DEF done
    <2>2. pipes' \in [Objects -> [Io -> [Ends -> Fds \union {NoFd}]]]
        BY <1>4 DEF done, NoPipe
    <2>3. UNCHANGED <<actions, life, program, started, waiting, redirections, asked, outcomes,
                      order, nested, missing>>
        BY <1>4 DEF done
    <2> QED BY <2>1, <2>2, <2>3
<1>5. ASSUME NEW o \in Objects, Destroy(o) PROVE TypeCorrect'
    <2>1. table' \in [Fds -> Entry]
        BY <1>5, ReleaseType DEF Destroy
    <2>2. /\ pipes' \in [Objects -> [Io -> [Ends -> Fds \union {NoFd}]]]
          /\ life' \in [Objects -> {"unborn", "alive", "gone"}]
        BY <1>5 DEF Destroy, NoPipe
    <2>3. UNCHANGED <<actions, program, started, waiting, redirections, asked, outcomes,
                      order, nested, missing>>
        BY <1>5 DEF Destroy
    <2> QED BY <2>1, <2>2, <2>3
<1>6. ASSUME NEW o \in Objects, Exit(o) PROVE TypeCorrect'
    BY <1>6 DEF Exit
<1>7. ASSUME NEW o \in Objects, Wait(o) PROVE TypeCorrect'
    BY <1>7 DEF Wait
<1>8. CASE Return
    BY <1>8 DEF Return
<1>9. CASE UNCHANGED vars
    BY <1>9 DEF vars
<1> HIDE DEF TypeCorrect
<1> QED BY <1>1, <1>2, <1>3, <1>4, <1>5, <1>6, <1>7, <1>8, <1>9 DEF Next

THEOREM SpawnTypeCorrect == Spec => []TypeCorrect
BY TypeInit, TypeStep, PTL DEF Spec

-----------------------------------------------------------------------------
(* The pipes keep naming the descriptors that hold their ends.               *)
LEMMA EntriesDiffer ==
    /\ \A n : Stream(n) # Free
    /\ \A o, io, end : PipeEnd(o, io, end) # Free
    /\ \A n, o, io, end : PipeEnd(o, io, end) # Stream(n)
    /\ \A o, io, end, p, jo, dir : PipeEnd(o, io, end) = PipeEnd(p, jo, dir)
                                   => o = p /\ io = jo /\ end = dir
BY DEF Stream, Free, PipeEnd

LEMMA NoFdIsNoFd == NoFd \notin Fds
BY DEF NoFd, Fds

(* Descriptors that are given up are closed.                                 *)
LEMMA GivenUp ==
    ASSUME TypeCorrect, TypeCorrect', PipesAreHeld, StreamsStay, missing' = missing,
           NEW o \in Objects, NEW lost \in [Io -> SUBSET Ends],
           \A p \in Objects, io \in Io, end \in Ends : pipes'[p][io][end] =
                IF p = o /\ end \in lost[io] THEN NoFd ELSE pipes[p][io][end],
           \A n \in Fds : table'[n] =
                IF \E io \in Io : \E end \in lost[io] : pipes[o][io][end] = n
                THEN Free ELSE table[n]
    PROVE  PipesAreHeld' /\ StreamsStay'
<1>1. ASSUME NEW p \in Objects, NEW io \in Io, NEW end \in Ends, NEW n \in Fds,
             pipes'[p][io][end] = n
      PROVE  table'[n] = PipeEnd(p, io, end)
    <2>1. pipes[p][io][end] = n /\ ~(p = o /\ end \in lost[io])
        BY <1>1, NoFdIsNoFd
    <2>2. table[n] = PipeEnd(p, io, end)
        BY <2>1 DEF PipesAreHeld
    <2>3. ASSUME NEW jo \in Io, NEW dir \in lost[jo], pipes[o][jo][dir] = n PROVE FALSE
        <3>1. table[n] = PipeEnd(o, jo, dir)
            BY <2>3 DEF PipesAreHeld
        <3>2. PipeEnd(o, jo, dir) = PipeEnd(p, io, end)
            BY <2>2, <3>1
        <3>3. o = p /\ jo = io /\ dir = end
            BY <3>2, EntriesDiffer
        <3> QED BY <2>1, <3>3
    <2> QED BY <2>2, <2>3
<1>2. ASSUME NEW p \in Objects, NEW io \in Io, NEW end \in Ends, NEW n \in Fds,
             table'[n] = PipeEnd(p, io, end)
      PROVE  pipes'[p][io][end] = n
    <2>1. /\ table[n] = PipeEnd(p, io, end)
          /\ ~\E jo \in Io : \E dir \in lost[jo] : pipes[o][jo][dir] = n
        BY <1>2, EntriesDiffer
    <2>2. pipes[p][io][end] = n
        BY <2>1 DEF PipesAreHeld
    <2> QED BY <2>1, <2>2
<1>3. ASSUME NEW n \in Io \ missing PROVE table'[n] = Stream(n)
    <2>1. n \in Fds /\ table[n] = Stream(n)
        BY StreamsAreFds DEF StreamsStay
    <2>2. ASSUME NEW jo \in Io, NEW dir \in lost[jo], pipes[o][jo][dir] = n PROVE FALSE
        <3>1. table[n] = PipeEnd(o, jo, dir)
            BY <2>1, <2>2 DEF PipesAreHeld
        <3>2. PipeEnd(o, jo, dir) # Stream(n)
            BY EntriesDiffer
        <3> QED BY <2>1, <3>1, <3>2
    <2> QED BY <2>1, <2>2
<1> QED BY <1>1, <1>2, <1>3 DEF PipesAreHeld, StreamsStay

LEMMA HeldStep ==
    ASSUME IInv, TypeCorrect', [Next]_vars
    PROVE  PipesAreHeld' /\ StreamsStay'
<1> USE DEF IInv
<1>1. ASSUME NEW o \in Objects, NEW streams \in Redirections, Construct(o, streams)
      PROVE  PipesAreHeld' /\ StreamsStay'
    <2>1. streams \in SUBSET Io
        BY SpawnAssumption DEF Io, In, Out, Err
    <2>2. /\ pipes' = [pipes EXCEPT ![o] = pipes'[o]]
          /\ \A io \in Io \ streams : pipes'[o][io] = NoPipe
          /\ \A io \in streams, end \in Ends :
                /\ pipes'[o][io][end] \in Fds /\ table[pipes'[o][io][end]] = Free
                /\ table'[pipes'[o][io][end]] = PipeEnd(o, io, end)
          /\ \A n \in Fds : \/ table'[n] = table[n]
                            \/ \E io \in streams, end \in Ends :
                                  pipes'[o][io][end] = n /\ table'[n] = PipeEnd(o, io, end)
        BY <1>1, <2>1, NewPipes
    <2>3. \A io \in Io, end \in Ends : pipes[o][io][end] = NoFd
        BY <1>1 DEF Construct, PipesOfTheRedirected, NoPipe
    <2>4. \A p \in Objects \ {o} : pipes'[p] = pipes[p]
        <3>1. pipes' = [pipes EXCEPT ![o] = pipes'[o]]
            BY <2>2
        <3> QED BY <3>1 DEF TypeCorrect
    <2>5. ASSUME NEW p \in Objects, NEW io \in Io, NEW end \in Ends, NEW n \in Fds,
                 pipes'[p][io][end] = n
          PROVE  table'[n] = PipeEnd(p, io, end)
        <3>1. CASE p = o
            <4>1. io \in streams
                BY <2>2, <2>5, <3>1, NoFdIsNoFd DEF NoPipe
            <4> QED BY <2>2, <2>5, <3>1, <4>1
        <3>2. CASE p # o
            <4>1. table[n] = PipeEnd(p, io, end)
                BY <2>4, <2>5, <3>2 DEF PipesAreHeld
            <4>2. table[n] # Free
                BY <4>1, EntriesDiffer
            <4> QED BY <2>2, <4>1, <4>2
        <3> QED BY <3>1, <3>2
    <2>6. ASSUME NEW p \in Objects, NEW io \in Io, NEW end \in Ends, NEW n \in Fds,
                 table'[n] = PipeEnd(p, io, end)
          PROVE  pipes'[p][io][end] = n
        <3>1. CASE table'[n] = table[n]
            <4>3. table[n] = PipeEnd(p, io, end)
                BY <2>6, <3>1
            <4>1. pipes[p][io][end] = n
                BY <4>3 DEF PipesAreHeld
            <4>2. p # o
                BY <2>3, <4>1, NoFdIsNoFd
            <4> QED BY <2>4, <4>1, <4>2
        <3>2. CASE \E jo \in streams, dir \in Ends :
                      pipes'[o][jo][dir] = n /\ table'[n] = PipeEnd(o, jo, dir)
            <4>1. PICK jo \in streams : \E dir \in Ends :
                        pipes'[o][jo][dir] = n /\ table'[n] = PipeEnd(o, jo, dir)
                BY <3>2
            <4>2. PICK dir \in Ends : pipes'[o][jo][dir] = n /\ table'[n] = PipeEnd(o, jo, dir)
                BY <4>1
            <4>3. PipeEnd(o, jo, dir) = PipeEnd(p, io, end)
                BY <2>6, <4>2
            <4>4. o = p /\ jo = io /\ dir = end
                BY <4>3, EntriesDiffer
            <4> QED BY <4>2, <4>4
        <3> QED BY <2>2, <3>1, <3>2
    <2>7. ASSUME NEW n \in Io \ missing PROVE table'[n] = Stream(n)
        <3>1. n \in Fds /\ table[n] = Stream(n)
            BY StreamsAreFds DEF StreamsStay
        <3> QED BY <2>2, <3>1, EntriesDiffer
    <2>8. missing' = missing
        BY <1>1 DEF Construct
    <2> QED BY <2>5, <2>6, <2>7, <2>8 DEF PipesAreHeld, StreamsStay
<1>2. ASSUME NEW o \in Objects, Execute(o) PROVE PipesAreHeld' /\ StreamsStay'
    <2> DEFINE lost == [io \in Io |-> {direction(io)}]
    <2>1. /\ table' = [n \in Fds |->
                IF n \in {pipes[o][io][direction(io)] : io \in redirections[o]}
                THEN Free ELSE table[n]]
          /\ pipes' = [pipes EXCEPT ![o] = [io \in Io |->
                          [pipes[o][io] EXCEPT ![direction(io)] = NoFd]]]
          /\ missing' = missing
        BY <1>2 DEF Execute, set_direction, Release
    <2>2. lost \in [Io -> SUBSET Ends]
        BY DirectionType
    <2>3. \A p \in Objects, io \in Io, end \in Ends : pipes'[p][io][end] =
                IF p = o /\ end \in lost[io] THEN NoFd ELSE pipes[p][io][end]
        BY <2>1, DirectionType DEF TypeCorrect
    <2>4. ASSUME NEW n \in Fds
          PROVE  n \in {pipes[o][io][direction(io)] : io \in redirections[o]}
                 <=> \E io \in Io : \E end \in lost[io] : pipes[o][io][end] = n
        <3>1. redirections[o] \in SUBSET Io
            BY DEF TypeCorrect
        <3>2. \A io \in Io \ redirections[o] : pipes[o][io][direction(io)] = NoFd
            BY DirectionType DEF PipesOfTheRedirected, NoPipe
        <3> QED BY <3>1, <3>2, NoFdIsNoFd
    <2>5. \A n \in Fds : table'[n] =
                IF \E io \in Io : \E end \in lost[io] : pipes[o][io][end] = n
                THEN Free ELSE table[n]
        BY <2>1, <2>4
    <2> HIDE DEF lost
    <2> QED BY <2>1, <2>2, <2>3, <2>5, GivenUp, ZenonT(30)
<1>3. ASSUME NEW o \in Objects, NEW io \in Io, done(o, io)
      PROVE  PipesAreHeld' /\ StreamsStay'
    <2> DEFINE lost == [jo \in Io |-> IF jo = io THEN Ends ELSE {}]
    <2>1. /\ table' = [n \in Fds |-> IF n \in Held(o, {io}, Ends) THEN Free ELSE table[n]]
          /\ pipes' = [pipes EXCEPT ![o][io] = NoPipe]
          /\ missing' = missing
        BY <1>3 DEF done, Release
    <2>2. lost \in [Io -> SUBSET Ends]
        OBVIOUS
    <2>3. \A p \in Objects, jo \in Io, end \in Ends : pipes'[p][jo][end] =
                IF p = o /\ end \in lost[jo] THEN NoFd ELSE pipes[p][jo][end]
        BY <2>1 DEF TypeCorrect, NoPipe
    <2>4. ASSUME NEW n \in Fds
          PROVE  n \in Held(o, {io}, Ends)
                 <=> \E jo \in Io : \E end \in lost[jo] : pipes[o][jo][end] = n
        BY NoFdIsNoFd DEF Held
    <2>5. \A n \in Fds : table'[n] =
                IF \E jo \in Io : \E end \in lost[jo] : pipes[o][jo][end] = n
                THEN Free ELSE table[n]
        BY <2>1, <2>4
    <2> HIDE DEF lost
    <2> QED BY <2>1, <2>2, <2>3, <2>5, GivenUp, ZenonT(30)
<1>4. ASSUME NEW o \in Objects, Destroy(o) PROVE PipesAreHeld' /\ StreamsStay'
    <2> DEFINE lost == [io \in Io |-> Ends]
    <2>1. /\ table' = [n \in Fds |-> IF n \in Held(o, Io, Ends) THEN Free ELSE table[n]]
          /\ pipes' = [pipes EXCEPT ![o] = [io \in Io |-> NoPipe]]
          /\ missing' = missing
        BY <1>4 DEF Destroy, Release
    <2>2. lost \in [Io -> SUBSET Ends]
        OBVIOUS
    <2>3. \A p \in Objects, io \in Io, end \in Ends : pipes'[p][io][end] =
                IF p = o /\ end \in lost[io] THEN NoFd ELSE pipes[p][io][end]
        BY <2>1 DEF TypeCorrect, NoPipe
    <2>4. ASSUME NEW n \in Fds
          PROVE  n \in Held(o, Io, Ends)
                 <=> \E io \in Io : \E end \in lost[io] : pipes[o][io][end] = n
        BY NoFdIsNoFd DEF Held
    <2>5. \A n \in Fds : table'[n] =
                IF \E io \in Io : \E end \in lost[io] : pipes[o][io][end] = n
                THEN Free ELSE table[n]
        BY <2>1, <2>4
    <2> HIDE DEF lost
    <2> QED BY <2>1, <2>2, <2>3, <2>5, GivenUp, ZenonT(30)
<1>5. ASSUME UNCHANGED <<table, pipes, missing>> PROVE PipesAreHeld' /\ StreamsStay'
    BY <1>5 DEF PipesAreHeld, StreamsStay
<1> QED BY <1>1, <1>2, <1>3, <1>4, <1>5
        DEF Next, vars, ExecuteFails, Exit, Wait, Return

-----------------------------------------------------------------------------
(* What is known of each object is kept.                                     *)
Known(o) ==
    /\ \A io \in Io : io \notin redirections[o] \/ life[o] # "alive"
                      => pipes[o][io] = NoPipe
    /\ life[o] # "unborn" => redirections[o] = asked[o] /\ asked[o] # {}
    /\ life[o] = "unborn" => redirections[o] = {} /\ asked[o] = {} /\ outcomes[o] = <<>>
    /\ \A io, jo \in redirections[o], end \in Ends :
          jo < io => pipes[o][io][end] # jo
    /\ IF outcomes[o] = <<>> THEN actions[o] = <<>> /\ program[o] = "none"
       ELSE \/ \E io \in redirections[o], end \in Ends : pipes[o][io][end] = NoFd
            \/ \E acts \in Seq(Action) : actions[o] = acts \o Requested(o)
    /\ \A io \in Io : program[o] # "none" => pipes[o][io][direction(io)] = NoFd

LEMMA KnownIs ==
    PipesOfTheRedirected /\ CallsLeave /\ ProgramsEndIsGone <=> \A o \in Objects : Known(o)
BY Zenon DEF Known, PipesOfTheRedirected, CallsLeave, ProgramsEndIsGone

LEMMA SameKnown ==
    ASSUME NEW o, Known(o), UNCHANGED <<redirections[o], life[o], pipes[o], asked[o],
                                        outcomes[o], actions[o]>>,
           program'[o] # "none" => program[o] # "none",
           program[o] = "none" => program'[o] = "none"
    PROVE  Known(o)'
<1>1. Requested(o)' = Requested(o)
    BY DEF Requested, FileActions
<1> QED BY <1>1 DEF Known

(* The streams of an object lie below the number of none of its pipes once   *)
(* these are closed.                                                         *)
LEMMA StreamIsNotNoFd == NoFd \notin Io
BY DEF NoFd, Io, In, Out, Err

LEMMA KnownInit ==
    ASSUME Init, NEW o \in Objects
    PROVE  Known(o)
BY DEF Init, Known, NoPipe

LEMMA KnownStep ==
    ASSUME IInv, [Next]_vars, NEW o \in Objects
    PROVE  Known(o)'
<1>1. Known(o) /\ TypeCorrect
    BY KnownIs DEF IInv
<1>2. ASSUME NEW streams \in Redirections, Construct(o, streams) PROVE Known(o)'
    <2>1. streams \in SUBSET Io /\ streams # {}
        BY SpawnAssumption DEF Io, In, Out, Err
    <2>2. /\ redirections' = [redirections EXCEPT ![o] = streams]
          /\ \A io \in Io \ streams : pipes'[o][io] = NoPipe
          /\ \A io \in streams, end \in Ends : \A jo \in streams :
                jo < io => pipes'[o][io][end] # jo
        BY <1>1, <1>2, <2>1, NewPipes
    <2>3. /\ life[o] = "unborn" /\ life' = [life EXCEPT ![o] = "alive"]
          /\ asked' = [asked EXCEPT ![o] = streams]
          /\ UNCHANGED <<actions, program, outcomes>>
        BY <1>2 DEF Construct
    <2>4. redirections'[o] = streams /\ asked'[o] = streams /\ life'[o] = "alive"
        BY <1>1, <2>2, <2>3 DEF TypeCorrect
    <2>5. outcomes'[o] = <<>> /\ actions'[o] = <<>> /\ program'[o] = "none"
        BY <1>1, <2>3 DEF Known
    <2> QED BY <2>1, <2>2, <2>4, <2>5 DEF Known
<1>3. CASE Execute(o)
    <2>1. /\ pipes'[o] = [io \in Io |-> [pipes[o][io] EXCEPT ![direction(io)] = NoFd]]
          /\ outcomes'[o] # <<>>
          /\ UNCHANGED <<life, redirections, asked>>
        <3>1. /\ pipes' = [pipes EXCEPT ![o] = [io \in Io |->
                              [pipes[o][io] EXCEPT ![direction(io)] = NoFd]]]
              /\ outcomes' = [outcomes EXCEPT ![o] = Append(@, "ran")]
              /\ UNCHANGED <<life, redirections, asked>>
            BY <1>3 DEF Execute, set_direction, Outcome
        <3>2. Append(outcomes[o], "ran") # <<>>
            <4>1. outcomes[o] \in Seq({"ran", "failed"}) /\ "ran" \in {"ran", "failed"}
                BY <1>1 DEF TypeCorrect
            <4> QED BY <4>1, AppendProperties
        <3> QED BY <1>1, <3>1, <3>2 DEF TypeCorrect
    <2>2. /\ \A io \in Io, end \in Ends : pipes'[o][io][end] = pipes[o][io][end]
                                          \/ pipes'[o][io][end] = NoFd
          /\ \A io \in Io : pipes'[o][io][direction(io)] = NoFd
        BY <1>1, <2>1, DirectionType DEF TypeCorrect
    <2>3. life[o] = "alive"
        BY <1>3 DEF Execute, CanExecute
    <2>4. \A io \in Io : io \notin redirections[o] => pipes'[o][io] = NoPipe
        <3> TAKE io \in Io
        <3> HAVE io \notin redirections[o]
        <3>1. pipes[o][io] = NoPipe
            BY <1>1 DEF Known
        <3>2. pipes'[o][io] = [NoPipe EXCEPT ![direction(io)] = NoFd]
            BY <2>1, <3>1
        <3> QED BY <3>2 DEF NoPipe
    <2>5. redirections[o] \in SUBSET Io /\ redirections[o] # {}
        BY <1>1, <1>3, FirstCall DEF TypeCorrect
    <2>6. \E io \in redirections'[o], end \in Ends : pipes'[o][io][end] = NoFd
        BY <2>1, <2>2, <2>5, DirectionType
    <2>7. \A io, jo \in redirections'[o], end \in Ends : jo < io => pipes'[o][io][end] # jo
        BY <1>1, <2>1, <2>2, <2>5, StreamIsNotNoFd DEF Known
    <2> QED BY <1>1, <2>1, <2>2, <2>3, <2>4, <2>6, <2>7 DEF Known
<1>4. CASE ExecuteFails(o)
    <2>1. /\ actions'[o] = Added(o) /\ outcomes'[o] # <<>>
          /\ UNCHANGED <<pipes, life, program, redirections, asked>>
        <3>1. /\ actions' = [actions EXCEPT ![o] = Added(o)]
              /\ outcomes' = [outcomes EXCEPT ![o] = Append(@, "failed")]
              /\ UNCHANGED <<pipes, life, program, redirections, asked>>
            BY <1>4 DEF ExecuteFails, Outcome
        <3>2. Append(outcomes[o], "failed") # <<>>
            <4>1. outcomes[o] \in Seq({"ran", "failed"}) /\ "failed" \in {"ran", "failed"}
                BY <1>1 DEF TypeCorrect
            <4> QED BY <4>1, AppendProperties
        <3> QED BY <1>1, <3>1, <3>2 DEF TypeCorrect
    <2>2. life[o] = "alive" /\ redirections[o] \in SUBSET Io
        BY <1>1, <1>4 DEF ExecuteFails, CanExecute, TypeCorrect
    <2>3. CASE EndsAreOpen(o)
        <3>1. Added(o) = actions[o] \o Requested(o) /\ actions[o] \in Seq(Action)
            BY <1>1, <2>3, NoneRefused DEF Added, TypeCorrect
        <3>2. Requested(o)' = Requested(o)
            BY <2>1 DEF Requested, FileActions
        <3>3. \E acts \in Seq(Action) : actions'[o] = acts \o Requested(o)'
            BY <2>1, <3>1, <3>2
        <3> QED BY <1>1, <2>1, <2>2, <3>3 DEF Known
    <2>4. CASE ~EndsAreOpen(o)
        <3>1. \E io \in redirections[o], end \in Ends : pipes[o][io][end] = NoFd
            BY <1>1, <2>2, <2>4, EndType DEF EndsAreOpen
        <3> QED BY <1>1, <2>1, <2>2, <3>1 DEF Known
    <2> QED BY <2>3, <2>4
<1>5. ASSUME NEW io \in Io, done(o, io) PROVE Known(o)'
    <2>1. /\ pipes'[o] = [pipes[o] EXCEPT ![io] = NoPipe] /\ life[o] = "alive"
          /\ UNCHANGED <<actions, life, program, redirections, asked, outcomes>>
        <3>1. /\ pipes' = [pipes EXCEPT ![o][io] = NoPipe] /\ life[o] = "alive"
              /\ UNCHANGED <<actions, life, program, redirections, asked, outcomes>>
            BY <1>5 DEF done
        <3> QED BY <1>1, <3>1 DEF TypeCorrect
    <2>2. CASE io \notin redirections[o]
        <3>1. pipes[o][io] = NoPipe
            BY <1>1, <2>2 DEF Known
        <3>2. pipes'[o] = pipes[o]
            BY <1>1, <2>1, <3>1 DEF TypeCorrect
        <3> QED BY <1>1, <2>1, <3>2, SameKnown
    <2>3. CASE io \in redirections[o]
        <3>1. /\ pipes'[o][io] = NoPipe /\ \A end \in Ends : pipes'[o][io][end] = NoFd
              /\ \A jo \in Io \ {io} : pipes'[o][jo] = pipes[o][jo]
            BY <1>1, <2>1 DEF TypeCorrect, NoPipe
        <3>2. \E jo \in redirections'[o], end \in Ends : pipes'[o][jo][end] = NoFd
            BY <2>1, <2>3, <3>1, DirectionType
        <3>3. \A jo \in Io : program'[o] # "none" => pipes'[o][jo][direction(jo)] = NoFd
            BY <1>1, <2>1, <3>1, DirectionType DEF Known
        <3>4. \A jo, ko \in redirections'[o], end \in Ends : ko < jo => pipes'[o][jo][end] # ko
            <4>1. redirections[o] \in SUBSET Io
                BY <1>1 DEF TypeCorrect
            <4> QED BY <1>1, <2>1, <3>1, <4>1, StreamIsNotNoFd DEF Known
        <3>5. \A jo \in Io : jo \notin redirections'[o] => pipes'[o][jo] = NoPipe
            BY <1>1, <2>1, <3>1 DEF Known
        <3> QED BY <1>1, <2>1, <3>2, <3>3, <3>4, <3>5 DEF Known
    <2> QED BY <2>2, <2>3
<1>6. CASE Destroy(o)
    <2>1. /\ pipes'[o] = [io \in Io |-> NoPipe] /\ life[o] = "alive" /\ life'[o] = "gone"
          /\ UNCHANGED <<actions, program, redirections, asked, outcomes>>
        <3>1. /\ pipes' = [pipes EXCEPT ![o] = [io \in Io |-> NoPipe]] /\ life[o] = "alive"
              /\ life' = [life EXCEPT ![o] = "gone"]
              /\ UNCHANGED <<actions, program, redirections, asked, outcomes>>
            BY <1>6 DEF Destroy
        <3> QED BY <1>1, <3>1 DEF TypeCorrect
    <2>2. /\ \A io \in Io : pipes'[o][io] = NoPipe
          /\ \A io \in Io, end \in Ends : pipes'[o][io][end] = NoFd
        BY <2>1 DEF NoPipe
    <2>3. redirections[o] \in SUBSET Io /\ redirections[o] # {}
        BY <1>1, <2>1 DEF Known, TypeCorrect
    <2>4. \E io \in redirections'[o], end \in Ends : pipes'[o][io][end] = NoFd
        BY <2>1, <2>2, <2>3, DirectionType
    <2>5. \A io, jo \in redirections'[o], end \in Ends : jo < io => pipes'[o][io][end] # jo
        BY <2>1, <2>2, <2>3, StreamIsNotNoFd
    <2>6. \A io \in Io : pipes'[o][io][direction(io)] = NoFd
        BY <2>2, DirectionType
    <2> QED BY <1>1, <2>1, <2>2, <2>4, <2>5, <2>6 DEF Known
<1>7. ASSUME UNCHANGED <<redirections[o], life[o], pipes[o], asked[o], outcomes[o],
                         actions[o]>>,
             program'[o] # "none" <=> program[o] # "none"
      PROVE  Known(o)'
    BY <1>1, <1>7, SameKnown
<1>8. ASSUME NEW p \in Objects \ {o}, NEW streams \in Redirections, Construct(p, streams)
      PROVE  Known(o)'
    BY <1>1, <1>7, <1>8 DEF Construct, TypeCorrect
<1>9. ASSUME NEW p \in Objects \ {o}, Execute(p) PROVE Known(o)'
    BY <1>1, <1>7, <1>9 DEF Execute, set_direction, Outcome, TypeCorrect
<1>10. ASSUME NEW p \in Objects \ {o}, ExecuteFails(p) PROVE Known(o)'
    BY <1>1, <1>7, <1>10 DEF ExecuteFails, Outcome, TypeCorrect
<1>11. ASSUME NEW p \in Objects \ {o}, NEW io \in Io, done(p, io) PROVE Known(o)'
    BY <1>1, <1>7, <1>11 DEF done, TypeCorrect
<1>12. ASSUME NEW p \in Objects \ {o}, Destroy(p) PROVE Known(o)'
    BY <1>1, <1>7, <1>12 DEF Destroy, TypeCorrect
<1>13. ASSUME NEW p \in Objects, Exit(p) PROVE Known(o)'
    BY <1>1, <1>7, <1>13 DEF Exit, TypeCorrect
<1>14. ASSUME NEW p \in Objects, Wait(p) PROVE Known(o)'
    BY <1>7, <1>14 DEF Wait
<1>15. CASE Return
    BY <1>7, <1>15 DEF Return
<1>16. CASE UNCHANGED vars
    BY <1>7, <1>16 DEF vars
<1> QED BY <1>2, <1>3, <1>4, <1>5, <1>6, <1>8, <1>9, <1>10, <1>11, <1>12, <1>13, <1>14,
           <1>15, <1>16 DEF Next

LEMMA IInvInit == Init => IInv
<1> SUFFICES ASSUME Init PROVE IInv
    OBVIOUS
<1>1. TypeCorrect
    BY TypeInit
<1>2. PipesAreHeld
    BY EntriesDiffer, NoFdIsNoFd DEF Init, PipesAreHeld, NoPipe
<1>3. StreamsStay
    BY StreamsAreFds DEF Init, StreamsStay
<1>4. PipesOfTheRedirected /\ CallsLeave /\ ProgramsEndIsGone
    BY KnownInit, KnownIs
<1> QED BY <1>1, <1>2, <1>3, <1>4 DEF IInv

LEMMA IInvStep == IInv /\ [Next]_vars => IInv'
<1> SUFFICES ASSUME IInv, [Next]_vars PROVE IInv'
    OBVIOUS
<1>1. TypeCorrect'
    BY TypeStep DEF IInv
<1>2. PipesAreHeld' /\ StreamsStay'
    BY <1>1, HeldStep
<1>3. (\A o \in Objects : Known(o))'
    BY KnownStep
<1>4. (PipesOfTheRedirected /\ CallsLeave /\ ProgramsEndIsGone)'
    BY <1>3, KnownIs, PTL
<1> QED BY <1>1, <1>2, <1>4 DEF IInv

-----------------------------------------------------------------------------
(* The theorems.                                                             *)
LEMMA SpecIInv == Spec => []IInv
BY IInvInit, IInvStep, PTL DEF Spec

LEMMA FirstExecuteStep ==
    ASSUME IInv, OnlyFirstExecute, [Next]_vars
    PROVE  OnlyFirstExecute'
<1> SUFFICES ASSUME NEW o \in Objects, NEW k \in DOMAIN outcomes'[o], k > 1
             PROVE  outcomes'[o][k] = "failed"
    BY DEF OnlyFirstExecute
<1>1. outcomes \in [Objects -> Seq({"ran", "failed"})]
    BY DEF IInv, TypeCorrect
<1>2. CASE outcomes'[o] = outcomes[o]
    BY <1>2 DEF OnlyFirstExecute
<1>3. CASE Execute(o)
    <2>1. outcomes[o] = <<>>
        BY <1>3, FirstCall
    <2>2. outcomes'[o] = Append(outcomes[o], "ran")
        BY <1>1, <1>3 DEF Execute, Outcome
    <2>3. Len(outcomes'[o]) = 1 /\ outcomes'[o] \in Seq({"ran", "failed"})
        BY <1>1, <2>1, <2>2, AppendProperties, EmptySeq
    <2>4. DOMAIN outcomes'[o] = 1..1
        BY <2>3
    <2> QED BY <2>4
<1>4. CASE ExecuteFails(o)
    <2>1. outcomes'[o] = Append(outcomes[o], "failed")
        BY <1>1, <1>4 DEF ExecuteFails, Outcome
    <2>2. CASE k \in 1..Len(outcomes[o])
        <3>1. outcomes'[o][k] = outcomes[o][k] /\ k \in DOMAIN outcomes[o]
            BY <1>1, <2>1, <2>2, AppendProperties
        <3> QED BY <3>1 DEF OnlyFirstExecute
    <2>3. CASE k = Len(outcomes[o]) + 1
        BY <1>1, <2>1, <2>3, AppendProperties
    <2>4. k \in 1..Len(outcomes[o]) + 1 /\ Len(outcomes[o]) \in Nat
        <3>1. outcomes[o] \in Seq({"ran", "failed"}) /\ "failed" \in {"ran", "failed"}
            BY <1>1
        <3>2. DOMAIN Append(outcomes[o], "failed") = 1..Len(outcomes[o]) + 1
            BY <3>1, AppendProperties, LenProperties
        <3> QED BY <2>1, <3>1, <3>2, LenProperties
    <2> QED BY <2>2, <2>3, <2>4
<1>5. ASSUME NEW p \in Objects \ {o}, NEW what, Outcome(p, what)
      PROVE  outcomes'[o] = outcomes[o]
    BY <1>1, <1>5 DEF Outcome
<1>6. CASE \E p \in Objects \ {o} : Execute(p) \/ ExecuteFails(p)
    BY <1>2, <1>5, <1>6 DEF Execute, ExecuteFails
<1>7. CASE UNCHANGED outcomes
    BY <1>2, <1>7
<1> QED BY <1>3, <1>4, <1>6, <1>7
        DEF Next, vars, Construct, done, Destroy, Exit, Wait, Return

(* An object runs one program, with its first call of execute or never:      *)
(* no number of calls, in whatever order with everything else, runs a second.*)
THEOREM OneProgramPerObject == Spec => []OnlyFirstExecute
<1>1. Init => OnlyFirstExecute
    BY DEF Init, OnlyFirstExecute
<1>2. IInv /\ OnlyFirstExecute /\ [Next]_vars => OnlyFirstExecute'
    BY FirstExecuteStep
<1> QED BY <1>1, <1>2, SpecIInv, PTL DEF Spec

LEMMA OwnEndsStep ==
    ASSUME IInv, ExactlyOwnEnds, [Next]_vars
    PROVE  ExactlyOwnEnds'
<1> SUFFICES ASSUME NEW o \in Objects, program'[o] # "none"
             PROVE  /\ \A io \in asked'[o] :
                          \/ started'[o][io] = PipeEnd(o, io, direction(io))
                          \/ io \in missing' /\ started'[o][io] = Free
                    /\ \A io \in Io \ (asked'[o] \union missing') : started'[o][io] = Stream(io)
                    /\ \A n \in Fds, io \in Io, end \in Ends :
                          started'[o][n] = PipeEnd(o, io, end) => n = io /\ end = direction(io)
    BY DEF ExactlyOwnEnds
<1>1. TypeCorrect /\ PipesAreHeld /\ StreamsStay /\ PipesOfTheRedirected
    BY DEF IInv
<1>2. CASE /\ program[o] # "none"
           /\ UNCHANGED <<started[o], asked[o], missing>>
    BY <1>2 DEF ExactlyOwnEnds
<1>3. CASE Execute(o)
    <2>1. /\ EndsAreOpen(o) /\ redirections[o] = asked[o] /\ asked' = asked
          /\ missing' = missing /\ asked[o] \in SUBSET Io
        BY <1>1, <1>3, FirstCall DEF Execute, TypeCorrect
    <2>2. ChildTable(o, asked[o], started'[o])
        BY <1>3, <2>1, FirstTable
    <2>3. ASSUME NEW io \in asked[o]
          PROVE  \/ started'[o][io] = PipeEnd(o, io, direction(io))
                 \/ io \in missing /\ started'[o][io] = Free
        <3>1. io \in Io /\ io \in Fds
            BY <2>1, StreamsAreFds
        <3>2. started'[o][io] = IF pipes[o][io][direction(io)] = io THEN Free
                                ELSE PipeEnd(o, io, direction(io))
            BY <2>2, <3>1 DEF ChildTable
        <3>3. ASSUME pipes[o][io][direction(io)] = io PROVE io \in missing
            <4>1. table[io] = PipeEnd(o, io, direction(io))
                BY <1>1, <3>1, <3>3, DirectionType DEF PipesAreHeld
            <4>2. table[io] # Stream(io)
                BY <4>1, EntriesDiffer
            <4> QED BY <1>1, <3>1, <4>2 DEF StreamsStay
        <3> QED BY <3>2, <3>3
    <2>4. ASSUME NEW io \in Io \ (asked[o] \union missing)
          PROVE  started'[o][io] = Stream(io)
        <3>1. io \in Fds /\ table[io] = Stream(io)
            BY <1>1, StreamsAreFds DEF StreamsStay
        <3>2. ~\E jo \in asked[o], end \in Ends : pipes[o][jo][end] = io
            BY <1>1, <2>1, <3>1, EntriesDiffer DEF PipesAreHeld
        <3> QED BY <2>2, <3>1, <3>2 DEF ChildTable
    <2>5. ASSUME NEW n \in Fds, NEW io \in Io, NEW end \in Ends,
                 started'[o][n] = PipeEnd(o, io, end)
          PROVE  n = io /\ end = direction(io)
        <3>1. CASE n \in asked[o]
            <4>1. started'[o][n] = PipeEnd(o, n, direction(n))
                BY <2>2, <2>5, <3>1, EntriesDiffer DEF ChildTable
            <4>2. PipeEnd(o, n, direction(n)) = PipeEnd(o, io, end)
                BY <2>5, <4>1
            <4>3. n = io /\ direction(n) = end
                BY <4>2, EntriesDiffer
            <4> QED BY <4>3
        <3>2. CASE n \notin asked[o]
            <4>1. /\ ~\E jo \in asked[o], dir \in Ends : pipes[o][jo][dir] = n
                  /\ table[n] = PipeEnd(o, io, end)
                BY <2>2, <2>5, <3>2, EntriesDiffer DEF ChildTable
            <4>2. pipes[o][io][end] = n
                BY <1>1, <4>1 DEF PipesAreHeld
            <4>3. io \notin asked[o]
                BY <4>1, <4>2
            <4>4. pipes[o][io][end] = NoFd
                BY <1>1, <2>1, <4>3 DEF PipesOfTheRedirected, NoPipe
            <4> QED BY <4>2, <4>4, NoFdIsNoFd
        <3> QED BY <3>1, <3>2
    <2> QED BY <2>1, <2>3, <2>4, <2>5
<1>4. ASSUME NEW p \in Objects \ {o}, Execute(p)
      PROVE  program'[o] = program[o] /\ UNCHANGED <<started[o], asked[o], missing>>
    BY <1>1, <1>4 DEF Execute, TypeCorrect
<1>5. ASSUME NEW p \in Objects, NEW streams \in Redirections, Construct(p, streams)
      PROVE  program'[o] = program[o] /\ UNCHANGED <<started[o], asked[o], missing>>
    <2>1. program' = program /\ started' = started /\ missing' = missing
          /\ asked' = [asked EXCEPT ![p] = streams] /\ life[p] = "unborn"
        BY <1>5 DEF Construct
    <2>2. p # o
        <3>1. program[p] = "none"
            BY <2>1 DEF IInv, PipesOfTheRedirected, CallsLeave
        <3> QED BY <2>1, <3>1
    <2> QED BY <1>1, <2>1, <2>2 DEF TypeCorrect
<1>6. ASSUME NEW p \in Objects, Exit(p)
      PROVE  (program'[o] = "none" <=> program[o] = "none")
             /\ UNCHANGED <<started[o], asked[o], missing>>
    BY <1>1, <1>6 DEF Exit, TypeCorrect
<1>7. CASE UNCHANGED <<program, started, asked, missing>>
    BY <1>2, <1>7
<1> QED BY <1>2, <1>3, <1>4, <1>5, <1>6, <1>7
        DEF Next, vars, ExecuteFails, done, Destroy, Wait, Return

(* A program starts with its own end of each of its pipes as the stream that *)
(* was asked for, with the parent's other streams, and with no other         *)
(* descriptor of its own pipes: whatever numbers the pipes have, whatever    *)
(* else is open and whichever streams the process itself lacks.              *)
THEOREM StartsWithItsEnds == Spec => []ExactlyOwnEnds
<1>1. Init => ExactlyOwnEnds
    BY DEF Init, ExactlyOwnEnds
<1>2. IInv /\ ExactlyOwnEnds /\ [Next]_vars => ExactlyOwnEnds'
    BY OwnEndsStep
<1> QED BY <1>1, <1>2, SpecIInv, PTL DEF Spec

-----------------------------------------------------------------------------
(* Nested use.                                                               *)

(* Of two objects that are alive, the one built before has been tried.       *)
OneUntried == nested => \A o, p \in Objects :
    o # p /\ life[o] = "alive" /\ life[p] = "alive" => outcomes[o] # <<>> \/ outcomes[p] # <<>>

(* A program has another object's program's end only if that object failed.  *)
LentByTheFailed == nested => \A o, p \in Objects, io \in Io, n \in Fds :
    p # o /\ started[p][n] = PipeEnd(o, io, direction(io))
    => program[o] = "none" /\ outcomes[o] # <<>>

NestedInv == IInv /\ OneUntried /\ LentByTheFailed

LEMMA OutcomesGrow ==
    ASSUME TypeCorrect, [Next]_vars, NEW o \in Objects, outcomes[o] # <<>>
    PROVE  outcomes'[o] # <<>>
<1>1. outcomes \in [Objects -> Seq({"ran", "failed"})]
    BY DEF TypeCorrect
<1>2. ASSUME NEW p \in Objects, NEW what \in {"ran", "failed"}, Outcome(p, what)
      PROVE  outcomes'[o] # <<>>
    <2>1. outcomes' = [outcomes EXCEPT ![p] = Append(outcomes[p], what)]
        BY <1>2 DEF Outcome
    <2>2. Append(outcomes[p], what) # <<>>
        BY <1>1, AppendProperties
    <2> QED BY <1>1, <2>1, <2>2
<1>3. ASSUME NEW p \in Objects, Execute(p) \/ ExecuteFails(p)
      PROVE  outcomes'[o] # <<>>
    BY <1>2, <1>3 DEF Execute, ExecuteFails
<1>4. CASE UNCHANGED outcomes
    BY <1>4
<1> QED BY <1>3, <1>4 DEF Next, vars, Construct, done, Destroy, Exit, Wait, Return

LEMMA UntriedStep ==
    ASSUME NestedInv, [Next]_vars
    PROVE  OneUntried'
<1> SUFFICES ASSUME nested', NEW o \in Objects, NEW p \in Objects, o # p,
                    life'[o] = "alive", life'[p] = "alive"
             PROVE  outcomes'[o] # <<>> \/ outcomes'[p] # <<>>
    BY DEF OneUntried
<1>1. TypeCorrect /\ OneUntried
    BY DEF NestedInv, IInv
<1>2. nested
    BY DEF Next, vars, Construct, Execute, ExecuteFails, done, Destroy, Exit, Wait, Return
<1>3. CASE life[o] = "alive" /\ life[p] = "alive"
    BY <1>1, <1>2, <1>3, OutcomesGrow DEF OneUntried
<1>4. ASSUME NEW q \in Objects, NEW streams \in Redirections, Construct(q, streams)
      PROVE  outcomes'[o] # <<>> \/ outcomes'[p] # <<>>
    <2>1. /\ life' = [life EXCEPT ![q] = "alive"] /\ MayBuild(q) /\ outcomes' = outcomes
          /\ life \in [Objects -> {"unborn", "alive", "gone"}]
        BY <1>1, <1>4 DEF Construct, TypeCorrect
    <2>2. \A r \in Objects \ {q} : life[r] = "alive" => outcomes[r] # <<>>
        BY <1>2, <2>1 DEF MayBuild
    <2>3. \A r \in Objects \ {q} : life'[r] = life[r]
        BY <2>1
    <2> QED BY <2>1, <2>2, <2>3
<1>5. ASSUME NEW q \in Objects, Destroy(q)
      PROVE  outcomes'[o] # <<>> \/ outcomes'[p] # <<>>
    <2>1. life' = [life EXCEPT ![q] = "gone"] /\ life \in [Objects -> {"unborn", "alive", "gone"}]
        BY <1>1, <1>5 DEF Destroy, TypeCorrect
    <2> QED BY <1>3, <2>1
<1>6. CASE UNCHANGED life
    BY <1>3, <1>6
<1> QED BY <1>4, <1>5, <1>6 DEF Next, vars, Execute, ExecuteFails, done, Exit, Wait, Return

LEMMA LentStep ==
    ASSUME NestedInv, [Next]_vars
    PROVE  LentByTheFailed'
<1> SUFFICES ASSUME nested', NEW o \in Objects, NEW p \in Objects, NEW io \in Io, NEW n \in Fds,
                    p # o, started'[p][n] = PipeEnd(o, io, direction(io))
             PROVE  program'[o] = "none" /\ outcomes'[o] # <<>>
    BY DEF LentByTheFailed
<1>1. /\ TypeCorrect /\ PipesAreHeld /\ PipesOfTheRedirected /\ ProgramsEndIsGone
      /\ OneUntried /\ LentByTheFailed /\ IInv
    BY DEF NestedInv, IInv
<1>2. nested
    BY DEF Next, vars, Construct, Execute, ExecuteFails, done, Destroy, Exit, Wait, Return
<1>3. CASE Execute(p)
    <2>1. outcomes[p] = <<>> /\ life[p] = "alive" /\ redirections[p] \in SUBSET Io
        BY <1>1, <1>3, FirstCall DEF Execute, CanExecute, TypeCorrect
    <2>2. ChildTable(p, redirections[p], started'[p])
        BY <1>1, <1>3, FirstTable
    <2>3. PipeEnd(o, io, direction(io)) # Free
        BY EntriesDiffer
    <2>4. PipeEnd(o, io, direction(io)) # PipeEnd(p, n, direction(n))
        BY EntriesDiffer
    <2>5. table[n] = PipeEnd(o, io, direction(io))
        BY <2>2, <2>3, <2>4 DEF ChildTable
    <2>6. pipes[o][io][direction(io)] = n
        BY <1>1, <2>5, DirectionType DEF PipesAreHeld
    <2>7. program[o] = "none"
        BY <1>1, <2>6, NoFdIsNoFd DEF ProgramsEndIsGone
    <2>8. life[o] = "alive"
        BY <1>1, <2>6, NoFdIsNoFd, DirectionType DEF PipesOfTheRedirected, NoPipe
    <2>9. outcomes[o] # <<>>
        BY <1>1, <1>2, <2>1, <2>8 DEF OneUntried
    <2>10. program'[o] = program[o]
        BY <1>1, <1>3 DEF Execute, TypeCorrect
    <2> QED BY <1>1, <2>7, <2>9, <2>10, OutcomesGrow
<1>4. ASSUME started'[p] = started[p]
      PROVE  program[o] = "none" /\ outcomes[o] # <<>> /\ outcomes'[o] # <<>>
    <2>1. program[o] = "none" /\ outcomes[o] # <<>>
        BY <1>1, <1>2, <1>4 DEF LentByTheFailed
    <2> QED BY <1>1, <2>1, OutcomesGrow
<1>5. ASSUME NEW q \in Objects \ {p}, Execute(q)
      PROVE  program'[o] = "none" /\ outcomes'[o] # <<>>
    <2>1. /\ started'[p] = started[p]
          /\ program' = [program EXCEPT ![q] = "running"]
          /\ program \in [Objects -> {"none", "running", "over"}]
        BY <1>1, <1>5 DEF Execute, TypeCorrect
    <2>2. q # o
        BY <1>1, <1>4, <1>5, <2>1, FirstCall
    <2> QED BY <1>4, <2>1, <2>2
<1>6. ASSUME NEW q \in Objects, Exit(q)
      PROVE  program'[o] = "none" /\ outcomes'[o] # <<>>
    <2>1. /\ started'[p] = started[p] /\ program[q] = "running"
          /\ program' = [program EXCEPT ![q] = "over"]
          /\ program \in [Objects -> {"none", "running", "over"}]
        BY <1>1, <1>6 DEF Exit, TypeCorrect
    <2> QED BY <1>4, <2>1
<1>7. CASE UNCHANGED <<started, program>>
    BY <1>4, <1>7
<1> QED BY <1>3, <1>5, <1>6, <1>7
        DEF Next, vars, Construct, ExecuteFails, done, Destroy, Wait, Return

LEMMA SpecNestedInv == Spec => []NestedInv
<1>1. Init => NestedInv
    <2> SUFFICES ASSUME Init PROVE NestedInv
        OBVIOUS
    <2>1. OneUntried
        BY DEF Init, OneUntried
    <2>2. LentByTheFailed
        BY EntriesDiffer DEF Init, LentByTheFailed
    <2> QED BY <2>1, <2>2, IInvInit DEF NestedInv
<1>2. NestedInv /\ [Next]_vars => NestedInv'
    <2> SUFFICES ASSUME NestedInv, [Next]_vars PROVE NestedInv'
        OBVIOUS
    <2>1. IInv'
        BY IInvStep DEF NestedInv
    <2> QED BY <2>1, UntriedStep, LentStep DEF NestedInv
<1> QED BY <1>1, <1>2, PTL DEF Spec

(* Used nested, the output of a program that is over has an end: no other    *)
(* program started with the end that was its own, however many objects there *)
(* are and whichever calls of execute failed before.                         *)
THEOREM OutputsEnd == Spec => []OutputEnds
<1>1. NestedInv => OutputEnds
    <2> SUFFICES ASSUME NestedInv, NEW o \in Objects, NEW io \in {Out, Err}, nested,
                        program[o] = "over", IsHeld(PipeEnd(o, io, "WRITE"))
                 PROVE  FALSE
        BY DEF OutputEnds
    <2>1. io \in Io /\ direction(io) = "WRITE" /\ "WRITE" \in Ends
        BY DEF Io, In, Out, Err, direction, Ends
    <2>2. PipesAreHeld /\ ProgramsEndIsGone /\ LentByTheFailed
        BY DEF NestedInv, IInv
    <2>3. ASSUME NEW n \in Fds, table[n] = PipeEnd(o, io, "WRITE") PROVE FALSE
        <3>1. pipes[o][io]["WRITE"] = n
            BY <2>1, <2>2, <2>3 DEF PipesAreHeld
        <3>2. pipes[o][io]["WRITE"] = NoFd
            BY <2>1, <2>2 DEF ProgramsEndIsGone
        <3> QED BY <3>1, <3>2, NoFdIsNoFd
    <2>4. ASSUME NEW p \in Objects, NEW n \in Fds, program[p] = "running",
                 started[p][n] = PipeEnd(o, io, "WRITE")
          PROVE  FALSE
        BY <2>1, <2>2, <2>4 DEF LentByTheFailed
    <2> QED BY <2>3, <2>4 DEF IsHeld
<1> QED BY <1>1, SpecNestedInv, PTL

-----------------------------------------------------------------------------
(* Reaping, for any number of objects, process ids and codes.                *)

LEMMA ReapingConstants == /\ NoPid \notin Pids
                          /\ NoStatus \notin Codes
BY ReapingAssumption DEF NoPid, NoStatus

LEMMA InitRTypeOK == RInit => RTypeOK
<1> SUFFICES ASSUME RInit PROVE RTypeOK
    OBVIOUS
<1>1. (CHOOSE e \in Executions : TRUE) \in Executions /\ (CHOOSE c \in Codes : TRUE) \in Codes
    BY ReapingAssumption
<1> QED BY <1>1 DEF RInit, RTypeOK

LEMMA NextRTypeOK == RTypeOK /\ [RNext]_rvars => RTypeOK'
<1> SUFFICES ASSUME RTypeOK, [RNext]_rvars PROVE RTypeOK'
    OBVIOUS
<1>1. ASSUME NEW e \in Executions, execute(e)
      PROVE  RTypeOK'
    BY <1>1 DEF RTypeOK, execute
<1>2. ASSUME NEW p \in Pids, ProgramExit(p)
      PROVE  RTypeOK'
    BY <1>2 DEF RTypeOK, ProgramExit
<1>3. ASSUME NEW e \in Executions, exec_wait(e)
      PROVE  RTypeOK'
    <2>1. UNCHANGED <<pid, owner, code, exited, again>> /\ tookAny' \in BOOLEAN
        BY <1>3 DEF exec_wait, RTypeOK
    <2>2. CASE wait_pid(e) /\ UNCHANGED thrown
        <3>1. Candidates(e) \subseteq Pids
            BY DEF RTypeOK, Candidates
        <3>2. PICK p \in Pids : /\ Reap(p)
                               /\ \/ current_status' = [current_status EXCEPT ![e] = code[p]]
                                  \/ UNCHANGED current_status
            BY <2>2, <3>1 DEF wait_pid
        <3>3. state' \in [Pids -> {"free", "running", "zombie"}]
            BY <3>2 DEF Reap, RTypeOK
        <3>4. code[p] \in Codes
            BY DEF RTypeOK
        <3>5. current_status' \in [Executions -> Codes \union {NoStatus}]
            BY <3>2, <3>4 DEF RTypeOK
        <3> QED BY <2>1, <2>2, <3>3, <3>5 DEF RTypeOK
    <2>3. CASE UNCHANGED <<current_status, state>> /\ thrown' = thrown \union {e}
        BY <2>1, <2>3 DEF RTypeOK
    <2>4. CASE UNCHANGED <<current_status, state, thrown>>
        BY <2>1, <2>4 DEF RTypeOK
    <2> QED BY <1>3, <2>2, <2>3, <2>4 DEF exec_wait
<1>4. CASE UNCHANGED rvars
    BY <1>4 DEF RTypeOK, rvars
<1> QED BY <1>1, <1>2, <1>3, <1>4 DEF RNext, wait, status

(* Every variable keeps its type, whatever the order of the calls.           *)
THEOREM ReapingTypeCorrect == RSpec => []RTypeOK
BY InitRTypeOK, NextRTypeOK, PTL DEF RSpec

-----------------------------------------------------------------------------
(* As long as no object was waited for before its execute, one that has an   *)
(* id and no status still owns the process the id names, and the code that   *)
(* process ended with is the one recorded for the object.                    *)
StillOwned == \A e \in Executions :
                 pid[e] # NoPid /\ current_status[e] = NoStatus
                   => state[pid[e]] # "free" /\ owner[pid[e]] = e

CodeRecorded == \A e \in Executions :
                   pid[e] # NoPid /\ current_status[e] = NoStatus /\ state[pid[e]] = "zombie"
                     => exited[e] = code[pid[e]]

RInv == /\ RTypeOK
        /\ NoStatusBeforeExecute
        /\ NoZombieLeft
        /\ ~tookAny => StillOwned /\ CodeRecorded
        /\ OwnCode
        /\ NoEchild

LEMMA InitRInv == RInit => RInv
<1> SUFFICES ASSUME RInit PROVE RInv
    OBVIOUS
<1>1. /\ \A e \in Executions : pid[e] = NoPid /\ current_status[e] = NoStatus
      /\ \A p \in Pids : state[p] = "free"
      /\ thrown = {}
    BY DEF RInit
<1>2. StillOwned /\ CodeRecorded /\ NoZombieLeft
    BY <1>1 DEF StillOwned, CodeRecorded, NoZombieLeft
<1>3. NoStatusBeforeExecute /\ OwnCode /\ NoEchild
    BY <1>1 DEF NoStatusBeforeExecute, OwnCode, NoEchild
<1> QED BY <1>2, <1>3, InitRTypeOK DEF RInv

(* What holds whatever the objects are used for: no status before execute,   *)
(* and no child forgotten but by executing again.                            *)
LEMMA NextBefore ==
    ASSUME RTypeOK, NoStatusBeforeExecute, [RNext]_rvars
    PROVE  NoStatusBeforeExecute'
<1> SUFFICES ASSUME NEW e \in Executions, pid'[e] = NoPid
             PROVE  current_status'[e] = NoStatus
    BY DEF NoStatusBeforeExecute
<1>1. pid[e] = NoPid /\ current_status[e] = NoStatus
    <2>1. ASSUME NEW f \in Executions, execute(f) PROVE pid[e] = NoPid
        BY <2>1, ReapingConstants DEF execute, RTypeOK
    <2>2. ~(\E f \in Executions : execute(f)) => UNCHANGED pid
        BY DEF RNext, ProgramExit, wait, status, exec_wait, rvars
    <2>3. pid[e] = NoPid
        BY <2>1, <2>2
    <2> QED BY <2>3 DEF NoStatusBeforeExecute
<1>2. ASSUME NEW f \in Executions, exec_wait(f)
      PROVE  current_status'[e] = NoStatus
    <2>1. CASE wait_pid(f)
        <3>1. PICK p \in Candidates(f) :
                 IF pid[f] = p
                 THEN current_status' = [current_status EXCEPT ![f] = code[p]]
                 ELSE UNCHANGED current_status
            BY <2>1 DEF wait_pid
        <3>2. pid[f] = p => p # NoPid
            BY <3>1, ReapingConstants DEF Candidates, RTypeOK
        <3> QED BY <1>1, <3>1, <3>2 DEF RTypeOK
    <2>2. CASE UNCHANGED current_status
        BY <1>1, <2>2
    <2> QED BY <1>2, <2>1, <2>2 DEF exec_wait
<1> QED BY <1>1, <1>2 DEF RNext, wait, status, execute, ProgramExit, rvars

LEMMA NextZombie ==
    ASSUME RTypeOK, NoStatusBeforeExecute, NoZombieLeft, [RNext]_rvars
    PROVE  NoZombieLeft'
<1>1. ASSUME NEW e \in Executions, execute(e)
      PROVE  NoZombieLeft'
    <2>1. PICK p \in Pids : /\ state[p] = "free"
                            /\ pid' = [pid EXCEPT ![e] = p]
                            /\ state' = [state EXCEPT ![p] = "running"]
                            /\ owner' = [owner EXCEPT ![p] = e]
        BY <1>1 DEF execute
    <2>2. /\ again \subseteq again'
          /\ pid[e] # NoPid => e \in again'
          /\ UNCHANGED current_status
        BY <1>1 DEF execute
    <2> SUFFICES ASSUME NEW q \in Pids, state'[q] # "free", owner'[q] \notin again'
                 PROVE  pid'[owner'[q]] = q /\ current_status'[owner'[q]] = NoStatus
        BY DEF NoZombieLeft
    <2>3. CASE q = p
        <3>1. owner'[q] = e /\ pid'[e] = q
            BY <2>1, <2>3 DEF RTypeOK
        <3>2. pid[e] = NoPid /\ current_status[e] = NoStatus
            BY <2>2, <3>1 DEF NoStatusBeforeExecute
        <3> QED BY <2>2, <3>1, <3>2
    <2>4. CASE q # p
        <3>1. state[q] # "free" /\ owner'[q] = owner[q] /\ owner[q] \in Executions
            BY <2>1, <2>4 DEF RTypeOK
        <3>2. pid[owner[q]] = q /\ current_status[owner[q]] = NoStatus
            BY <2>2, <3>1 DEF NoZombieLeft
        <3>3. owner[q] # e
            BY <2>2, <3>1, <3>2, ReapingConstants
        <3>4. pid'[owner[q]] = pid[owner[q]]
            BY <2>1, <3>1, <3>3 DEF RTypeOK
        <3> QED BY <2>2, <3>1, <3>2, <3>4
    <2> QED BY <2>3, <2>4
<1>2. ASSUME NEW p \in Pids, ProgramExit(p)
      PROVE  NoZombieLeft'
    <2>1. /\ \A q \in Pids : state'[q] # "free" => state[q] # "free"
          /\ UNCHANGED <<pid, current_status, owner, again>>
        BY <1>2 DEF ProgramExit, RTypeOK
    <2> QED BY <2>1 DEF NoZombieLeft
<1>3. ASSUME NEW e \in Executions, exec_wait(e)
      PROVE  NoZombieLeft'
    <2>1. UNCHANGED <<pid, owner, again>>
        BY <1>3 DEF exec_wait
    <2>2. CASE wait_pid(e)
        <3>1. PICK p \in Pids : /\ state' = [state EXCEPT ![p] = "free"]
                                /\ IF pid[e] = p
                                   THEN current_status' = [current_status EXCEPT ![e] = code[p]]
                                   ELSE UNCHANGED current_status
            BY <2>2 DEF wait_pid, Reap, Candidates, RTypeOK
        <3> SUFFICES ASSUME NEW q \in Pids, state'[q] # "free", owner[q] \notin again
                     PROVE  pid[owner[q]] = q /\ current_status'[owner[q]] = NoStatus
            BY <2>1 DEF NoZombieLeft
        <3>2. state[q] # "free" /\ q # p
            BY <3>1 DEF RTypeOK
        <3>3. /\ pid[owner[q]] = q /\ current_status[owner[q]] = NoStatus
              /\ owner[q] \in Executions
            BY <3>2 DEF NoZombieLeft, RTypeOK
        <3> QED BY <3>1, <3>2, <3>3 DEF RTypeOK
    <2>3. CASE UNCHANGED <<current_status, state>>
        BY <2>1, <2>3 DEF NoZombieLeft
    <2> QED BY <1>3, <2>2, <2>3 DEF exec_wait
<1>4. CASE UNCHANGED rvars
    BY <1>4 DEF rvars, NoZombieLeft
<1> QED BY <1>1, <1>2, <1>3, <1>4 DEF RNext, wait, status

(* No object was waited for before its execute, by this step either.         *)
LEMMA ProperStep ==
    ASSUME RInv, [RNext]_rvars, ~tookAny'
    PROVE  RInv'
<1>0. RTypeOK /\ RTypeOK' /\ NoStatusBeforeExecute' /\ NoZombieLeft'
    BY NextRTypeOK, NextBefore, NextZombie DEF RInv
<1>a. ~tookAny
    BY <1>0 DEF RNext, execute, ProgramExit, wait, status, exec_wait, rvars, RTypeOK
<1>b. StillOwned /\ CodeRecorded
    BY <1>a DEF RInv
<1> USE <1>a, <1>b DEF RInv
<1>1. ASSUME NEW e \in Executions, execute(e)
      PROVE  RInv'
    <2>1. PICK p \in Pids : /\ state[p] = "free"
                            /\ pid' = [pid EXCEPT ![e] = p]
                            /\ state' = [state EXCEPT ![p] = "running"]
                            /\ owner' = [owner EXCEPT ![p] = e]
        BY <1>1 DEF execute
    <2>2. /\ exited' = IF current_status[e] = NoStatus
                       THEN [exited EXCEPT ![e] = NoStatus] ELSE exited
          /\ UNCHANGED <<current_status, code, thrown>>
        BY <1>1 DEF execute
    <2>3. \A f \in Executions : f # e /\ pid[f] # NoPid /\ current_status[f] = NoStatus
                                  => pid[f] \in Pids /\ pid[f] # p
        BY <1>0, <2>1 DEF StillOwned, RTypeOK
    <2>4. OwnCode' /\ NoEchild'
        BY <1>0, <2>2 DEF OwnCode, NoEchild, RTypeOK
    <2>5. StillOwned'
        BY <1>0, <2>1, <2>2, <2>3 DEF StillOwned, RTypeOK
    <2>6. CodeRecorded'
        <3> SUFFICES ASSUME NEW f \in Executions, pid'[f] # NoPid, current_status[f] = NoStatus,
                            state'[pid'[f]] = "zombie"
                     PROVE  exited'[f] = code[pid'[f]]
            BY <2>2 DEF CodeRecorded
        <3>1. f # e
            BY <1>0, <2>1 DEF RTypeOK
        <3>2. pid'[f] = pid[f] /\ exited'[f] = exited[f]
            BY <1>0, <2>1, <2>2, <3>1 DEF RTypeOK
        <3>3. state[pid[f]] = "zombie"
            BY <1>0, <2>1, <2>3, <3>1, <3>2 DEF RTypeOK
        <3> QED BY <3>2, <3>3 DEF CodeRecorded
    <2> QED BY <1>0, <2>4, <2>5, <2>6
<1>2. ASSUME NEW p \in Pids, ProgramExit(p)
      PROVE  RInv'
    <2>1. PICK c \in Codes :
             /\ code' = [code EXCEPT ![p] = c]
             /\ exited' = IF pid[owner[p]] = p /\ current_status[owner[p]] = NoStatus
                          THEN [exited EXCEPT ![owner[p]] = c] ELSE exited
        BY <1>2 DEF ProgramExit
    <2>2. /\ state' = [state EXCEPT ![p] = "zombie"]
          /\ UNCHANGED <<pid, current_status, owner, thrown>>
        BY <1>2 DEF ProgramExit
    <2>3. OwnCode' /\ NoEchild'
        BY <1>0, <2>1, <2>2 DEF OwnCode, NoEchild, RTypeOK
    <2>4. StillOwned'
        BY <1>0, <2>2 DEF StillOwned, RTypeOK
    <2>5. CodeRecorded'
        <3> SUFFICES ASSUME NEW e \in Executions, pid[e] # NoPid,
                            current_status[e] = NoStatus, state'[pid[e]] = "zombie"
                     PROVE  exited'[e] = code'[pid[e]]
            BY <2>2 DEF CodeRecorded
        <3>1. pid[e] \in Pids /\ owner[pid[e]] = e
            BY <1>0 DEF StillOwned, RTypeOK
        <3>2. CASE pid[e] = p
            BY <1>0, <2>1, <3>1, <3>2 DEF RTypeOK
        <3>3. CASE pid[e] # p
            <4>1. state[pid[e]] = "zombie" /\ code'[pid[e]] = code[pid[e]]
                BY <1>0, <2>1, <2>2, <3>1, <3>3 DEF RTypeOK
            <4>2. exited'[e] = exited[e]
                BY <1>0, <2>1, <3>3 DEF RTypeOK
            <4> QED BY <4>1, <4>2 DEF CodeRecorded
        <3> QED BY <3>2, <3>3
    <2> QED BY <1>0, <2>3, <2>4, <2>5
<1>3. ASSUME NEW e \in Executions, exec_wait(e)
      PROVE  RInv'
    <2>1. pid[e] \in Pids /\ Candidates(e) = {pid[e]}
        BY <1>0, <1>3 DEF exec_wait, Candidates, RTypeOK
    <2>2. UNCHANGED <<pid, owner, code, exited>>
        BY <1>3 DEF exec_wait
    <2>3. CASE current_status[e] = NoStatus /\ wait_pid(e) /\ UNCHANGED thrown
        <3> DEFINE p == pid[e]
        <3>1. /\ state[p] = "zombie"
              /\ state' = [state EXCEPT ![p] = "free"]
              /\ current_status' = [current_status EXCEPT ![e] = code[p]]
            BY <2>1, <2>3 DEF wait_pid, Reap
        <3>2. owner[p] = e /\ exited[e] = code[p]
            BY <2>1, <2>3, <3>1, ReapingConstants DEF StillOwned, CodeRecorded
        <3>3. OwnCode' /\ NoEchild'
            BY <1>0, <2>1, <2>2, <2>3, <3>1, <3>2, ReapingConstants
               DEF OwnCode, NoEchild, RTypeOK
        <3>4. ASSUME NEW f \in Executions, pid[f] # NoPid, current_status'[f] = NoStatus
              PROVE  /\ current_status[f] = NoStatus
                     /\ state'[pid[f]] = state[pid[f]] /\ owner[pid[f]] = f
            <4>1. f # e
                BY <1>0, <2>1, <3>1, <3>4, ReapingConstants DEF RTypeOK
            <4>2. current_status[f] = NoStatus
                BY <1>0, <3>1, <3>4, <4>1 DEF RTypeOK
            <4>3. owner[pid[f]] = f
                BY <3>4, <4>2 DEF StillOwned
            <4>4. pid[f] \in Pids /\ pid[f] # p
                BY <1>0, <3>2, <3>4, <4>1, <4>3 DEF RTypeOK
            <4> QED BY <1>0, <3>1, <4>2, <4>3, <4>4 DEF RTypeOK
        <3>5. StillOwned'
            BY <2>2, <3>4 DEF StillOwned
        <3>6. CodeRecorded'
            <4> SUFFICES ASSUME NEW f \in Executions, pid[f] # NoPid,
                                current_status'[f] = NoStatus, state'[pid[f]] = "zombie"
                         PROVE  exited[f] = code[pid[f]]
                BY <2>2 DEF CodeRecorded
            <4> QED BY <3>4 DEF CodeRecorded
        <3> QED BY <1>0, <3>3, <3>5, <3>6
    <2>4. CASE UNCHANGED <<current_status, state, thrown>>
        BY <1>0, <2>2, <2>4 DEF StillOwned, CodeRecorded, OwnCode, NoEchild
    <2>5. ~(current_status[e] = NoStatus /\ \A q \in Candidates(e) : state[q] = "free")
        BY <2>1, ReapingConstants DEF StillOwned
    <2> QED BY <1>3, <2>3, <2>4, <2>5 DEF exec_wait
<1>4. CASE UNCHANGED rvars
    BY <1>0, <1>4 DEF rvars, StillOwned, CodeRecorded, OwnCode, NoEchild
<1> QED BY <1>1, <1>2, <1>3, <1>4 DEF RNext, wait, status

LEMMA NextRInv == RInv /\ [RNext]_rvars => RInv'
<1> SUFFICES ASSUME RInv, [RNext]_rvars PROVE RInv'
    OBVIOUS
<1>1. CASE ~tookAny'
    BY <1>1, ProperStep
<1>2. CASE tookAny'
    <2>1. RTypeOK' /\ NoStatusBeforeExecute' /\ NoZombieLeft'
        BY NextRTypeOK, NextBefore, NextZombie DEF RInv
    <2>2. OwnCode' /\ NoEchild'
        BY <1>2 DEF OwnCode, NoEchild
    <2> QED BY <1>2, <2>1, <2>2 DEF RInv
<1> QED BY <1>1, <1>2

(* Objects that are waited for after their execute only ever report the exit *)
(* code of their own program, the last before the status was kept, however   *)
(* many objects there are, however soon the kernel reuses process ids and    *)
(* however often they execute.                                               *)
THEOREM ReportsOwnStatus == RSpec => []OwnStatus
<1>1. RInv => OwnStatus
    BY DEF RInv, OwnStatus
<1> QED BY <1>1, InitRInv, NextRInv, PTL DEF RSpec

(* Used like that waitpid never fails with ECHILD.                           *)
THEOREM WaitNeverFails == RSpec => []NoEchild
<1>1. RInv => NoEchild
    BY DEF RInv
<1> QED BY <1>1, InitRInv, NextRInv, PTL DEF RSpec

(* However the objects are used, a child that no object will reap is one of  *)
(* an object that executed more than once.                                   *)
THEOREM LeavesNoZombie == RSpec => []NoZombieLeft
<1>1. RInv => NoZombieLeft
    BY DEF RInv
<1> QED BY <1>1, InitRInv, NextRInv, PTL DEF RSpec
=============================================================================
