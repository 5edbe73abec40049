---------------------------- MODULE LaunchProofs ----------------------------
(* Proofs about Launch for any number of threads and at_dir objects, any     *)
(* directories and any requests.                                             *)
EXTENDS Launch, SequenceTheorems, TLAPS

(* An object half made has entered no other directory yet.                   *)
HalfMade == \A g \in Guards :
               made[g] = "read" => inside[g] = old_current[g] /\ old_current[g] # Empty

(* The objects that will restore a directory are those on the stack, once    *)
(* each, and each will restore the one that the object below it is in.       *)
OnStack == \A g \in Guards : Holds(g) <=> made[g] # "no" /\ old_current[g] # Empty

Distinct == \A i, j \in DOMAIN stack : stack[i] = stack[j] => i = j

Chain == \A i \in DOMAIN stack :
            old_current[stack[i]] = IF i = 1 THEN Home ELSE inside[stack[i - 1]]

Restores == OnStack /\ Distinct /\ Chain
            /\ current = IF stack = <<>> THEN Home ELSE inside[Last(stack)]

DirIInv == DirTypeOK /\ HalfMade /\ (~crossed => Restores)

(* What a thread has in errno, it failed with.                               *)
ErrnoOK == /\ errno \in [Threads -> Nat] /\ failures \in [Threads -> SUBSET Nat]
           /\ \A t \in Threads : errno[t] \in {0} \union failures[t]

RunTypeOK == /\ pc \in [Threads -> {"idle", "called", "leaving"}]
             /\ DOMAIN ask = Threads /\ DOMAIN outcome = Threads
             /\ ErrnoOK

(* A thread hands to posix_spawn what its request says, its at_dir is never  *)
(* moved from and is in the directory requested, and so is its program.      *)
EnvOf(r) == CASE r.env = None -> NoVariables
              [] r.env = Null -> environ
              [] OTHER -> r.env

Handed(t) == LET r == ask[t].request IN
             /\ r \in Requests
             /\ Argv(ask[t].c_args) = <<r.exe>> \o r.args
             /\ ask[t].env = EnvOf(r)

Caused(t) == outcome[t].thrown \in {outcome[t].cause} \union failures[t]

ThreadInv(t) ==
    /\ pc[t] = "idle" => made[t] = "no"
    /\ made[t] = "live" => old_current[t] # Empty
    /\ pc[t] # "idle" => Handed(t)
    /\ ~crossed /\ made[t] = "live" => inside[t] = Where(t)
    /\ ~crossed /\ pc[t] = "leaving" /\ outcome[t].of = "program" => IsAsAsked(t, outcome[t])
    /\ pc[t] = "leaving" /\ outcome[t].of = "error" => Caused(t)

ImageInv == image # Nothing =>
               /\ image.argv = <<image.request.exe>> \o image.request.args
               /\ ~crossed /\ stack = <<>> => image.dir = Home

IInv == DirIInv /\ RunTypeOK /\ (\A t \in Threads : ThreadInv(t)) /\ ImageInv

-----------------------------------------------------------------------------
(* Taking an object off the stack.                                           *)
LEMMA Paths == Empty \notin Dirs /\ Here \notin Dirs /\ Home \in Dirs
BY AtDirAssumption

LEMMA WithoutType == ASSUME stack \in Seq(Guards), NEW g \in Guards
                     PROVE  Without(g) \in Seq(Guards)
<1>1. CASE ~Holds(g)
  BY <1>1 DEF Without
<1>2. CASE Holds(g)
  <2>. DEFINE at == CHOOSE i \in DOMAIN stack : stack[i] = g
  <2>1. Without(g) = [i \in 1..(Len(stack) - 1) |-> stack[IF i < at THEN i ELSE i + 1]]
    BY <1>2 DEF Without
  <2>2. at \in 1..Len(stack)
    BY <1>2 DEF Holds
  <2>. HIDE DEF at
  <2>3. Len(stack) - 1 \in Nat
    BY <2>2
  <2>4. \A i \in 1..(Len(stack) - 1) : stack[IF i < at THEN i ELSE i + 1] \in Guards
    BY <2>2
  <2>5. QED
    BY <2>1, <2>3, <2>4
<1>3. QED
  BY <1>1, <1>2

LEMMA WithoutLast ==
    ASSUME stack \in Seq(Guards), Distinct, stack # <<>>
    PROVE  LET s == Without(Last(stack)) IN
           /\ s \in Seq(Guards)
           /\ Len(s) = Len(stack) - 1
           /\ \A i \in 1..(Len(stack) - 1) : s[i] = stack[i]
<1>. DEFINE g == Last(stack)
            at == CHOOSE i \in DOMAIN stack : stack[i] = g
<1>1. Len(stack) \in DOMAIN stack /\ stack[Len(stack)] = g /\ Len(stack) \in Nat \ {0}
  BY DEF Last
<1>2. Holds(g) /\ g \in Guards
  BY <1>1 DEF Holds
<1>3. at = Len(stack)
  BY <1>1 DEF Distinct
<1>4. Without(g) = [i \in 1..(Len(stack) - 1) |-> stack[IF i < at THEN i ELSE i + 1]]
  BY <1>2 DEF Without
<1>. HIDE DEF at, g
<1>5. Without(g) \in Seq(Guards)
  BY <1>2, WithoutType
<1>6. Without(g) = [i \in 1..(Len(stack) - 1) |-> stack[i]]
  BY <1>1, <1>3, <1>4
<1>7. Len(Without(g)) = Len(stack) - 1
  BY <1>1, <1>5, <1>6
<1>8. QED
  BY <1>5, <1>6, <1>7 DEF g

(* The youngest object is gone and the process is where it found it.         *)
LEMMA Pop ==
    ASSUME DirTypeOK, DirTypeOK', Restores, NEW g \in Guards, Holds(g), Last(stack) = g,
           stack' = Without(g), made' = [made EXCEPT ![g] = "no"],
           old_current' = [old_current EXCEPT ![g] = Empty],
           inside' = [inside EXCEPT ![g] = Home],
           current' = old_current[g]
    PROVE  Restores'
<1>. DEFINE n == Len(stack)
<1>1. stack \in Seq(Guards) /\ stack # <<>> /\ n \in Nat \ {0} /\ stack[n] = g
  BY DEF DirTypeOK, Holds, Last
<1>2. /\ stack' \in Seq(Guards) /\ Len(stack') = n - 1
      /\ \A i \in 1..(n - 1) : stack'[i] = stack[i]
  BY <1>1, WithoutLast DEF Restores
<1>3. \A i \in 1..(n - 1) : stack[i] \in Guards /\ stack[i] # g
  BY <1>1 DEF Restores, Distinct
<1>4. \A h \in Guards : h # g => /\ made'[h] = made[h]
                                 /\ old_current'[h] = old_current[h]
                                 /\ inside'[h] = inside[h]
  BY DEF DirTypeOK
<1>5. \A h \in Guards : Holds(h)' <=> Holds(h) /\ h # g
  <2>1. ASSUME NEW h \in Guards, Holds(h)' PROVE Holds(h) /\ h # g
    <3>1. PICK i \in 1..(n - 1) : stack'[i] = h
      BY <1>1, <1>2, <2>1 DEF Holds
    <3>2. i \in DOMAIN stack
      BY <1>1, <3>1
    <3>3. QED
      BY <1>2, <1>3, <3>1, <3>2 DEF Holds
  <2>2. ASSUME NEW h \in Guards, Holds(h), h # g PROVE Holds(h)'
    <3>1. PICK i \in 1..n : stack[i] = h
      BY <1>1, <2>2 DEF Holds
    <3>2. i \in 1..(n - 1)
      BY <1>1, <2>2, <3>1
    <3>3. i \in DOMAIN stack'
      BY <1>1, <1>2, <3>2
    <3>4. QED
      BY <1>2, <3>1, <3>2, <3>3 DEF Holds
  <2>3. QED
    BY <2>1, <2>2
<1>6. made'[g] = "no"
  BY DEF DirTypeOK
<1>7. OnStack'
  BY <1>4, <1>5, <1>6 DEF Restores, OnStack
<1>8. DOMAIN stack' = 1..(n - 1) /\ DOMAIN stack = 1..n /\ 1..(n - 1) \subseteq 1..n
  BY <1>1, <1>2
<1>9. Distinct'
  BY <1>2, <1>8 DEF Restores, Distinct
<1>10. Chain'
  <2>. SUFFICES ASSUME NEW i \in 1..(n - 1)
                PROVE  old_current'[stack'[i]] = IF i = 1 THEN Home ELSE inside'[stack'[i - 1]]
    BY <1>8 DEF Chain
  <2>1. old_current[stack[i]] = IF i = 1 THEN Home ELSE inside[stack[i - 1]]
    BY <1>8 DEF Restores, Chain
  <2>2. CASE i = 1
    BY <1>2, <1>3, <1>4, <2>1, <2>2
  <2>3. CASE i # 1
    <3>1. i - 1 \in 1..(n - 1)
      BY <1>1, <2>3
    <3>2. QED
      BY <1>2, <1>3, <1>4, <2>1, <2>3, <3>1
  <2>4. QED
    BY <2>2, <2>3
<1>11. current' = IF stack' = <<>> THEN Home ELSE inside'[Last(stack')]
  <2>1. current' = IF n = 1 THEN Home ELSE inside[stack[n - 1]]
    BY <1>1, <1>8 DEF Restores, Chain
  <2>2. CASE n = 1
    BY <1>2, <2>1, <2>2
  <2>3. CASE n # 1
    <3>1. n - 1 \in 1..(n - 1) /\ stack' # <<>>
      BY <1>1, <1>2, <2>3
    <3>2. Last(stack') = stack[n - 1]
      BY <1>2, <3>1 DEF Last
    <3>3. QED
      BY <1>3, <1>4, <2>1, <2>3, <3>1, <3>2
  <2>4. QED
    BY <2>2, <2>3
<1>12. QED
  BY <1>7, <1>9, <1>10, <1>11 DEF Restores, Last

-----------------------------------------------------------------------------
(* What each step of an object, and of a directory, keeps.                   *)
LEMMA ReadCurrentDirIInv ==
    ASSUME DirIInv, NEW g \in Guards, ReadCurrent(g) PROVE DirIInv'
<1>. DEFINE n == Len(stack)
<1>1. /\ current \in Dirs /\ made[g] = "no" /\ UNCHANGED <<current, exists, alive, crossed>>
      /\ old_current' = [old_current EXCEPT ![g] = current]
      /\ made' = [made EXCEPT ![g] = "read"]
      /\ inside' = [inside EXCEPT ![g] = current]
      /\ stack' = Append(stack, g)
  BY DEF DirIInv, DirTypeOK, ReadCurrent
<1>2. DirTypeOK'
  BY <1>1 DEF DirIInv, DirTypeOK
<1>3. HalfMade'
  BY <1>1, Paths DEF DirIInv, DirTypeOK, HalfMade
<1>4. ASSUME ~crossed PROVE Restores'
  <2>1. n \in Nat /\ DOMAIN stack = 1..n /\ \A i \in 1..n : stack[i] \in Guards
    BY DEF DirIInv, DirTypeOK
  <2>2. /\ Len(stack') = n + 1 /\ DOMAIN stack' = 1..(n + 1)
        /\ stack'[n + 1] = g /\ \A i \in 1..n : stack'[i] = stack[i]
    BY <1>1, <2>1 DEF DirIInv, DirTypeOK
  <2>3. ~Holds(g)
    BY <1>1, <1>4 DEF DirIInv, Restores, OnStack
  <2>4. \A i \in 1..n : stack[i] # g
    BY <2>1, <2>3 DEF Holds
  <2>5. \A h \in Guards : Holds(h)' <=> Holds(h) \/ h = g
    <3>1. ASSUME NEW h \in Guards, Holds(h)' PROVE Holds(h) \/ h = g
      <4>1. PICK i \in 1..(n + 1) : stack'[i] = h
        BY <2>2, <3>1 DEF Holds
      <4>2. CASE i = n + 1
        BY <2>2, <4>1, <4>2
      <4>3. CASE i # n + 1
        <5>1. i \in 1..n
          BY <2>1, <4>3
        <5>2. QED
          BY <2>1, <2>2, <4>1, <5>1 DEF Holds
      <4>4. QED
        BY <4>2, <4>3
    <3>2. ASSUME NEW h \in Guards, Holds(h) PROVE Holds(h)'
      <4>1. PICK i \in 1..n : stack[i] = h
        BY <2>1, <3>2 DEF Holds
      <4>2. i \in DOMAIN stack'
        BY <2>1, <2>2
      <4>3. QED
        BY <2>2, <4>1, <4>2 DEF Holds
    <3>3. n + 1 \in DOMAIN stack'
      BY <2>1, <2>2
    <3>4. Holds(g)'
      BY <2>2, <3>3 DEF Holds
    <3>5. QED
      BY <3>1, <3>2, <3>4
  <2>6. \A h \in Guards : h # g => /\ made'[h] = made[h] /\ inside'[h] = inside[h]
                                   /\ old_current'[h] = old_current[h]
    BY <1>1 DEF DirIInv, DirTypeOK
  <2>7. made'[g] = "read" /\ inside'[g] = current /\ old_current'[g] = current
    BY <1>1 DEF DirIInv, DirTypeOK
  <2>8. OnStack'
    <3>. SUFFICES ASSUME NEW h \in Guards
                  PROVE  Holds(h)' <=> made'[h] # "no" /\ old_current'[h] # Empty
      BY DEF OnStack
    <3>1. CASE h = g
      BY <1>1, <2>5, <2>7, <3>1, Paths
    <3>2. CASE h # g
      BY <1>4, <2>5, <2>6, <3>2 DEF DirIInv, Restores, OnStack
    <3>3. QED
      BY <3>1, <3>2
  <2>9. Distinct'
    <3>. SUFFICES ASSUME NEW i \in 1..(n + 1), NEW j \in 1..(n + 1), stack'[i] = stack'[j]
                  PROVE  i = j
      BY <2>2 DEF Distinct
    <3>1. \A k \in 1..(n + 1) : k \in 1..n \/ k = n + 1
      BY <2>1
    <3>2. QED
      BY <1>4, <2>1, <2>2, <2>4, <3>1 DEF DirIInv, Restores, Distinct
  <2>10. current = IF n = 0 THEN Home ELSE inside[stack[n]]
    BY <1>4, <2>1 DEF DirIInv, DirTypeOK, Restores, Last
  <2>11. Chain'
    <3>. SUFFICES ASSUME NEW i \in 1..(n + 1)
                  PROVE  old_current'[stack'[i]] = IF i = 1 THEN Home ELSE inside'[stack'[i - 1]]
      BY <2>2 DEF Chain
    <3>1. CASE i = n + 1 /\ n = 0
      BY <2>1, <2>2, <2>7, <2>10, <3>1
    <3>2. CASE i = n + 1 /\ n # 0
      <4>1. n \in 1..n
        BY <2>1, <3>2
      <4>2. i # 1 /\ i - 1 = n
        BY <2>1, <3>2
      <4>3. QED
        BY <2>1, <2>2, <2>4, <2>6, <2>7, <2>10, <3>2, <4>1, <4>2
    <3>3. CASE i \in 1..n
      <4>1. old_current[stack[i]] = IF i = 1 THEN Home ELSE inside[stack[i - 1]]
        BY <1>4, <2>1, <3>3 DEF DirIInv, Restores, Chain
      <4>2. i # 1 => i - 1 \in 1..n
        BY <2>1, <3>3
      <4>3. QED
        BY <2>1, <2>2, <2>4, <2>6, <3>3, <4>1, <4>2
    <3>4. QED
      BY <2>1, <3>1, <3>2, <3>3
  <2>12. stack' # <<>> /\ Last(stack') = g
    BY <2>1, <2>2 DEF Last
  <2>13. QED
    BY <1>1, <2>7, <2>8, <2>9, <2>11, <2>12 DEF Restores, Last
<1>5. QED
  BY <1>1, <1>2, <1>3, <1>4 DEF DirIInv

(* A step that uses an object and does not cross: it is the youngest.        *)
LEMMA UsesYoungest ==
    ASSUME DirIInv, NEW g \in Guards, Uses(g), ~crossed',
           made[g] # "no", old_current[g] # Empty
    PROVE  ~crossed /\ Restores /\ Holds(g) /\ Last(stack) = g /\ stack # <<>>
<1>1. ~crossed /\ ~(Holds(g) /\ Last(stack) # g)
  BY DEF Uses
<1>2. Restores /\ Holds(g)
  BY <1>1 DEF DirIInv, Restores, OnStack
<1>3. QED
  BY <1>1, <1>2 DEF Holds

LEMMA UsesType == ASSUME crossed \in BOOLEAN, NEW g, Uses(g) PROVE crossed' \in BOOLEAN
BY DEF Uses

LEMMA EnterDirIInv ==
    ASSUME DirIInv, NEW g \in Guards, NEW path, Enter(g, path) PROVE DirIInv'
<1>. DEFINE d == Names(path)
<1>1. /\ made[g] = "read" /\ d \in Dirs /\ current' = d
      /\ made' = [made EXCEPT ![g] = "live"]
      /\ inside' = [inside EXCEPT ![g] = d]
      /\ Uses(g)
      /\ UNCHANGED <<exists, old_current, alive, stack>>
  BY DEF DirIInv, DirTypeOK, Enter
<1>. HIDE DEF d
<1>2. DirTypeOK'
  BY <1>1, UsesType DEF DirIInv, DirTypeOK
<1>3. HalfMade'
  BY <1>1 DEF DirIInv, DirTypeOK, HalfMade
<1>4. ASSUME ~crossed' PROVE Restores'
  <2>1. Restores /\ Holds(g) /\ Last(stack) = g /\ stack # <<>>
    BY <1>1, <1>4, UsesYoungest DEF DirIInv, HalfMade
  <2>2. /\ DOMAIN stack = 1..Len(stack) /\ Len(stack) \in Nat \ {0}
        /\ \A i \in 1..Len(stack) : stack[i] \in Guards
    BY <2>1 DEF DirIInv, DirTypeOK
  <2>3. \A i \in 1..(Len(stack) - 1) : stack[i] # g
    BY <2>1, <2>2 DEF Restores, Distinct, Last
  <2>4. \A h \in Guards : h # g => made'[h] = made[h] /\ inside'[h] = inside[h]
    BY <1>1 DEF DirIInv, DirTypeOK
  <2>5. made'[g] = "live" /\ inside'[g] = d
    BY <1>1 DEF DirIInv, DirTypeOK
  <2>6. OnStack'
    BY <1>1, <2>1, <2>4, <2>5 DEF Restores, OnStack, Holds
  <2>7. Chain'
    <3>. SUFFICES ASSUME NEW i \in 1..Len(stack)
                  PROVE  old_current[stack[i]] = IF i = 1 THEN Home ELSE inside'[stack[i - 1]]
      BY <1>1, <2>2 DEF Chain
    <3>1. old_current[stack[i]] = IF i = 1 THEN Home ELSE inside[stack[i - 1]]
      BY <2>1, <2>2 DEF Restores, Chain
    <3>2. i # 1 => i - 1 \in 1..(Len(stack) - 1) /\ i - 1 \in 1..Len(stack)
      BY <2>2
    <3>3. QED
      BY <2>2, <2>3, <2>4, <3>1, <3>2
  <2>8. QED
    BY <1>1, <2>1, <2>5, <2>6, <2>7 DEF Restores, Distinct, Last
<1>5. QED
  BY <1>2, <1>3, <1>4 DEF DirIInv

LEMMA CannotEnterDirIInv ==
    ASSUME DirIInv, NEW g \in Guards, NEW path, CannotEnter(g, path) PROVE DirIInv'
<1>1. /\ made[g] = "read"
      /\ made' = [made EXCEPT ![g] = "no"]
      /\ old_current' = [old_current EXCEPT ![g] = Empty]
      /\ inside' = [inside EXCEPT ![g] = Home]
      /\ stack' = Without(g)
      /\ Uses(g)
      /\ UNCHANGED <<current, exists, alive>>
  BY DEF CannotEnter
<1>2. DirTypeOK'
  BY <1>1, UsesType, WithoutType, Paths DEF DirIInv, DirTypeOK
<1>3. HalfMade'
  BY <1>1 DEF DirIInv, DirTypeOK, HalfMade
<1>4. ASSUME ~crossed' PROVE Restores'
  <2>1. Restores /\ Holds(g) /\ Last(stack) = g /\ stack # <<>>
    BY <1>1, <1>4, UsesYoungest DEF DirIInv, HalfMade
  <2>2. current' = old_current[g]
    BY <1>1, <2>1 DEF DirIInv, HalfMade, Restores
  <2>3. QED
    BY <1>1, <1>2, <2>1, <2>2, Pop DEF DirIInv
<1>5. QED
  BY <1>2, <1>3, <1>4 DEF DirIInv

LEMMA LeaveBackDirIInv == ASSUME DirIInv, NEW g \in Guards, LeaveBack(g) PROVE DirIInv'
<1>1. /\ made[g] = "live" /\ old_current[g] \in Dirs
      /\ current' = old_current[g]
      /\ made' = [made EXCEPT ![g] = "no"]
      /\ old_current' = [old_current EXCEPT ![g] = Empty]
      /\ inside' = [inside EXCEPT ![g] = Home]
      /\ stack' = Without(g)
      /\ Uses(g)
      /\ UNCHANGED <<exists, alive>>
  BY DEF DirIInv, DirTypeOK, LeaveBack
<1>2. DirTypeOK'
  BY <1>1, UsesType, WithoutType, Paths DEF DirIInv, DirTypeOK
<1>3. HalfMade'
  BY <1>1 DEF DirIInv, DirTypeOK, HalfMade
<1>4. ASSUME ~crossed' PROVE Restores'
  <2>1. Restores /\ Holds(g) /\ Last(stack) = g /\ stack # <<>>
    BY <1>1, <1>4, UsesYoungest, Paths
  <2>2. QED
    BY <1>1, <1>2, <2>1, Pop DEF DirIInv
<1>5. QED
  BY <1>2, <1>3, <1>4 DEF DirIInv

LEMMA LeaveDirIInv == ASSUME DirIInv, NEW g \in Guards, Leave(g) PROVE DirIInv'
<1>1. CASE LeaveBack(g)
  BY <1>1, LeaveBackDirIInv
<1>2. CASE LeaveTerminates(g)
  BY <1>2 DEF LeaveTerminates, DirIInv, DirTypeOK, HalfMade, Restores, OnStack, Holds,
              Distinct, Chain, Last
<1>3. CASE LeaveEmpty(g)
  <2>1. /\ old_current[g] = Empty /\ made' = [made EXCEPT ![g] = "no"]
        /\ UNCHANGED <<current, exists, old_current, alive, inside, stack, crossed>>
    BY <1>3 DEF LeaveEmpty
  <2>2. DirTypeOK' /\ HalfMade'
    BY <2>1 DEF DirIInv, DirTypeOK, HalfMade
  <2>3. OnStack => OnStack'
    BY <2>1 DEF DirIInv, DirTypeOK, OnStack, Holds
  <2>4. QED
    BY <2>1, <2>2, <2>3 DEF DirIInv, Restores, Distinct, Chain, Last
<1>4. QED
  BY <1>1, <1>2, <1>3 DEF Leave

LEMMA MoveToDirIInv ==
    ASSUME DirIInv, NEW g \in Guards, NEW h \in Guards, MoveTo(g, h) PROVE DirIInv'
<1>1. /\ made[g] = "live" /\ made[h] = "no" /\ g # h
      /\ old_current' = [old_current EXCEPT ![h] = old_current[g], ![g] = Empty]
      /\ made' = [made EXCEPT ![h] = "live"]
      /\ inside' = [inside EXCEPT ![h] = inside[g], ![g] = Home]
      /\ stack' = [i \in DOMAIN stack |-> IF stack[i] = g THEN h ELSE stack[i]]
      /\ UNCHANGED <<current, exists, alive, crossed>>
  BY DEF MoveTo
<1>2. DOMAIN stack = 1..Len(stack) /\ Len(stack) \in Nat /\ \A i \in 1..Len(stack) : stack[i] \in Guards
  BY DEF DirIInv, DirTypeOK
<1>3. stack' \in Seq(Guards) /\ Len(stack') = Len(stack) /\ DOMAIN stack' = DOMAIN stack
  BY <1>1, <1>2
<1>4. DirTypeOK'
  BY <1>1, <1>3, Paths DEF DirIInv, DirTypeOK
<1>5. HalfMade'
  BY <1>1 DEF DirIInv, DirTypeOK, HalfMade
<1>6. ASSUME ~crossed PROVE Restores'
  <2>1. Restores /\ ~Holds(h)
    BY <1>1, <1>6 DEF DirIInv, Restores, OnStack
  <2>2. \A i \in DOMAIN stack : stack[i] # h
    BY <2>1 DEF Holds
  <2>3. \A i \in DOMAIN stack :
           /\ stack[i] = g => stack'[i] = h
           /\ stack[i] # g => stack'[i] = stack[i]
    BY <1>1
  <2>4. /\ old_current'[h] = old_current[g] /\ inside'[h] = inside[g] /\ made'[h] = "live"
        /\ old_current'[g] = Empty /\ made'[g] = made[g]
        /\ \A k \in Guards : k \notin {g, h} => /\ old_current'[k] = old_current[k]
                                               /\ inside'[k] = inside[k] /\ made'[k] = made[k]
    BY <1>1 DEF DirIInv, DirTypeOK
  <2>5. /\ Holds(h)' <=> Holds(g)
        /\ ~Holds(g)'
        /\ \A k \in Guards : k \notin {g, h} => (Holds(k)' <=> Holds(k))
    BY <1>1, <1>3, <2>2, <2>3 DEF Holds
  <2>6. OnStack'
    <3>. SUFFICES ASSUME NEW k \in Guards
                  PROVE  Holds(k)' <=> made'[k] # "no" /\ old_current'[k] # Empty
      BY DEF OnStack
    <3>1. Holds(g) <=> old_current[g] # Empty
      BY <1>1, <2>1 DEF Restores, OnStack
    <3>2. CASE k = h
      BY <2>4, <2>5, <3>1, <3>2
    <3>3. CASE k = g
      BY <2>4, <2>5, <3>3
    <3>4. CASE k \notin {g, h}
      <4>1. Holds(k) <=> made[k] # "no" /\ old_current[k] # Empty
        BY <2>1 DEF Restores, OnStack
      <4>2. QED
        BY <2>4, <2>5, <3>4, <4>1
    <3>5. QED
      BY <3>2, <3>3, <3>4
  <2>7. Distinct'
    BY <1>3, <2>1, <2>2, <2>3 DEF Restores, Distinct
  <2>8. \A i \in DOMAIN stack : /\ old_current'[stack'[i]] = old_current[stack[i]]
                                /\ inside'[stack'[i]] = inside[stack[i]]
    BY <1>2, <2>2, <2>3, <2>4
  <2>9. Chain'
    <3>. SUFFICES ASSUME NEW i \in DOMAIN stack
                  PROVE  old_current'[stack'[i]] = IF i = 1 THEN Home ELSE inside'[stack'[i - 1]]
      BY <1>3 DEF Chain
    <3>1. old_current[stack[i]] = IF i = 1 THEN Home ELSE inside[stack[i - 1]]
      BY <2>1 DEF Restores, Chain
    <3>2. i # 1 => i - 1 \in DOMAIN stack
      BY <1>2
    <3>3. QED
      BY <2>8, <3>1, <3>2
  <2>10. current' = IF stack' = <<>> THEN Home ELSE inside'[Last(stack')]
    <3>1. CASE stack = <<>>
      BY <1>1, <1>3, <2>1, <3>1 DEF Restores
    <3>2. CASE stack # <<>>
      <4>1. Len(stack) \in DOMAIN stack /\ stack' # <<>>
        BY <1>2, <1>3, <3>2 DEF DirIInv, DirTypeOK
      <4>2. QED
        BY <1>1, <1>3, <2>1, <2>8, <3>2, <4>1 DEF Restores, Last
    <3>3. QED
      BY <3>1, <3>2
  <2>11. QED
    BY <2>6, <2>7, <2>9, <2>10 DEF Restores, Last
<1>7. QED
  BY <1>1, <1>4, <1>5, <1>6 DEF DirIInv

LEMMA SameDirIInv ==
    ASSUME DirIInv, UNCHANGED <<current, old_current, made, inside, stack>>,
           exists' \subseteq exists, alive' = alive,
           crossed' = crossed \/ (crossed' \in BOOLEAN /\ crossed')
    PROVE  DirIInv'
BY DEF DirIInv, DirTypeOK, HalfMade, Restores, OnStack, Holds, Distinct, Chain, Last

-----------------------------------------------------------------------------
(* The arguments a program finds are the strings of its Args.                *)
LEMMA ArgvOfArgs ==
    ASSUME NEW S, NEW strings \in Seq(S) PROVE Argv(Args(strings)) = strings
<1>. DEFINE c == Append(strings, Null)
<1>1. Argv(Args(strings)) = SubSeq(c, 1, Len(c) - 1)
  BY DEF Argv, Args, update_c
<1>2. c \in Seq(S \union {Null}) /\ Len(c) = Len(strings) + 1 /\ Len(strings) \in Nat
  OBVIOUS
<1>3. \A i \in 1..Len(strings) : c[i] = strings[i]
  BY <1>2
<1>. HIDE DEF c
<1>4. /\ SubSeq(c, 1, Len(c) - 1) \in Seq(S \union {Null})
      /\ Len(SubSeq(c, 1, Len(c) - 1)) = Len(strings)
      /\ \A i \in 1..Len(strings) : SubSeq(c, 1, Len(c) - 1)[i] = strings[i]
  BY <1>2, <1>3
<1>5. QED
  BY <1>1, <1>4, SeqEqual

(* What a step does not touch keeps its part of the invariant.               *)
LEMMA ThreadKept ==
    ASSUME NEW t \in Threads, ThreadInv(t), ~crossed' => ~crossed,
           pc'[t] = pc[t], ask'[t] = ask[t], outcome'[t] = outcome[t],
           made'[t] = made[t], old_current'[t] = old_current[t], inside'[t] = inside[t],
           failures[t] \subseteq failures'[t]
    PROVE  ThreadInv(t)'
<1>1. Where(t)' = Where(t)
  BY DEF Where
<1>2. Handed(t)' <=> Handed(t)
  BY DEF Handed, Argv, EnvOf
<1>3. IsAsAsked(t, outcome[t])' <=> IsAsAsked(t, outcome[t])
  BY <1>1 DEF IsAsAsked, File
<1>4. Caused(t) => Caused(t)'
  BY DEF Caused
<1>5. QED
  BY <1>1, <1>2, <1>3, <1>4 DEF ThreadInv

LEMMA OthersUntouched ==
    ASSUME DirTypeOK, NEW g \in Guards, NEW path,
           ReadCurrent(g) \/ Enter(g, path) \/ CannotEnter(g, path) \/ Leave(g)
    PROVE  /\ crossed => crossed'
           /\ \A h \in Guards \ {g} : /\ made'[h] = made[h]
                                       /\ old_current'[h] = old_current[h]
                                       /\ inside'[h] = inside[h]
BY DEF DirTypeOK, ReadCurrent, Enter, CannotEnter, Leave, LeaveEmpty, LeaveBack,
       LeaveTerminates, Uses

LEMMA GuardStepIInv == ASSUME IInv, GuardStep PROVE IInv'
<1>1. image = Nothing /\ UNCHANGED vars_run
  BY DEF GuardStep
<1>2. RunTypeOK' /\ ImageInv'
  BY <1>1 DEF IInv, RunTypeOK, ErrnoOK, ImageInv, vars_run
<1>3. SUFFICES /\ DirIInv'
               /\ crossed => crossed'
               /\ \A t \in Threads : /\ made'[t] = made[t]
                                     /\ old_current'[t] = old_current[t]
                                     /\ inside'[t] = inside[t]
  BY <1>1, <1>2, ThreadKept DEF IInv, vars_run
<1>4. ASSUME NEW d \in Dirs, RemoveDirectory(d)
      PROVE  DirIInv' /\ UNCHANGED <<crossed, made, old_current, inside>>
  BY <1>4, SameDirIInv DEF RemoveDirectory, IInv
<1>5. ASSUME NEW g \in Own, NEW path, ReadCurrent(g) \/ Enter(g, path) \/ CannotEnter(g, path) \/ Leave(g)
      PROVE  /\ DirIInv'
             /\ crossed => crossed'
             /\ \A t \in Threads : /\ made'[t] = made[t]
                                   /\ old_current'[t] = old_current[t]
                                   /\ inside'[t] = inside[t]
  <2>1. DirIInv'
    BY <1>5, ReadCurrentDirIInv, EnterDirIInv, CannotEnterDirIInv, LeaveDirIInv DEF IInv, Own
  <2>2. QED
    BY <1>5, <2>1, OthersUntouched, LaunchAssumption DEF IInv, DirIInv, Own
<1>6. ASSUME NEW g \in Own, NEW h \in Own, MoveTo(g, h)
      PROVE  /\ DirIInv' /\ crossed' = crossed
             /\ \A t \in Threads : /\ made'[t] = made[t]
                                   /\ old_current'[t] = old_current[t]
                                   /\ inside'[t] = inside[t]
  <2>1. DirIInv'
    BY <1>6, MoveToDirIInv DEF IInv, Own
  <2>2. QED
    BY <1>6, <2>1, LaunchAssumption DEF MoveTo, IInv, DirIInv, DirTypeOK, Own
<1>7. QED
  BY <1>4, <1>5, <1>6 DEF GuardStep, UseGuard

-----------------------------------------------------------------------------
(* A call of execute or spawn, whose request is handed on as it is.          *)
LEMMA CallIInv ==
    ASSUME IInv, NEW t \in Threads, execute(t) \/ spawn(t) PROVE IInv'
<1>1. /\ pc[t] = "idle" /\ image = Nothing /\ UNCHANGED <<vars_dir, outcome, errno, failures, image>>
      /\ pc' = [pc EXCEPT ![t] = "called"]
  BY DEF execute, spawn
<1>2. \E v : ask' = [ask EXCEPT ![t] = v] /\ v.request \in Requests
               /\ Argv(v.c_args) = <<v.request.exe>> \o v.request.args
               /\ v.env = EnvOf(v.request)
  <2>1. \A r \in Requests : /\ <<r.exe>> \o r.args \in Seq(Strings)
                            /\ Argv(Args(<<r.exe>> \o r.args)) = <<r.exe>> \o r.args
    <3>. TAKE r \in Requests
    <3>1. <<r.exe>> \in Seq(Strings) /\ r.args \in Seq(Strings)
      BY LaunchAssumption
    <3>2. <<r.exe>> \o r.args \in Seq(Strings)
      BY <3>1, ConcatProperties
    <3>3. QED
      BY <3>2, ArgvOfArgs
  <2>2. None # Null
    BY DEF None, Null
  <2>3. CASE execute(t)
    <3>. DEFINE v(r) == [work_directory |-> IF r.cwd = Default THEN current ELSE r.cwd,
                         lookup         |-> LookupOf(r.exe),
                         c_args         |-> Args(make_args(r.exe, r.args)),
                         env            |-> IF r.env = None THEN NoVariables ELSE r.env,
                         request        |-> r]
    <3>1. PICK r \in Requests : r.of = "execute" /\ ask' = [ask EXCEPT ![t] = v(r)]
      BY <2>3 DEF execute
    <3>2. (IF r.env = None THEN NoVariables ELSE r.env) = EnvOf(r)
      BY <3>1, LaunchAssumption DEF EnvOf
    <3>3. /\ v(r).request = r /\ v(r).c_args = Args(<<r.exe>> \o r.args)
          /\ v(r).env = EnvOf(r)
      BY <3>2 DEF make_args
    <3>. HIDE DEF v
    <3>4. QED
      BY <2>1, <3>1, <3>3
  <2>4. CASE spawn(t)
    <3>. DEFINE v(r) == [work_directory |-> r.cwd,
                         lookup         |-> r.lookup,
                         c_args         |-> ArgsOf(r.exe, r.args),
                         env            |-> IF r.env = Null THEN environ ELSE r.env,
                         request        |-> r]
    <3>1. PICK r \in Requests : r.of = "spawn" /\ ask' = [ask EXCEPT ![t] = v(r)]
      BY <2>4 DEF spawn
    <3>2. (IF r.env = Null THEN environ ELSE r.env) = EnvOf(r)
      BY <2>2, <3>1, LaunchAssumption DEF EnvOf
    <3>3. /\ v(r).request = r /\ v(r).c_args = Args(<<r.exe>> \o r.args)
          /\ v(r).env = EnvOf(r)
      BY <3>2 DEF ArgsOf
    <3>. HIDE DEF v
    <3>4. QED
      BY <2>1, <3>1, <3>3
  <2>5. QED
    BY <2>3, <2>4
<1>3. ThreadInv(t)'
  <2>1. pc'[t] = "called" /\ made'[t] = "no"
    BY <1>1 DEF IInv, RunTypeOK, ThreadInv, vars_dir
  <2>2. Handed(t)'
    <3>1. PICK v : ask' = [ask EXCEPT ![t] = v] /\ v.request \in Requests
                   /\ Argv(v.c_args) = <<v.request.exe>> \o v.request.args
                   /\ v.env = EnvOf(v.request)
      BY <1>2
    <3>2. ask'[t] = v
      BY <3>1 DEF IInv, RunTypeOK
    <3>3. QED
      BY <3>1, <3>2 DEF Handed, Argv, EnvOf
  <2>3. QED
    BY <2>1, <2>2 DEF ThreadInv
<1>4. \A u \in Threads \ {t} : ThreadInv(u)'
  BY <1>1, <1>2, ThreadKept DEF IInv, RunTypeOK, vars_dir
<1>5. DirIInv'
  BY <1>1, SameDirIInv DEF IInv, vars_dir
<1>6. RunTypeOK' /\ ImageInv'
  BY <1>1, <1>2 DEF IInv, RunTypeOK, ErrnoOK, ImageInv
<1>7. QED
  BY <1>3, <1>4, <1>5, <1>6 DEF IInv

(* The constructor of the at_dir in do_spawn, which enters what is asked.    *)
LEMMA ChangeIInv ==
    ASSUME IInv, NEW t \in Threads, image = Nothing, ReadDirectory(t) \/ ChangeDirectory(t)
    PROVE  IInv'
<1>. t \in Guards /\ \A u \in Threads : u \in Guards
  BY LaunchAssumption
<1>1. /\ pc[t] = "called" /\ UNCHANGED vars_run
      /\ ReadCurrent(t) \/ Enter(t, ask[t].work_directory)
  BY DEF ReadDirectory, ChangeDirectory
<1>2. DirIInv'
  BY <1>1, ReadCurrentDirIInv, EnterDirIInv DEF IInv
<1>3. \A u \in Threads \ {t} : ThreadInv(u)'
  <2>. TAKE u \in Threads \ {t}
  <2>1. ~crossed' => ~crossed
    BY <1>1, OthersUntouched DEF IInv, DirIInv
  <2>2. made'[u] = made[u] /\ old_current'[u] = old_current[u] /\ inside'[u] = inside[u]
    BY <1>1, OthersUntouched DEF IInv, DirIInv
  <2>3. QED
    BY <1>1, <2>1, <2>2, ThreadKept DEF IInv, vars_run
<1>4. Handed(t)'
  BY <1>1 DEF IInv, ThreadInv, Handed, Argv, EnvOf, vars_run
<1>5. ThreadInv(t)'
  <2>1. CASE ReadCurrent(t)
    <3>1. made'[t] = "read"
      BY <2>1 DEF ReadCurrent, IInv, DirIInv, DirTypeOK
    <3>2. QED
      BY <1>1, <1>4, <3>1 DEF ThreadInv, vars_run
  <2>2. CASE Enter(t, ask[t].work_directory)
    <3>. DEFINE w == ask[t].work_directory
    <3>1. /\ made[t] = "read" /\ made'[t] = "live" /\ inside'[t] = Names(w)
          /\ old_current' = old_current /\ Uses(t)
      BY <2>2 DEF Enter, IInv, DirIInv, DirTypeOK
    <3>2. inside[t] = old_current[t] /\ old_current[t] # Empty
      BY <3>1 DEF IInv, DirIInv, HalfMade
    <3>3. ASSUME ~crossed' PROVE inside'[t] = Where(t)'
      <4>1. current = inside[t]
        BY <3>1, <3>2, <3>3, UsesYoungest DEF IInv, Restores
      <4>2. Where(t)' = IF w = Here THEN old_current[t] ELSE w
        BY <1>1, <3>1 DEF Where, vars_run
      <4>3. QED
        BY <3>1, <3>2, <4>1, <4>2 DEF Names
    <3>4. QED
      BY <1>1, <1>4, <3>1, <3>2, <3>3 DEF ThreadInv, vars_run
  <2>3. QED
    BY <1>1, <2>1, <2>2
<1>6. RunTypeOK' /\ ImageInv'
  BY <1>1 DEF IInv, RunTypeOK, ErrnoOK, ImageInv, vars_run
<1>7. QED
  BY <1>2, <1>3, <1>5, <1>6 DEF IInv

-----------------------------------------------------------------------------
(* A failure, or no failure: what a thread failed with is never forgotten.   *)
Records == /\ ErrnoOK'
           /\ \A u \in Threads : failures[u] \subseteq failures'[u]

LEMMA FailsWithRecords ==
    ASSUME IInv, NEW t \in Threads, NEW e \in Codes, FailsWith(t, e) PROVE Records
<1>1. e \in Nat
  BY LaunchAssumption
<1>2. /\ errno' = [errno EXCEPT ![t] = e]
      /\ failures' = [failures EXCEPT ![t] = failures[t] \union {e}]
  BY DEF FailsWith
<1>3. QED
  BY <1>1, <1>2 DEF IInv, RunTypeOK, ErrnoOK, Records

LEMMA NoFailureRecords == ASSUME IInv, UNCHANGED <<errno, failures>> PROVE Records
BY DEF IInv, RunTypeOK, ErrnoOK, Records

(* The end of a call: whatever came of it, the at_dir of the thread is gone. *)
LEMMA EndCallIInv ==
    ASSUME IInv, DirIInv', NEW t \in Threads, EndCall(t), image' = image,
           Records, image = Nothing, made'[t] = "no", crossed => crossed',
           \A u \in Threads \ {t} : /\ made'[u] = made[u]
                                   /\ old_current'[u] = old_current[u]
                                   /\ inside'[u] = inside[u]
    PROVE  IInv'
<1>1. pc'[t] = "idle"
  BY DEF EndCall, IInv, RunTypeOK
<1>2. ThreadInv(t)'
  BY <1>1 DEF ThreadInv
<1>3. \A u \in Threads \ {t} : ThreadInv(u)'
  <2>. TAKE u \in Threads \ {t}
  <2>1. pc'[u] = pc[u] /\ ask'[u] = ask[u] /\ outcome'[u] = outcome[u]
    BY DEF EndCall, IInv, RunTypeOK
  <2>2. QED
    BY <2>1, ThreadKept DEF IInv, Records
<1>4. RunTypeOK' /\ ImageInv'
  BY DEF EndCall, IInv, RunTypeOK, ImageInv, Records
<1>5. QED
  BY <1>2, <1>3, <1>4 DEF IInv

LEMMA NoDirectoryIInv ==
    ASSUME IInv, NEW t \in Threads, image = Nothing, NoDirectory(t) PROVE IInv'
<1>. t \in Guards /\ Threads \subseteq Guards
  BY LaunchAssumption
<1>1. EndCall(t) /\ Records /\ image' = image
  BY FailsWithRecords DEF NoDirectory, Fails
<1>2. CASE CannotRead(t) /\ UNCHANGED vars_dir
  <2>1. made[t] = "no" /\ made' = made
    BY <1>2 DEF CannotRead, vars_dir
  <2>2. DirIInv'
    BY <1>2, SameDirIInv DEF IInv, vars_dir
  <2>3. QED
    BY <1>1, <1>2, <2>1, <2>2, EndCallIInv DEF vars_dir
<1>3. CASE CannotEnter(t, ask[t].work_directory)
  <2>1. DirIInv'
    BY <1>3, CannotEnterDirIInv DEF IInv
  <2>2. made'[t] = "no"
    BY <1>3 DEF CannotEnter, IInv, DirIInv, DirTypeOK
  <2>3. crossed => crossed'
    BY <1>3 DEF CannotEnter, Uses
  <2>4. \A u \in Threads \ {t} : /\ made'[u] = made[u]
                                 /\ old_current'[u] = old_current[u]
                                 /\ inside'[u] = inside[u]
    BY <1>3 DEF CannotEnter, IInv, DirIInv, DirTypeOK
  <2>5. QED
    BY <1>1, <2>1, <2>2, <2>3, <2>4, EndCallIInv
<1>4. QED
  BY <1>2, <1>3 DEF NoDirectory

LEMMA ReturnIInv ==
    ASSUME IInv, NEW t \in Threads, image = Nothing, Return(t) PROVE IInv'
<1>. t \in Guards /\ Threads \subseteq Guards
  BY LaunchAssumption
<1>1. Leave(t) /\ UNCHANGED <<errno, failures, image>>
  BY DEF Return
<1>2. DirIInv'
  BY <1>1, LeaveDirIInv DEF IInv
<1>3. CASE LeaveTerminates(t)
  <2>1. ~alive' /\ UNCHANGED <<made, old_current, inside, stack, crossed>>
    BY <1>3 DEF LeaveTerminates
  <2>2. UNCHANGED <<pc, ask, outcome>>
    BY <2>1 DEF Return
  <2>3. QED
    BY <1>1, <1>2, <2>1, <2>2, ThreadKept DEF IInv, RunTypeOK, ErrnoOK, ImageInv
<1>4. CASE LeaveBack(t) \/ LeaveEmpty(t)
  <2>1. alive' /\ made'[t] = "no"
    BY <1>4 DEF LeaveBack, LeaveEmpty, IInv, DirIInv, DirTypeOK
  <2>2. EndCall(t)
    BY <2>1 DEF Return
  <2>3. crossed => crossed'
    BY <1>4 DEF LeaveBack, LeaveEmpty, Uses
  <2>4. \A u \in Threads \ {t} : /\ made'[u] = made[u]
                                 /\ old_current'[u] = old_current[u]
                                 /\ inside'[u] = inside[u]
    BY <1>4 DEF LeaveBack, LeaveEmpty, IInv, DirIInv, DirTypeOK
  <2>5. Records
    BY <1>1, NoFailureRecords
  <2>6. QED
    BY <1>1, <1>2, <2>1, <2>2, <2>3, <2>4, <2>5, EndCallIInv
<1>5. QED
  BY <1>1, <1>3, <1>4 DEF Leave

-----------------------------------------------------------------------------
(* posix_spawn: a program that is as it was asked for, or an error.          *)
LEMMA ProgramAsAsked ==
    ASSUME IInv, NEW t \in Threads, do_spawn(t), posix_spawn(t), ~crossed'
    PROVE  IsAsAsked(t, outcome[t])'
<1>. DEFINE r == ask[t].request
            argv == Argv(ask[t].c_args)
            p == [of |-> "program", file |-> File(ask[t].lookup, argv[1], current),
                  dir |-> current, argv |-> argv, env |-> ask[t].env]
<1>. t \in Guards
  BY LaunchAssumption
<1>1. outcome'[t] = p
  BY DEF posix_spawn, IInv, RunTypeOK
<1>2. /\ made[t] = "live" /\ pc[t] = "called" /\ Uses(t) /\ ask' = ask /\ old_current' = old_current
  BY DEF do_spawn
<1>3. r \in Requests /\ argv = <<r.exe>> \o r.args /\ ask[t].env = EnvOf(r)
  BY <1>2 DEF IInv, ThreadInv, Handed
<1>4. argv[1] = r.exe
  BY <1>3, LaunchAssumption
<1>5. current = Where(t)
  <2>1. old_current[t] # Empty
    BY <1>2 DEF IInv, ThreadInv
  <2>2. ~crossed /\ current = inside[t]
    BY <1>2, <2>1, UsesYoungest DEF IInv, Restores
  <2>3. QED
    BY <1>2, <2>2 DEF IInv, ThreadInv
<1>6. Where(t)' = Where(t)
  BY <1>2 DEF Where
<1>7. /\ p.dir = current /\ p.file = File(ask[t].lookup, argv[1], current)
      /\ p.argv = argv /\ p.env = ask[t].env
  OBVIOUS
<1>. HIDE DEF p
<1>8. IsAsAsked(t, p)
  BY <1>3, <1>4, <1>5, <1>7 DEF IsAsAsked, EnvOf
<1>9. QED
  BY <1>1, <1>2, <1>6, <1>8 DEF IsAsAsked, File

LEMMA ErrorIsCaused ==
    ASSUME IInv, NEW t \in Threads, posix_spawn_fails(t)
    PROVE  Caused(t)' /\ Records /\ outcome'[t].of = "error"
<1>1. PICK e \in Codes :
         /\ FailsWith(t, e) \/ UNCHANGED <<errno, failures>>
         /\ outcome' = [outcome EXCEPT ![t] =
               [of |-> "error", cause |-> e, thrown |-> throw_on_error(e, errno'[t])]]
  BY DEF posix_spawn_fails
<1>2. Records
  BY <1>1, FailsWithRecords, NoFailureRecords
<1>3. /\ outcome'[t].thrown = throw_on_error(e, errno'[t]) /\ outcome'[t].cause = e
      /\ outcome'[t].of = "error"
  BY <1>1 DEF IInv, RunTypeOK
<1>4. errno'[t] \in {0} \union failures'[t]
  BY <1>2 DEF Records, ErrnoOK
<1>5. throw_on_error(e, errno'[t]) \in {e} \union failures'[t]
  BY <1>4 DEF throw_on_error
<1>6. QED
  BY <1>2, <1>3, <1>5 DEF Caused

LEMMA SpawnIInv == ASSUME IInv, NEW t \in Threads, do_spawn(t) PROVE IInv'
<1>. t \in Guards
  BY LaunchAssumption
<1>1. /\ pc[t] = "called" /\ made[t] = "live" /\ Uses(t) /\ image = Nothing
      /\ pc' = [pc EXCEPT ![t] = "leaving"]
      /\ UNCHANGED <<current, exists, old_current, made, alive, inside, stack, ask, image>>
      /\ posix_spawn(t) \/ posix_spawn_fails(t)
  BY DEF do_spawn
<1>2. crossed => crossed'
  BY <1>1 DEF Uses
<1>3. DirIInv'
  <2>1. crossed' \in BOOLEAN
    BY <1>1, UsesType DEF IInv, DirIInv, DirTypeOK
  <2>2. crossed' = crossed \/ (crossed' \in BOOLEAN /\ crossed')
    BY <1>2, <2>1 DEF IInv, DirIInv, DirTypeOK
  <2>3. QED
    BY <1>1, <2>2, SameDirIInv DEF IInv
<1>4. /\ outcome' = [outcome EXCEPT ![t] = outcome'[t]]
      /\ Records
      /\ outcome'[t].of = "error" => Caused(t)'
      /\ outcome'[t].of = "program" /\ ~crossed' => IsAsAsked(t, outcome[t])'
  <2>1. CASE posix_spawn(t)
    <3>1. /\ outcome' = [outcome EXCEPT ![t] = outcome'[t]] /\ UNCHANGED <<errno, failures>>
          /\ outcome'[t].of = "program"
      BY <2>1 DEF posix_spawn, IInv, RunTypeOK
    <3>2. QED
      BY <1>1, <2>1, <3>1, ProgramAsAsked, NoFailureRecords
  <2>2. CASE posix_spawn_fails(t)
    <3>1. outcome' = [outcome EXCEPT ![t] = outcome'[t]]
      BY <2>2 DEF posix_spawn_fails, IInv, RunTypeOK
    <3>2. QED
      BY <2>2, <3>1, ErrorIsCaused
  <2>3. QED
    BY <1>1, <2>1, <2>2
<1>5. \A u \in Threads \ {t} : ThreadInv(u)'
  <2>. TAKE u \in Threads \ {t}
  <2>1. pc'[u] = pc[u] /\ outcome'[u] = outcome[u]
    BY <1>1, <1>4 DEF IInv, RunTypeOK
  <2>2. QED
    BY <1>1, <1>2, <1>4, <2>1, ThreadKept DEF IInv, Records
<1>6. ThreadInv(t)'
  <2>1. pc'[t] = "leaving"
    BY <1>1 DEF IInv, RunTypeOK
  <2>2. Handed(t)'
    BY <1>1 DEF IInv, ThreadInv, Handed, Argv, EnvOf
  <2>3. ~crossed' => inside'[t] = Where(t)'
    BY <1>1, <1>2 DEF IInv, ThreadInv, Where
  <2>4. old_current'[t] # Empty
    BY <1>1 DEF IInv, ThreadInv
  <2>5. QED
    BY <1>1, <1>4, <2>1, <2>2, <2>3, <2>4 DEF ThreadInv
<1>7. RunTypeOK' /\ ImageInv'
  BY <1>1, <1>4 DEF IInv, RunTypeOK, ImageInv, Records
<1>8. QED
  BY <1>3, <1>5, <1>6, <1>7 DEF IInv

(* exec: this process becomes the program, in the directory it is in.        *)
LEMMA ExecIInv == ASSUME IInv, NEW t \in Threads, exec(t) PROVE IInv'
<1>1. UNCHANGED <<vars_dir, pc, ask, outcome>> /\ image = Nothing
  BY DEF exec
<1>2. DirIInv'
  BY <1>1, SameDirIInv DEF IInv, vars_dir
<1>3. Records
  BY FailsWithRecords, NoFailureRecords DEF exec, Fails
<1>4. \A u \in Threads : ThreadInv(u)'
  BY <1>1, <1>3, ThreadKept DEF IInv, vars_dir, Records
<1>5. RunTypeOK'
  BY <1>1, <1>3 DEF IInv, RunTypeOK, Records
<1>6. ImageInv'
  <2>1. CASE image' = image
    BY <1>1, <2>1 DEF ImageInv
  <2>2. ASSUME NEW r \in Requests,
               image'.argv = Argv(push_front(Args(r.args), r.exe)),
               image'.request = r, image'.dir = current
        PROVE  ImageInv'
    <3>1. push_front(Args(r.args), r.exe) = Args(<<r.exe>> \o r.args)
      BY DEF push_front, Args
    <3>2. <<r.exe>> \in Seq(Strings) /\ r.args \in Seq(Strings)
      BY LaunchAssumption
    <3>3. <<r.exe>> \o r.args \in Seq(Strings)
      BY <3>2, ConcatProperties
    <3>4. image'.argv = <<r.exe>> \o r.args
      BY <2>2, <3>1, <3>3, ArgvOfArgs
    <3>5. ~crossed /\ stack = <<>> => current = Home
      BY DEF IInv, DirIInv, Restores
    <3>6. QED
      BY <1>1, <2>2, <3>4, <3>5 DEF ImageInv, vars_dir
  <2>3. QED
    BY <2>1, <2>2 DEF exec
<1>7. QED
  BY <1>2, <1>4, <1>5, <1>6 DEF IInv

-----------------------------------------------------------------------------
LEMMA InitIInv == Init => IInv
<1>. SUFFICES ASSUME Init PROVE IInv
  OBVIOUS
<1>1. DirTypeOK
  <2>1. <<>> \in Seq(Guards)
    OBVIOUS
  <2>2. QED
    BY <2>1, Paths DEF Init, DirInit, DirTypeOK
<1>8. HalfMade
  BY DEF Init, DirInit, HalfMade
<1>2. stack = <<>> /\ \A g \in Guards : ~Holds(g)
  BY DEF Init, DirInit, Holds
<1>3. Restores
  BY <1>2 DEF Init, DirInit, Restores, OnStack, Distinct, Chain
<1>4. RunTypeOK
  BY DEF Init, RunTypeOK, ErrnoOK
<1>5. \A t \in Threads : ThreadInv(t)
  BY LaunchAssumption DEF Init, DirInit, ThreadInv
<1>6. ImageInv
  BY DEF Init, ImageInv
<1>7. QED
  BY <1>1, <1>3, <1>4, <1>5, <1>6, <1>8 DEF IInv, DirIInv

LEMMA NextIInv == IInv /\ [Next]_vars => IInv'
<1>. SUFFICES ASSUME IInv, [Next]_vars PROVE IInv'
  OBVIOUS
<1>1. CASE GuardStep
  BY <1>1, GuardStepIInv
<1>2. ASSUME NEW t \in Threads, Step(t) PROVE IInv'
  <2>1. CASE execute(t) \/ spawn(t)
    BY <2>1, CallIInv
  <2>2. CASE exec(t)
    BY <2>2, ExecIInv
  <2>3. CASE image = Nothing /\ (ReadDirectory(t) \/ ChangeDirectory(t))
    BY <2>3, ChangeIInv
  <2>4. CASE image = Nothing /\ NoDirectory(t)
    BY <2>4, NoDirectoryIInv
  <2>5. CASE do_spawn(t)
    BY <2>5, SpawnIInv
  <2>6. CASE image = Nothing /\ Return(t)
    BY <2>6, ReturnIInv
  <2>7. QED
    BY <1>2, <2>1, <2>2, <2>3, <2>4, <2>5, <2>6 DEF Step
<1>3. CASE UNCHANGED vars
  <2>1. DirIInv'
    BY <1>3, SameDirIInv DEF vars, vars_dir, IInv
  <2>2. \A t \in Threads : ThreadInv(t)'
    BY <1>3, ThreadKept DEF vars, vars_dir, vars_run, IInv
  <2>3. QED
    BY <1>3, <2>1, <2>2 DEF vars, vars_dir, vars_run, IInv, RunTypeOK, ErrnoOK, ImageInv
<1>4. QED
  BY <1>1, <1>2, <1>3 DEF Next

LEMMA Invariant == Spec => []IInv
BY InitIInv, NextIInv, PTL DEF Spec

-----------------------------------------------------------------------------
(* As long as no object is used while a younger one lives, the process is in *)
(* the directory of the youngest, or back where it started, for any number   *)
(* of objects and threads, moves, failures and removed directories.          *)
THEOREM DirectoryIsRestored == Spec => []DirectoryRestored
<1>1. IInv => DirectoryRestored
  BY DEF IInv, DirIInv, Restores, DirectoryRestored
<1>2. QED
  BY <1>1, Invariant, PTL

(* Programs start in the directory, with the arguments and the environment   *)
(* that were asked for.                                                      *)
THEOREM ProgramsStartAsAsked == Spec => []StartsAsAsked
<1>1. IInv => StartsAsAsked
  BY DEF IInv, ThreadInv, ImageInv, StartsAsAsked
<1>2. QED
  BY <1>1, Invariant, PTL

(* What a failed launch throws is the error of its posix_spawn or one that   *)
(* an earlier call of the same thread failed with, for any number of threads *)
(* that fail in any order.                                                   *)
THEOREM FailuresAreReported == Spec => []ThrowsOwnFailure
<1>1. IInv => ThrowsOwnFailure
  BY DEF IInv, ThreadInv, Caused, ThrowsOwnFailure
<1>2. QED
  BY <1>1, Invariant, PTL
=============================================================================
