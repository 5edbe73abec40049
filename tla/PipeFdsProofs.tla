--------------------------- MODULE PipeFdsProofs ----------------------------
(* Proofs about PipeFds for any number of objects, any table of descriptors  *)
(* and any number of redirections, onto held numbers too: the numbers that   *)
(* an object holds are its own and nobody else holds them, but for those a   *)
(* redirection took from somebody and their descendants.                     *)
EXTENDS PipeFds, FiniteSetTheorems, TLAPS

(* OwnEnds is inductive only together with HeldOnce: when an object closes a *)
(* number, no other object may hold it.                                      *)
IInv == TypeOK /\ OwnEnds /\ HeldOnce

-----------------------------------------------------------------------------
LEMMA Kinds == /\ \A o, end : PipeEnd(o, end) # Free
               /\ \A o, end : PipeEnd(o, end) # Other
<1>1. \A o, end : PipeEnd(o, end).kind = "pipe"
  BY DEF PipeEnd
<1>2. Free.kind = "free" /\ Other.kind = "other"
  BY DEF Free, Other
<1>3. QED
  BY <1>1, <1>2

LEMMA Numbers == Fds \subseteq Int /\ NoFd \notin Fds /\ Ends = {READ, WRITE} /\ READ # WRITE
BY PipeFdsAssumption DEF Fds, NoFd, Ends, READ, WRITE

LEMMA InitIInv == Init => IInv
<1>. SUFFICES ASSUME Init PROVE IInv
  OBVIOUS
<1>1. TypeOK
  BY PipeFdsAssumption DEF Init, TypeOK, Entries
<1>2. \A o \in Objects, end \in Ends : fds[o][end] = NoFd
  BY DEF Init
<1>3. QED
  BY <1>1, <1>2 DEF IInv, OwnEnds, HeldOnce

-----------------------------------------------------------------------------
(* Closing ends of an object that is alive.                                  *)
LEMMA CloseEndsIInv ==
    ASSUME IInv, NEW o \in Objects, NEW ends \in SUBSET Ends, CloseEnds(o, ends),
           UNCHANGED <<holds, redirects, taken>>,
           \/ UNCHANGED life /\ life[o] = "alive"
           \/ ends = Ends /\ life' = [life EXCEPT ![o] = "gone"]
    PROVE  IInv'
<1>1. /\ table' \in [Fds -> Entries]
      /\ fds' \in [Objects -> [Ends -> Fds \union {NoFd}]]
      /\ life' \in [Objects -> {"unborn", "alive", "gone"}]
  BY DEF IInv, TypeOK, CloseEnds, Entries
<1>2. \A p \in Objects, d \in Ends :
         fds'[p][d] # NoFd => /\ fds'[p][d] = fds[p][d]
                              /\ ~(p = o /\ d \in ends)
  BY DEF IInv, TypeOK, CloseEnds
<1>3. \A p \in Objects : life'[p] # "alive" => fds'[p] = [end \in Ends |-> NoFd]
  <2>. TAKE p \in Objects
  <2>1. CASE p # o
    BY <2>1 DEF IInv, TypeOK, CloseEnds
  <2>2. CASE p = o /\ UNCHANGED life /\ life[o] = "alive"
    BY <2>2
  <2>3. CASE p = o /\ ends = Ends
    BY <2>3 DEF IInv, TypeOK, CloseEnds
  <2>4. QED
    BY <2>1, <2>2, <2>3
<1>4. OwnEnds'
  <2>. SUFFICES ASSUME NEW p \in Objects, NEW d \in Ends, fds'[p][d] \notin taken' \union {NoFd}
                PROVE  table'[fds'[p][d]] = PipeEnd(holds'[p], d)
    BY DEF OwnEnds, PipeEnd
  <2>1. fds[p][d] \notin taken \union {NoFd} /\ fds[p][d] \in Fds /\ fds'[p][d] = fds[p][d]
    BY <1>2 DEF IInv, TypeOK
  <2>2. ~\E end \in ends : fds[o][end] = fds[p][d]
    BY <1>2, <2>1 DEF IInv, HeldOnce
  <2>3. table'[fds[p][d]] = table[fds[p][d]]
    BY <2>1, <2>2 DEF CloseEnds
  <2>4. QED
    BY <2>1, <2>3 DEF IInv, OwnEnds
<1>5. HeldOnce'
  BY <1>2 DEF IInv, HeldOnce
<1>6. QED
  BY <1>1, <1>3, <1>4, <1>5 DEF IInv, TypeOK

LEMMA ConstructIInv == ASSUME IInv, NEW o \in Objects, Construct(o) PROVE IInv'
<1>1. PICK r \in Fds, w \in Fds :
         /\ r # w /\ table[r] = Free /\ table[w] = Free
         /\ table' = [table EXCEPT ![r] = PipeEnd(o, READ), ![w] = PipeEnd(o, WRITE)]
         /\ fds' = [fds EXCEPT ![o] = [end \in Ends |-> IF end = READ THEN r ELSE w]]
  BY DEF Construct, Lowest
<1>2. /\ life' = [life EXCEPT ![o] = "alive"]
      /\ holds' = [holds EXCEPT ![o] = o] /\ redirects' = redirects /\ taken' = taken
  BY DEF Construct
<1>3. TypeOK'
  <2>1. PipeEnd(o, READ) \in Entries /\ PipeEnd(o, WRITE) \in Entries
    BY Numbers DEF Entries
  <2>2. table' \in [Fds -> Entries]
    BY <1>1, <2>1 DEF IInv, TypeOK
  <2>3. fds' \in [Objects -> [Ends -> Fds \union {NoFd}]]
    BY <1>1 DEF IInv, TypeOK
  <2>4. QED
    BY <1>1, <1>2, <2>2, <2>3 DEF IInv, TypeOK
<1>4. \A p \in Objects, d \in Ends :
         p # o => /\ fds'[p][d] = fds[p][d]
                  /\ fds[p][d] \notin taken => fds[p][d] \notin {r, w}
  BY <1>1, Kinds, Numbers DEF IInv, TypeOK, OwnEnds
<1>5. fds'[o][READ] = r /\ fds'[o][WRITE] = w
  BY <1>1, Numbers DEF IInv, TypeOK
<1>6. OwnEnds'
  <2>. SUFFICES ASSUME NEW p \in Objects, NEW d \in Ends, fds'[p][d] \notin taken' \union {NoFd}
                PROVE  table'[fds'[p][d]] = PipeEnd(holds'[p], d)
    BY DEF OwnEnds, PipeEnd
  <2>1. CASE p # o
    <3>1. /\ fds[p][d] \in Fds \ taken /\ fds'[p][d] = fds[p][d]
          /\ fds[p][d] \notin {r, w}
      BY <1>2, <1>4, <2>1 DEF IInv, TypeOK
    <3>2. table'[fds[p][d]] = table[fds[p][d]]
      BY <1>1, <3>1 DEF IInv, TypeOK
    <3>3. holds'[p] = holds[p]
      BY <1>2, <2>1 DEF IInv, TypeOK
    <3>4. QED
      BY <3>1, <3>2, <3>3 DEF IInv, OwnEnds
  <2>2. CASE p = o
    <3>1. table'[r] = PipeEnd(o, READ) /\ table'[w] = PipeEnd(o, WRITE) /\ holds'[o] = o
      BY <1>1, <1>2 DEF IInv, TypeOK
    <3>2. QED
      BY <3>1, <1>5, <2>2, Numbers
  <2>3. QED
    BY <2>1, <2>2
<1>7. HeldOnce'
  BY <1>1, <1>2, <1>4, <1>5, Numbers DEF IInv, HeldOnce
<1>8. QED
  BY <1>3, <1>6, <1>7 DEF IInv

LEMMA MoveIInv == ASSUME IInv, NEW o \in Objects, NEW other \in Objects, Move(o, other)
                  PROVE  IInv'
<1>1. o # other
  BY DEF Move
<1>2. TypeOK'
  BY <1>1 DEF IInv, TypeOK, Move
<1>3. \A p \in Objects, d \in Ends :
         fds'[p][d] # NoFd => /\ p # other
                              /\ p = o => /\ fds'[p][d] = fds[other][d]
                                          /\ holds'[p] = holds[other]
                              /\ p # o => /\ fds'[p][d] = fds[p][d]
                                          /\ holds'[p] = holds[p]
  BY <1>1 DEF IInv, TypeOK, Move
<1>4. table' = table /\ taken' = taken
  BY DEF Move
<1>5. OwnEnds'
  <2>. SUFFICES ASSUME NEW p \in Objects, NEW d \in Ends, fds'[p][d] \notin taken' \union {NoFd}
                PROVE  table'[fds'[p][d]] = PipeEnd(holds'[p], d)
    BY DEF OwnEnds, PipeEnd
  <2>1. QED
    BY <1>3, <1>4 DEF IInv, OwnEnds
<1>6. HeldOnce'
  BY <1>1, <1>3, <1>4 DEF IInv, HeldOnce
<1>7. QED
  BY <1>2, <1>5, <1>6 DEF IInv

(* A redirection that gives an end a new number, and the two ways one goes:  *)
(* it does that, or changes nothing.                                         *)
Moved(o, end, target) ==
    /\ life[o] = "alive" /\ redirects < MaxRedirects
    /\ fds[o][end] \notin {NoFd, target}
    /\ table' = [table EXCEPT ![target] = table[fds[o][end]]]
    /\ fds' = [fds EXCEPT ![o][end] = target]
    /\ redirects' = redirects + 1
    /\ taken' = IF HeldByAnother(o, end, target) \/ fds[o][end] \in taken
                THEN taken \union {target} ELSE taken
    /\ UNCHANGED <<life, holds>>

LEMMA RedirectCases ==
    ASSUME NEW o \in Objects, NEW end \in Ends, NEW target \in Targets,
           redirect(o, end, target)
    PROVE  Moved(o, end, target) \/ UNCHANGED vars
BY DEF redirect, Moved, Valid, vars

LEMMA RedirectIInv ==
    ASSUME IInv, NEW o \in Objects, NEW end \in Ends, NEW target \in Targets,
           redirect(o, end, target)
    PROVE  IInv'
<1>. target \in Fds
  BY PipeFdsAssumption DEF Fds
<1>1. CASE UNCHANGED vars
  BY <1>1 DEF vars, IInv, TypeOK, OwnEnds, HeldOnce, PipeEnd
<1>2. CASE Moved(o, end, target)
  <2>1. /\ fds[o][end] \in Fds /\ fds[o][end] # target
        /\ table' = [table EXCEPT ![target] = table[fds[o][end]]]
        /\ fds' = [fds EXCEPT ![o][end] = target]
        /\ life' = life /\ holds' = holds
        /\ redirects < MaxRedirects /\ redirects' = redirects + 1
        /\ taken \subseteq taken'
        /\ taken' \subseteq Fds
        /\ target \notin taken' =>
              ~HeldByAnother(o, end, target) /\ fds[o][end] \notin taken
    BY <1>2 DEF Moved, IInv, TypeOK
  <2>2. life[o] = "alive"
    BY <1>2 DEF Moved
  <2>3. TypeOK'
    <3>1. table' \in [Fds -> Entries]
      BY <2>1 DEF IInv, TypeOK
    <3>2. fds' \in [Objects -> [Ends -> Fds \union {NoFd}]]
      BY <2>1 DEF IInv, TypeOK
    <3>3. redirects' \in 0..MaxRedirects
      BY <2>1, PipeFdsAssumption DEF IInv, TypeOK
    <3>4. \A p \in Objects : life'[p] # "alive" => fds'[p] = fds[p]
      BY <2>1, <2>2 DEF IInv, TypeOK
    <3>5. QED
      BY <2>1, <3>1, <3>2, <3>3, <3>4 DEF IInv, TypeOK
  <2>4. /\ fds'[o][end] = target
        /\ \A p \in Objects, d \in Ends :
              ~(p = o /\ d = end) => /\ fds'[p][d] = fds[p][d]
                                     /\ fds[p][d] \notin taken' => fds[p][d] # target
    <3>1. /\ fds'[o][end] = target
          /\ \A p \in Objects, d \in Ends : ~(p = o /\ d = end) => fds'[p][d] = fds[p][d]
      BY <2>1 DEF IInv, TypeOK
    <3>2. ASSUME NEW p \in Objects, NEW d \in Ends, ~(p = o /\ d = end), fds[p][d] = target
          PROVE  target \in taken'
      BY <2>1, <3>2 DEF HeldByAnother
    <3>3. QED
      BY <3>1, <3>2
  <2>5. OwnEnds'
    <3>. SUFFICES ASSUME NEW p \in Objects, NEW d \in Ends, fds'[p][d] \notin taken' \union {NoFd}
                  PROVE  table'[fds'[p][d]] = PipeEnd(holds'[p], d)
      BY DEF OwnEnds, PipeEnd
    <3>1. CASE p = o /\ d = end
      <4>1. target \notin taken' /\ fds[o][end] \notin taken \union {NoFd}
        BY <2>1, <2>4, <3>1, Numbers
      <4>2. table'[target] = table[fds[o][end]]
        BY <2>1 DEF IInv, TypeOK
      <4>3. QED
        BY <2>1, <2>4, <3>1, <4>1, <4>2 DEF IInv, OwnEnds
    <3>2. CASE ~(p = o /\ d = end)
      <4>1. /\ fds'[p][d] = fds[p][d] /\ fds[p][d] # target
            /\ fds[p][d] \notin taken \union {NoFd}
        BY <2>1, <2>4, <3>2
      <4>2. table'[fds[p][d]] = table[fds[p][d]]
        BY <2>1, <4>1 DEF IInv, TypeOK
      <4>3. QED
        BY <2>1, <4>1, <4>2 DEF IInv, OwnEnds
    <3>3. QED
      BY <3>1, <3>2
  <2>6. HeldOnce'
    <3>. SUFFICES ASSUME NEW p \in Objects, NEW q \in Objects, NEW d \in Ends, NEW e \in Ends,
                         fds'[p][d] \notin taken' \union {NoFd}, fds'[p][d] = fds'[q][e]
                  PROVE  p = q /\ d = e
      BY DEF HeldOnce
    <3>1. CASE ~(p = o /\ d = end) /\ ~(q = o /\ e = end)
      BY <2>1, <2>4, <3>1 DEF IInv, HeldOnce
    <3>2. CASE p = o /\ d = end
      BY <2>4, <3>2
    <3>3. CASE q = o /\ e = end
      BY <2>4, <3>3
    <3>4. QED
      BY <3>1, <3>2, <3>3
  <2>7. QED
    BY <2>3, <2>5, <2>6 DEF IInv
<1>3. QED
  BY <1>1, <1>2, RedirectCases

LEMMA NextIInv == IInv /\ [Next]_vars => IInv'
<1>. SUFFICES ASSUME IInv, [Next]_vars PROVE IInv'
  OBVIOUS
<1>1. ASSUME NEW o \in Objects, Construct(o) PROVE IInv'
  BY <1>1, ConstructIInv
<1>2. ASSUME NEW o \in Objects, NEW dir \in SUBSET Ends, Close(o, dir) PROVE IInv'
  <2>1. CASE UNCHANGED vars
    BY <2>1 DEF vars, IInv, TypeOK, OwnEnds, HeldOnce, PipeEnd
  <2>2. CASE CloseEnds(o, dir)
    BY <1>2, <2>2, CloseEndsIInv DEF Close
  <2>3. QED
    BY <1>2, <2>1, <2>2 DEF Close, vars
<1>3. ASSUME NEW o \in Objects, NEW dir \in SUBSET Ends, set_direction(o, dir) PROVE IInv'
  <2>1. Not(dir) \in SUBSET Ends
    BY DEF Not
  <2>2. QED
    BY <1>2, <1>3, <2>1 DEF set_direction
<1>4. ASSUME NEW o \in Objects, Destroy(o) PROVE IInv'
  BY <1>4, CloseEndsIInv DEF Destroy
<1>5. ASSUME NEW o \in Objects, NEW other \in Objects, Move(o, other) PROVE IInv'
  BY <1>5, MoveIInv
<1>6. ASSUME NEW o \in Objects, redirect_in(o) \/ redirect_out(o) \/ redirect_err(o)
      PROVE  IInv'
  BY <1>6, RedirectIInv, Numbers DEF redirect_in, redirect_out, redirect_err
<1>7. CASE UNCHANGED vars
  BY <1>7 DEF vars, IInv, TypeOK, OwnEnds, HeldOnce, PipeEnd
<1>8. QED
  BY <1>1, <1>2, <1>3, <1>4, <1>5, <1>6, <1>7 DEF Next

-----------------------------------------------------------------------------
LEMMA Invariant == Spec => []IInv
BY InitIInv, NextIInv, PTL DEF Spec

(* The table, the numbers held and the history have their types, and an      *)
(* object that is not alive holds no number.                                 *)
THEOREM TypeCorrect == Spec => []TypeOK
<1>1. IInv => TypeOK
  BY DEF IInv
<1>2. QED
  BY <1>1, Invariant, PTL

(* An object only holds numbers of ends of its own kernel pipe, though       *)
(* numbers are closed, handed out again, moved and redirected, unless the    *)
(* number was taken from another end by a redirection.                       *)
THEOREM NumbersAreOwn == Spec => []OwnEnds
<1>1. IInv => OwnEnds
  BY DEF IInv
<1>2. QED
  BY <1>1, Invariant, PTL

(* No number is held twice, so no descriptor is closed twice, unless a       *)
(* redirection took it from another end.                                     *)
THEOREM NumbersAreHeldOnce == Spec => []HeldOnce
<1>1. IInv => HeldOnce
  BY DEF IInv
<1>2. QED
  BY <1>1, Invariant, PTL

-----------------------------------------------------------------------------
(* What is unheld after a step was unheld before, or is the number that a    *)
(* redirection let go.                                                       *)
LEMMA UnheldFinite == IsFiniteSet(Unheld)
<1>1. IsFiniteSet(Fds)
  BY PipeFdsAssumption, FS_Interval DEF Fds
<1>2. QED
  BY <1>1, FS_Subset DEF Unheld

LEMMA UnheldOnRedirect ==
    ASSUME IInv, NEW o \in Objects, NEW end \in Ends, NEW target \in Targets,
           Moved(o, end, target)
    PROVE  Unheld' \subseteq Unheld \union {fds[o][end]}
<1>. target \in Fds
  BY PipeFdsAssumption DEF Fds
<1>1. /\ table' = [table EXCEPT ![target] = table[fds[o][end]]]
      /\ fds' = [fds EXCEPT ![o][end] = target]
  BY DEF Moved
<1>2. fds'[o][end] = target
  BY <1>1 DEF IInv, TypeOK
<1>3. \A p \in Objects, d \in Ends : ~(p = o /\ d = end) => fds'[p][d] = fds[p][d]
  BY <1>1 DEF IInv, TypeOK
<1>. SUFFICES ASSUME NEW n \in Unheld', n # fds[o][end] PROVE n \in Unheld
  OBVIOUS
<1>4. /\ n \in Fds /\ table'[n].kind = "pipe"
      /\ \A p \in Objects, d \in Ends : fds'[p][d] # n
  BY DEF Unheld, Fds
<1>5. table[n] = table'[n]
  BY <1>1, <1>2, <1>4 DEF IInv, TypeOK
<1>6. QED
  BY <1>3, <1>4, <1>5 DEF Unheld

LEMMA UnheldOnClose ==
    ASSUME IInv, NEW o \in Objects, NEW ends \in SUBSET Ends, CloseEnds(o, ends)
    PROVE  Unheld' \subseteq Unheld
<1>. SUFFICES ASSUME NEW n \in Unheld' PROVE n \in Unheld
  OBVIOUS
<1>1. /\ n \in Fds /\ table'[n].kind = "pipe"
      /\ \A p \in Objects, d \in Ends : fds'[p][d] # n
  BY DEF Unheld, Fds
<1>2. table'[n] = table[n] /\ \A d \in ends : fds[o][d] # n
  <2>1. Free.kind = "free"
    BY DEF Free
  <2>2. table'[n] = IF \E d \in ends : fds[o][d] = n THEN Free ELSE table[n]
    BY <1>1 DEF CloseEnds
  <2>3. QED
    BY <1>1, <2>1, <2>2
<1>3. \A p \in Objects, d \in Ends : ~(p = o /\ d \in ends) => fds'[p][d] = fds[p][d]
  BY DEF CloseEnds, IInv, TypeOK
<1>4. QED
  BY <1>1, <1>2, <1>3 DEF Unheld

LEMMA UnheldOnConstruct ==
    ASSUME IInv, NEW o \in Objects, Construct(o) PROVE Unheld' \subseteq Unheld
<1>1. PICK r \in Fds, w \in Fds :
         /\ table' = [table EXCEPT ![r] = PipeEnd(o, READ), ![w] = PipeEnd(o, WRITE)]
         /\ fds' = [fds EXCEPT ![o] = [end \in Ends |-> IF end = READ THEN r ELSE w]]
  BY DEF Construct
<1>2. fds'[o][READ] = r /\ fds'[o][WRITE] = w
  BY <1>1, Numbers DEF IInv, TypeOK
<1>3. \A p \in Objects \ {o} : fds'[p] = fds[p]
  BY <1>1 DEF IInv, TypeOK
<1>4. \A d \in Ends : fds[o][d] = NoFd
  BY DEF Construct, IInv, TypeOK
<1>. SUFFICES ASSUME NEW n \in Unheld' PROVE n \in Unheld
  OBVIOUS
<1>5. /\ n \in Fds /\ table'[n].kind = "pipe"
      /\ \A p \in Objects, d \in Ends : fds'[p][d] # n
  BY DEF Unheld, Fds
<1>6. table'[n] = table[n]
  BY <1>1, <1>2, <1>5, Numbers DEF IInv, TypeOK
<1>7. QED
  BY <1>3, <1>4, <1>5, <1>6, Numbers DEF Unheld

LEMMA UnheldOnMove ==
    ASSUME IInv, NEW o \in Objects, NEW other \in Objects, Move(o, other)
    PROVE  Unheld' \subseteq Unheld
<1>1. /\ o # other /\ table' = table
      /\ fds' = [fds EXCEPT ![o] = fds[other], ![other] = [end \in Ends |-> NoFd]]
      /\ \A d \in Ends : fds[o][d] = NoFd
  BY DEF Move, IInv, TypeOK
<1>. SUFFICES ASSUME NEW n \in Unheld' PROVE n \in Unheld
  OBVIOUS
<1>2. /\ n \in Fds /\ table'[n].kind = "pipe"
      /\ \A p \in Objects, d \in Ends : fds'[p][d] # n
  BY DEF Unheld, Fds
<1>3. fds'[o] = fds[other] /\ \A p \in Objects \ {o, other} : fds'[p] = fds[p]
  BY <1>1 DEF IInv, TypeOK
<1>4. ASSUME NEW p \in Objects, NEW d \in Ends PROVE fds[p][d] # n
  <2>1. CASE p = o
    BY <1>1, <1>2, <2>1, Numbers
  <2>2. CASE p = other
    BY <1>2, <1>3, <2>2
  <2>3. CASE p \notin {o, other}
    BY <1>2, <1>3, <2>3
  <2>4. QED
    BY <2>1, <2>2, <2>3
<1>5. QED
  BY <1>1, <1>2, <1>4 DEF Unheld

-----------------------------------------------------------------------------
(* A step that makes nothing unheld, or one number with a redirection.       *)
LEMMA FewerUnheld ==
    ASSUME NoLeak, Unheld' \subseteq Unheld, redirects' = redirects \/ redirects' = redirects + 1,
           redirects \in Nat
    PROVE  NoLeak'
<1>1. Cardinality(Unheld') <= Cardinality(Unheld)
  BY UnheldFinite, FS_Subset
<1>2. Cardinality(Unheld) \in Nat /\ Cardinality(Unheld') \in Nat
  BY UnheldFinite, FS_Subset, FS_CardinalityType
<1>3. Cardinality(Unheld)' <= redirects'
  BY <1>1, <1>2 DEF NoLeak
<1>4. QED
  BY <1>3 DEF NoLeak

LEMMA OneMoreUnheld ==
    ASSUME NoLeak, NEW n, Unheld' \subseteq Unheld \union {n}, redirects' = redirects + 1,
           redirects \in Nat
    PROVE  NoLeak'
<1>1. /\ IsFiniteSet(Unheld \union {n})
      /\ Cardinality(Unheld \union {n}) \in {Cardinality(Unheld), Cardinality(Unheld) + 1}
  BY UnheldFinite, FS_AddElement
<1>2. IsFiniteSet(Unheld') /\ Cardinality(Unheld') <= Cardinality(Unheld \union {n})
  BY <1>1, FS_Subset
<1>3. Cardinality(Unheld) \in Nat /\ Cardinality(Unheld') \in Nat
  BY <1>2, UnheldFinite, FS_CardinalityType
<1>4. Cardinality(Unheld)' <= redirects'
  BY <1>1, <1>2, <1>3 DEF NoLeak
<1>5. QED
  BY <1>4 DEF NoLeak

LEMMA InitNoLeak == Init => NoLeak
<1>. SUFFICES ASSUME Init PROVE NoLeak
  OBVIOUS
<1>1. \A n \in Fds : table[n].kind # "pipe"
  BY DEF Init, Free, Other
<1>2. Unheld = {}
  BY <1>1 DEF Unheld
<1>3. QED
  BY <1>2, FS_EmptySet DEF NoLeak, Init

LEMMA NextNoLeak == IInv /\ NoLeak /\ [Next]_vars => NoLeak'
<1>. SUFFICES ASSUME IInv, NoLeak, [Next]_vars PROVE NoLeak'
  OBVIOUS
<1>. redirects \in Nat
  BY PipeFdsAssumption DEF IInv, TypeOK
<1>1. CASE UNCHANGED vars
  BY <1>1 DEF vars, NoLeak, Unheld
<1>2. ASSUME NEW o \in Objects, Construct(o) PROVE NoLeak'
  BY <1>2, UnheldOnConstruct, FewerUnheld DEF Construct
<1>3. ASSUME NEW o \in Objects, NEW dir \in SUBSET Ends, Close(o, dir) PROVE NoLeak'
  <2>1. CASE CloseEnds(o, dir)
    BY <1>3, <2>1, UnheldOnClose, FewerUnheld DEF Close
  <2>2. QED
    BY <1>1, <1>3, <2>1 DEF Close, vars
<1>4. ASSUME NEW o \in Objects, NEW dir \in SUBSET Ends, set_direction(o, dir) PROVE NoLeak'
  <2>1. Not(dir) \in SUBSET Ends
    BY DEF Not
  <2>2. QED
    BY <1>3, <1>4, <2>1 DEF set_direction
<1>5. ASSUME NEW o \in Objects, Destroy(o) PROVE NoLeak'
  BY <1>5, UnheldOnClose, FewerUnheld DEF Destroy
<1>6. ASSUME NEW o \in Objects, NEW other \in Objects, Move(o, other) PROVE NoLeak'
  BY <1>6, UnheldOnMove, FewerUnheld DEF Move
<1>7. ASSUME NEW o \in Objects, NEW end \in Ends, NEW target \in Targets,
             redirect(o, end, target)
      PROVE  NoLeak'
  <2>1. CASE Moved(o, end, target)
    BY <2>1, UnheldOnRedirect, OneMoreUnheld DEF Moved
  <2>2. QED
    BY <1>1, <1>7, <2>1, RedirectCases
<1>8. QED
  BY <1>1, <1>2, <1>3, <1>4, <1>5, <1>6, <1>7, Numbers
     DEF Next, redirect_in, redirect_out, redirect_err

(* At most one pipe end for each redirection to a new number is left open    *)
(* with no object to close it, and without redirections none.                *)
THEOREM LeaksOnlyByRedirection == Spec => []NoLeak
<1>1. Init => NoLeak
  BY InitNoLeak
<1>2. QED
  BY <1>1, NextNoLeak, Invariant, PTL DEF Spec
=============================================================================
