------------------------ MODULE FormValidationProofs ------------------------
(***************************************************************************)
(* Proofs about FormValidation: types; that the tracker shows what the     *)
(* assistant will have; that no candidate gets past its method; and that   *)
(* the form is left only when it is filled, for any slots, values and      *)
(* methods, and however long what required_slots answers is.               *)
(***************************************************************************)
EXTENDS FormValidation, FiniteSetTheorems, WellFoundedInduction, TLAPS

-----------------------------------------------------------------------------
(* Induction.                                                              *)

\* A set of naturals that has 0 and the successor of each of its members has
\* every natural.
LEMMA SetInduction ==
  ASSUME NEW T, T \subseteq Nat, 0 \in T, \A n \in T : n + 1 \in T
  PROVE  T = Nat
<1> DEFINE R == OpToRel(<, Nat)
           D == Nat \ T
<1>1. IsWellFoundedOn(R, Nat)
  BY NatLessThanWellFounded
<1>2. ASSUME D # {} PROVE FALSE
  <2> HIDE DEF R, D
  <2>1. D \subseteq Nat
    BY DEF D
  <2>2. PICK x \in D : \A y \in D : ~ (<<y, x>> \in R)
    BY <1>1, <1>2, <2>1, WFMin
  <2>3. x \in Nat /\ x \notin T /\ x # 0
    BY <2>2 DEF D
  <2>4. x - 1 \in Nat /\ x - 1 < x
    BY <2>3
  <2>5. <<x - 1, x>> \in R
    BY <2>3, <2>4 DEF R, OpToRel
  <2>6. x - 1 \in T
    BY <2>2, <2>4, <2>5 DEF D
  <2> QED
    BY <2>6, <2>3
<1> QED
  BY <1>2

\* A set of sequences that has the empty one, and each of its members with one
\* more element, has every sequence.
LEMMA SeqInduction ==
  ASSUME NEW T, NEW P \in SUBSET Seq(T), <<>> \in P,
         \A s \in P, e \in T : Append(s, e) \in P
  PROVE  P = Seq(T)
<1> DEFINE N == {n \in Nat : \A s \in Seq(T) : Len(s) = n => s \in P}
<1>1. 0 \in N
  <2>1. \A s \in Seq(T) : Len(s) = 0 => s = <<>>
    OBVIOUS
  <2> QED
    BY <2>1
<1>2. ASSUME NEW n \in N PROVE n + 1 \in N
  <2> SUFFICES ASSUME NEW s \in Seq(T), Len(s) = n + 1 PROVE s \in P
    OBVIOUS
  <2> DEFINE r == [k \in 1 .. n |-> s[k]]
  <2>1. n \in Nat /\ \A k \in 1 .. n : s[k] \in T
    OBVIOUS
  <2>2. r \in Seq(T) /\ Len(r) = n
    BY <2>1
  <2>3. r \in P
    BY <2>1, <2>2
  <2>4. s[n + 1] \in T
    BY <2>1
  <2>5. s = Append(r, s[n + 1])
    BY <2>1, <2>2, <2>4
  <2> HIDE DEF r
  <2> QED
    BY <2>3, <2>4, <2>5
<1>3. N \subseteq Nat
  OBVIOUS
<1> HIDE DEF N
<1>4. N = Nat
  BY <1>1, <1>2, <1>3, SetInduction
<1>5. \A s \in Seq(T) : Len(s) \in Nat
  OBVIOUS
<1> QED
  BY <1>4, <1>5 DEF N

-----------------------------------------------------------------------------
(* Dicts.                                                                  *)

\* A dict's entries are found by their names.
LEMMA GetIs ==
  ASSUME NEW d \in Seq(Entries), IsDict(d), NEW i \in DOMAIN d
  PROVE  Place(d, d[i].name) = i /\ Get(d, d[i].name) = d[i].value
<1> DEFINE f == [j \in DOMAIN d |-> d[j].name]
           Is(j) == j \in DOMAIN d /\ d[j].name = d[i].name
<1>1. IsInjective(f) /\ DOMAIN f = DOMAIN d
  BY DEF IsDict
<1>2. \A j : Is(j) => j = i
  <2> SUFFICES ASSUME NEW j \in DOMAIN d, d[j].name = d[i].name PROVE j = i
    OBVIOUS
  <2>1. f[j] = f[i]
    OBVIOUS
  <2> HIDE DEF f
  <2> QED
    BY <1>1, <2>1 DEF IsInjective
<1>3. Place(d, d[i].name) = CHOOSE j : Is(j)
  BY DEF Place
<1>4. Is(i)
  OBVIOUS
<1> HIDE DEF Is
<1>5. Is(CHOOSE j : Is(j))
  BY <1>4
<1>6. Place(d, d[i].name) = i
  BY <1>2, <1>3, <1>5
<1> QED
  BY <1>6 DEF Get

\* A sequence of entries is a dict if no two have the same name.
LEMMA DictIs ==
  ASSUME NEW d \in Seq(Entries)
  PROVE  IsDict(d) <=> \A i, j \in DOMAIN d : d[i].name = d[j].name => i = j
<1> DEFINE f == [j \in DOMAIN d |-> d[j].name]
<1>1. DOMAIN f = DOMAIN d /\ \A i \in DOMAIN d : f[i] = d[i].name
  OBVIOUS
<1>2. IsDict(d) <=> IsInjective(f)
  BY DEF IsDict
<1> HIDE DEF f
<1> QED
  BY <1>1, <1>2 DEF IsInjective

\* The value of a name in a dict is one it may have.
LEMMA GetType ==
  ASSUME NEW d \in Seq(Entries), NEW s \in Names(d)
  PROVE  /\ Place(d, s) \in DOMAIN d /\ d[Place(d, s)].name = s
         /\ Get(d, s) \in Optional /\ s \in Slot
<1> DEFINE Is(j) == j \in DOMAIN d /\ d[j].name = s
<1>1. \E j : Is(j)
  BY DEF Names
<1>2. Place(d, s) = CHOOSE j : Is(j)
  BY DEF Place
<1> HIDE DEF Is
<1>3. Is(CHOOSE j : Is(j))
  BY <1>1
<1>4. Is(Place(d, s))
  BY <1>2, <1>3
<1>5. Place(d, s) \in DOMAIN d /\ d[Place(d, s)].name = s
  BY <1>4 DEF Is
<1>6. d[Place(d, s)] \in Entries
  BY <1>5
<1> QED
  BY <1>5, <1>6 DEF Entries, Get

\* Assigning a dict keeps the slots' type.
LEMMA AssignedType ==
  ASSUME NEW f \in [Slot -> Optional], NEW d \in Seq(Entries)
  PROVE  Assigned(f, d) \in [Slot -> Optional]
BY GetType DEF Assigned

\* What d[name] = value does to a dict: its type, its names and what it assigns.
LEMMA PutIs ==
  ASSUME NEW d \in Seq(Entries), NEW e \in Entries
  PROVE  /\ Put(d, e) \in Seq(Entries) /\ Names(Put(d, e)) = Names(d) \cup {e.name}
         /\ IsDict(d) => IsDict(Put(d, e))
         /\ IsDict(d) =>
              \A f \in [Slot -> Optional] :
                Assigned(f, Put(d, e)) = [Assigned(f, d) EXCEPT ![e.name] = e.value]
<1> DEFINE p == Put(d, e)
<1>1. /\ p \in Seq(Entries) /\ Len(d) \in Nat /\ DOMAIN d = 1 .. Len(d)
      /\ \A i \in DOMAIN d :
           i \in DOMAIN p /\ p[i] = IF d[i].name = e.name THEN e ELSE d[i]
      /\ \A i \in DOMAIN p :
           i \in DOMAIN d \/ (i = Len(d) + 1 /\ p[i] = e /\ e.name \notin Names(d))
      /\ \E i \in DOMAIN p : p[i] = e
  <2>1. CASE e.name \in Names(d)
    <3>1. p = [i \in DOMAIN d |-> IF d[i].name = e.name THEN e ELSE d[i]]
      BY <2>1 DEF Put
    <3>2. \A i \in DOMAIN d : d[i] \in Entries
      OBVIOUS
    <3>3. p \in Seq(Entries) /\ DOMAIN p = DOMAIN d
      BY <3>1, <3>2
    <3>4. PICK i \in DOMAIN d : d[i].name = e.name
      BY <2>1 DEF Names
    <3> HIDE DEF p
    <3> QED
      BY <3>1, <3>3, <3>4
  <2>2. CASE e.name \notin Names(d)
    <3>1. p = Append(d, e)
      BY <2>2 DEF Put
    <3>2. \A i \in DOMAIN d : d[i].name # e.name
      BY <2>2 DEF Names
    <3> HIDE DEF p
    <3>3. DOMAIN p = 1 .. Len(d) + 1 /\ p[Len(d) + 1] = e /\ p \in Seq(Entries)
          /\ \A i \in DOMAIN d : p[i] = d[i]
      BY <3>1
    <3> QED
      BY <2>2, <3>2, <3>3
  <2> QED
    BY <2>1, <2>2
<1> HIDE DEF p
<1>2. Names(p) = Names(d) \cup {e.name}
  <2>1. \A i \in DOMAIN d : p[i].name = d[i].name
    BY <1>1
  <2> QED
    BY <1>1, <2>1 DEF Names
<1>3. ASSUME IsDict(d) PROVE IsDict(p)
  <2>1. \A i, j \in DOMAIN d : d[i].name = d[j].name => i = j
    BY <1>3, DictIs
  <2>2. ASSUME NEW i \in DOMAIN p, NEW j \in DOMAIN p, p[i].name = p[j].name PROVE i = j
    <3>1. \A k \in DOMAIN d : p[k].name = d[k].name /\ d[k].name \in Names(d)
      BY <1>1 DEF Names
    <3>2. CASE i \in DOMAIN d /\ j \in DOMAIN d
      BY <2>1, <2>2, <3>1, <3>2
    <3>3. CASE i \notin DOMAIN d /\ j \in DOMAIN d
      BY <1>1, <2>2, <3>1, <3>3
    <3>4. CASE i \in DOMAIN d /\ j \notin DOMAIN d
      BY <1>1, <2>2, <3>1, <3>4
    <3>5. CASE i \notin DOMAIN d /\ j \notin DOMAIN d
      BY <1>1, <3>5
    <3> QED
      BY <3>2, <3>3, <3>4, <3>5
  <2> QED
    BY <1>1, <2>2, DictIs
<1>4. ASSUME IsDict(d), NEW f \in [Slot -> Optional]
      PROVE  Assigned(f, p) = [Assigned(f, d) EXCEPT ![e.name] = e.value]
  <2> SUFFICES ASSUME NEW s \in Slot
               PROVE  Assigned(f, p)[s] = IF s = e.name THEN e.value ELSE Assigned(f, d)[s]
    BY DEF Assigned, Entries
  <2>1. CASE s = e.name
    <3>1. PICK i \in DOMAIN p : p[i] = e
      BY <1>1
    <3>2. Get(p, p[i].name) = p[i].value
      BY <1>1, <1>3, <1>4, GetIs
    <3> QED
      BY <1>2, <2>1, <3>1, <3>2 DEF Assigned
  <2>2. CASE s # e.name /\ s \in Names(d)
    <3>1. PICK i \in DOMAIN d : d[i].name = s
      BY <2>2 DEF Names
    <3>2. i \in DOMAIN p /\ p[i] = d[i]
      BY <1>1, <2>2, <3>1
    <3>3. Get(d, d[i].name) = d[i].value
      BY <1>4, GetIs
    <3>4. Get(p, p[i].name) = p[i].value
      BY <1>1, <1>3, <1>4, <3>2, GetIs
    <3> QED
      BY <1>2, <2>2, <3>1, <3>2, <3>3, <3>4 DEF Assigned
  <2>3. CASE s # e.name /\ s \notin Names(d)
    BY <1>2, <2>3 DEF Assigned
  <2> QED
    BY <2>1, <2>2, <2>3
<1> QED
  BY <1>1, <1>2, <1>3, <1>4 DEF p

\* A dict with one more entry is the dict with the entry put.
LEMMA AppendIsPut ==
  ASSUME NEW d \in Seq(Entries), NEW e \in Entries, IsDict(Append(d, e))
  PROVE  IsDict(d) /\ Put(d, e) = Append(d, e)
<1> DEFINE t == Append(d, e)
<1>1. /\ t \in Seq(Entries) /\ Len(d) \in Nat /\ DOMAIN d = 1 .. Len(d)
      /\ DOMAIN t = 1 .. Len(d) + 1 /\ t[Len(d) + 1] = e
      /\ \A i \in DOMAIN d : t[i] = d[i] /\ i \in DOMAIN t /\ i # Len(d) + 1
      /\ Len(d) + 1 \in DOMAIN t
  OBVIOUS
<1> HIDE DEF t
<1>2. \A i, j \in DOMAIN t : t[i].name = t[j].name => i = j
  BY <1>1, DictIs DEF t
<1>3. IsDict(d)
  BY <1>1, <1>2, DictIs
<1>4. e.name \notin Names(d)
  BY <1>1, <1>2 DEF Names
<1> QED
  BY <1>3, <1>4 DEF Put

\* Popping an entry leaves the others.
LEMMA PopIs ==
  ASSUME NEW d \in Seq(Entries), IsDict(d), NEW s \in Names(d)
  PROVE  LET r == RemoveAt(d, Place(d, s)) IN
           /\ r \in Seq(Entries) /\ IsDict(r) /\ Names(r) = Names(d) \ {s}
           /\ \A f : \A x \in Slot \ {s} : Assigned(f, r)[x] = Assigned(f, d)[x]
<1> DEFINE p == Place(d, s)
           r == RemoveAt(d, p)
<1>1. /\ p \in DOMAIN d /\ d[p].name = s /\ Len(d) \in Nat /\ DOMAIN d = 1 .. Len(d)
  BY GetType
<1> HIDE DEF p
<1>2. /\ r \in Seq(Entries) /\ Len(r) = Len(d) - 1
      /\ \A k \in 1 .. Len(d) - 1 : r[k] = IF k < p THEN d[k] ELSE d[k + 1]
  <2> DEFINE x == SubSeq(d, 1, p - 1)
             q == p + 1
             y == SubSeq(d, q, Len(d))
  <2>1. /\ x \in Seq(Entries) /\ Len(x) = p - 1 /\ \A k \in 1 .. p - 1 : x[k] = d[k]
    BY <1>1
  <2>2. q \in 2 .. Len(d) + 1
    BY <1>1
  <2> HIDE DEF x
  <2>3. /\ y \in Seq(Entries) /\ Len(y) = Len(d) - p
        /\ \A k \in 1 .. Len(d) - p : y[k] = d[k + p]
    <3>1. q - 1 = p /\ q = p + 1
      BY <1>1
    <3> HIDE DEF q
    <3>2. PICK n \in Nat : n = Len(d)
      BY <1>1
    <3>3. /\ SubSeq(d, q, n) \in Seq(Entries) /\ Len(SubSeq(d, q, n)) = (1 + n) - q
          /\ \A k \in 1 .. (1 + n) - q : SubSeq(d, q, n)[k] = d[(k + q) - 1]
      BY <2>2, <3>2
    <3>4. (1 + n) - q = Len(d) - p /\ \A k \in Int : (k + q) - 1 = k + p
      BY <1>1, <3>1, <3>2
    <3>5. y = SubSeq(d, q, n)
      BY <3>2
    <3> HIDE DEF y
    <3>6. /\ y \in Seq(Entries) /\ Len(y) = Len(d) - p
      BY <3>3, <3>4, <3>5
    <3>7. ASSUME NEW k \in 1 .. Len(d) - p PROVE y[k] = d[k + p]
      <4>1. k \in 1 .. (1 + n) - q /\ (k + q) - 1 = k + p
        BY <3>4
      <4>2. SubSeq(d, q, n)[k] = d[(k + q) - 1]
        BY <3>3, <4>1
      <4> QED
        BY <3>5, <4>1, <4>2
    <3> QED
      BY <3>6, <3>7
  <2>4. r = x \o y
    BY DEF RemoveAt, x
  <2> HIDE DEF y
  <2>5. r \in Seq(Entries) /\ Len(r) = Len(d) - 1
    <3>1. x \o y \in Seq(Entries) /\ Len(x \o y) = Len(x) + Len(y)
      <4>1. x \in Seq(Entries) /\ y \in Seq(Entries)
        BY <2>1, <2>3
      <4> QED
        BY <4>1
    <3>2. (p - 1) + (Len(d) - p) = Len(d) - 1
      BY <1>1
    <3> QED
      BY <2>1, <2>3, <2>4, <3>1, <3>2
  <2>6. ASSUME NEW k \in 1 .. Len(d) - 1 PROVE r[k] = IF k < p THEN d[k] ELSE d[k + 1]
    <3>1. CASE k < p
      BY <1>1, <2>1, <2>3, <2>4, <3>1
    <3>2. CASE ~(k < p)
      <4>1. k - Len(x) \in 1 .. Len(d) - p /\ (k - Len(x)) + p = k + 1
        BY <1>1, <2>1, <3>2
      <4>2. r[k] = y[k - Len(x)]
        <5>1. /\ x \in Seq(Entries) /\ y \in Seq(Entries) /\ k \in Nat
              /\ k > Len(x) /\ k <= Len(x) + Len(y)
          BY <1>1, <2>1, <2>3, <3>2
        <5>2. (x \o y)[k] = y[k - Len(x)]
          BY <5>1
        <5> QED
          BY <2>4, <5>2
      <4>3. y[k - Len(x)] = d[(k - Len(x)) + p]
        BY <2>3, <4>1
      <4> QED
        BY <3>2, <4>1, <4>2, <4>3
    <3> QED
      BY <3>1, <3>2
  <2> QED
    BY <2>5, <2>6
<1> HIDE DEF r
<1>3. \A i, j \in DOMAIN d : d[i].name = d[j].name => i = j
  BY DictIs
<1> DEFINE from(k) == IF k < p THEN k ELSE k + 1
<1>4. /\ DOMAIN r = 1 .. Len(d) - 1
      /\ \A k \in DOMAIN r : from(k) \in DOMAIN d /\ from(k) # p /\ r[k] = d[from(k)]
      /\ \A k, l \in DOMAIN r : from(k) = from(l) => k = l
      /\ \A i \in DOMAIN d : i # p => \E k \in DOMAIN r : from(k) = i
  <2>1. DOMAIN r = 1 .. Len(d) - 1
    BY <1>1, <1>2
  <2>2. ASSUME NEW i \in DOMAIN d, i # p PROVE \E k \in DOMAIN r : from(k) = i
    <3>1. CASE i < p
      BY <1>1, <2>1, <3>1
    <3>2. CASE i > p
      <4>1. i - 1 \in DOMAIN r /\ ~(i - 1 < p) /\ (i - 1) + 1 = i
        BY <1>1, <2>1, <3>2
      <4> QED
        BY <4>1
    <3> QED
      BY <1>1, <2>2, <3>1, <3>2
  <2> QED
    BY <1>1, <1>2, <2>1, <2>2
<1> HIDE DEF from
<1>5. IsDict(r)
  <2>1. ASSUME NEW k \in DOMAIN r, NEW l \in DOMAIN r, r[k].name = r[l].name
        PROVE  k = l
    BY <1>3, <1>4, <2>1
  <2> QED
    BY <1>2, <2>1, DictIs
<1>6. Names(r) = Names(d) \ {s}
  BY <1>1, <1>3, <1>4 DEF Names
<1>7. ASSUME NEW f, NEW x \in Slot \ {s} PROVE Assigned(f, r)[x] = Assigned(f, d)[x]
  <2>1. CASE x \in Names(d)
    <3>1. PICK i \in DOMAIN d : d[i].name = x
      BY <2>1 DEF Names
    <3>2. PICK k \in DOMAIN r : from(k) = i
      BY <1>1, <1>4, <3>1
    <3>3. r[k] = d[i]
      BY <1>4, <3>2
    <3>4. Get(d, d[i].name) = d[i].value /\ Get(r, r[k].name) = r[k].value
      BY <1>2, <1>5, GetIs
    <3> QED
      BY <1>6, <2>1, <3>1, <3>3, <3>4 DEF Assigned
  <2>2. CASE x \notin Names(d)
    BY <1>6, <2>2 DEF Assigned
  <2> QED
    BY <2>1, <2>2
<1> QED
  BY <1>2, <1>5, <1>6, <1>7 DEF r, p

-----------------------------------------------------------------------------
(* Updating a dict, by induction over what it is updated with.             *)

\* `f` puts the entries of `new` into `d` up to the n-th.
Puts(f, d, new, n) ==
  /\ f[0] = d
  /\ \A k \in 1 .. n : f[k] = Put(f[k - 1], new[k])

\* There is such a function for every length.
LEMMA PutsExist ==
  ASSUME NEW d \in Seq(Entries), NEW new \in Seq(Entries)
  PROVE  \A n \in Nat :
           n <= Len(new) => \E f \in [0 .. n -> Seq(Entries)] : Puts(f, d, new, n)
<1> DEFINE N == {n \in Nat :
                   n <= Len(new) => \E f \in [0 .. n -> Seq(Entries)] : Puts(f, d, new, n)}
<1>1. 0 \in N
  <2>1. [k \in 0 .. 0 |-> d] \in [0 .. 0 -> Seq(Entries)]
    OBVIOUS
  <2>2. Puts([k \in 0 .. 0 |-> d], d, new, 0)
    BY DEF Puts
  <2> QED
    BY <2>1, <2>2
<1>2. ASSUME NEW n \in N PROVE n + 1 \in N
  <2>0. n \in Nat
    OBVIOUS
  <2> SUFFICES ASSUME n + 1 <= Len(new)
               PROVE  \E f \in [0 .. n + 1 -> Seq(Entries)] : Puts(f, d, new, n + 1)
    BY <2>0
  <2>1. n <= Len(new) /\ Len(new) \in Nat /\ new[n + 1] \in Entries
    BY <2>0
  <2>2. PICK f \in [0 .. n -> Seq(Entries)] : Puts(f, d, new, n)
    BY <2>1
  <2> DEFINE last == Put(f[n], new[n + 1])
             g == [k \in 0 .. n + 1 |-> IF k = n + 1 THEN last ELSE f[k]]
  <2>3. last \in Seq(Entries)
    <3>1. f[n] \in Seq(Entries)
      BY <2>0
    <3> QED
      BY <2>1, <3>1, PutIs
  <2> HIDE DEF last
  <2>4. \A k \in 0 .. n + 1 : k # n + 1 => k \in 0 .. n
    BY <2>0
  <2>5. g \in [0 .. n + 1 -> Seq(Entries)]
    BY <2>3, <2>4
  <2>6. g[0] = d /\ g[n + 1] = last /\ g[n] = f[n]
    BY <2>0, <2>2 DEF Puts
  <2>7. \A k \in 1 .. n : g[k] = f[k] /\ g[k - 1] = f[k - 1]
    <3> SUFFICES ASSUME NEW k \in 1 .. n
                 PROVE  g[k] = f[k] /\ g[k - 1] = f[k - 1]
      OBVIOUS
    <3>1. /\ k \in 0 .. n + 1 /\ k # n + 1
          /\ k - 1 \in 0 .. n + 1 /\ k - 1 # n + 1
      BY <2>0
    <3> QED
      BY <3>1
  <2>8. Puts(g, d, new, n + 1)
    <3> HIDE DEF g
    <3>1. \A k \in 1 .. n + 1 : k \in 1 .. n \/ k = n + 1
      BY <2>0
    <3>2. (n + 1) - 1 = n
      BY <2>0
    <3> QED
      BY <2>2, <2>6, <2>7, <3>1, <3>2 DEF last, Puts
  <2> QED
    BY <2>5, <2>8
<1>3. N \subseteq Nat
  OBVIOUS
<1> HIDE DEF N
<1>4. N = Nat
  BY <1>1, <1>2, <1>3, SetInduction
<1> QED
  BY <1>4 DEF N

\* So Updated does put them.
LEMMA UpdatedRuns ==
  ASSUME NEW d \in Seq(Entries), NEW new \in Seq(Entries)
  PROVE  \E f \in [0 .. Len(new) -> Seq(Entries)] :
           Puts(f, d, new, Len(new)) /\ Updated(d, new) = f[Len(new)]
<1> DEFINE u[k \in 0 .. Len(new)] == IF k = 0 THEN d ELSE Put(u[k - 1], new[k])
<1>1. Len(new) \in Nat
  OBVIOUS
<1>2. PICK f \in [0 .. Len(new) -> Seq(Entries)] : Puts(f, d, new, Len(new))
  <2> HIDE DEF u
  <2>1. \A n \in Nat :
          n <= Len(new) => \E f \in [0 .. n -> Seq(Entries)] : Puts(f, d, new, n)
    BY PutsExist
  <2>2. Len(new) <= Len(new)
    BY <1>1
  <2> QED
    BY <1>1, <2>1, <2>2, Zenon
<1>3. \E g : g = [k \in 0 .. Len(new) |-> IF k = 0 THEN d ELSE Put(g[k - 1], new[k])]
  <2> HIDE DEF u
  <2>1. \A k \in 0 .. Len(new) : k = 0 \/ k \in 1 .. Len(new)
    BY <1>1
  <2>2. f = [k \in 0 .. Len(new) |-> IF k = 0 THEN d ELSE Put(f[k - 1], new[k])]
    BY <1>2, <2>1 DEF Puts
  <2> QED
    BY <2>2
<1>4. u = [k \in 0 .. Len(new) |-> IF k = 0 THEN d ELSE Put(u[k - 1], new[k])]
  BY <1>3 DEF u
<1>5. Updated(d, new) = u[Len(new)]
  BY DEF Updated, u
<1> HIDE DEF u
<1> DEFINE N == {n \in Nat : n <= Len(new) => u[n] = f[n]}
<1>6. 0 \in N
  BY <1>1, <1>2, <1>4 DEF Puts
<1>7. ASSUME NEW n \in N PROVE n + 1 \in N
  <2> SUFFICES ASSUME n + 1 <= Len(new) PROVE u[n + 1] = f[n + 1]
    OBVIOUS
  <2>1. /\ n \in Nat /\ n + 1 \in 1 .. Len(new) /\ n + 1 \in 0 .. Len(new)
        /\ (n + 1) - 1 = n /\ u[n] = f[n] /\ n + 1 # 0
    BY <1>1
  <2>2. u[n + 1] = Put(u[n], new[n + 1])
    BY <1>4, <2>1
  <2> QED
    BY <1>2, <2>1, <2>2 DEF Puts
<1>8. N \subseteq Nat
  OBVIOUS
<1> HIDE DEF N
<1>9. N = Nat
  BY <1>6, <1>7, <1>8, SetInduction
<1>10. u[Len(new)] = f[Len(new)]
  BY <1>1, <1>9 DEF N
<1> QED
  BY <1>2, <1>5, <1>10

\* A dict is updated entry by entry.
LEMMA UpdatedAppend ==
  ASSUME NEW d \in Seq(Entries), NEW new \in Seq(Entries), NEW e \in Entries
  PROVE  /\ Updated(d, Append(new, e)) = Put(Updated(d, new), e)
         /\ Updated(d, new) \in Seq(Entries)
<1> DEFINE t == Append(new, e)
<1>1. /\ t \in Seq(Entries) /\ Len(t) = Len(new) + 1 /\ Len(new) \in Nat
      /\ t[Len(t)] = e /\ \A k \in 1 .. Len(new) : t[k] = new[k]
  OBVIOUS
<1>2. PICK f \in [0 .. Len(new) -> Seq(Entries)] :
        Puts(f, d, new, Len(new)) /\ Updated(d, new) = f[Len(new)]
  BY UpdatedRuns
<1> HIDE DEF t
<1>3. PICK g : Puts(g, d, t, Len(t)) /\ Updated(d, t) = g[Len(t)]
  BY <1>1, UpdatedRuns
<1> DEFINE N == {n \in Nat : n <= Len(new) => f[n] = g[n]}
<1>4. 0 \in N
  BY <1>2, <1>3 DEF Puts
<1>5. ASSUME NEW n \in N PROVE n + 1 \in N
  <2> SUFFICES ASSUME n + 1 <= Len(new) PROVE f[n + 1] = g[n + 1]
    OBVIOUS
  <2>1. /\ n \in Nat /\ n + 1 \in 1 .. Len(new) /\ n + 1 \in 1 .. Len(t)
        /\ (n + 1) - 1 = n /\ f[n] = g[n] /\ t[n + 1] = new[n + 1]
    <3>1. /\ n \in Nat /\ n <= Len(new) /\ f[n] = g[n]
          /\ Len(new) \in Nat /\ Len(t) = Len(new) + 1
      BY <1>1
    <3> HIDE DEF N
    <3>2. n + 1 \in 1 .. Len(new) /\ n + 1 \in 1 .. Len(t) /\ (n + 1) - 1 = n
      BY <3>1
    <3>3. t[n + 1] = new[n + 1]
      BY <1>1, <3>2
    <3> QED
      BY <3>1, <3>2, <3>3
  <2> QED
    BY <1>2, <1>3, <2>1 DEF Puts
<1>6. N \subseteq Nat
  OBVIOUS
<1>7. f[Len(new)] = g[Len(new)]
  <2> HIDE DEF N
  <2>1. N = Nat
    BY <1>4, <1>5, <1>6, SetInduction
  <2> QED
    BY <1>1, <2>1 DEF N
<1>8. Updated(d, t) = g[Len(new) + 1] /\ Len(new) + 1 \in 1 .. Len(t)
      /\ (Len(new) + 1) - 1 = Len(new) /\ t[Len(new) + 1] = e
  BY <1>1, <1>3
<1> HIDE DEF N
<1>9. g[Len(new) + 1] = Put(g[Len(new)], e)
  BY <1>3, <1>8 DEF Puts
<1> QED
  BY <1>1, <1>2, <1>7, <1>8, <1>9 DEF t

\* With nothing it stays as it is.
LEMMA UpdatedEmpty ==
  ASSUME NEW d \in Seq(Entries)
  PROVE  Updated(d, <<>>) = d
<1>1. <<>> \in Seq(Entries) /\ Len(<<>>) = 0
  OBVIOUS
<1>2. \E f : Puts(f, d, <<>>, Len(<<>>)) /\ Updated(d, <<>>) = f[Len(<<>>)]
  BY <1>1, UpdatedRuns
<1> QED
  BY <1>1, <1>2 DEF Puts

\* An updated dict is one, and has the names of both.
LEMMA UpdatedIs ==
  ASSUME NEW d \in Seq(Entries), NEW new \in Seq(Entries)
  PROVE  /\ Updated(d, new) \in Seq(Entries)
         /\ Names(Updated(d, new)) = Names(d) \cup Names(new)
         /\ IsDict(d) => IsDict(Updated(d, new))
<1> DEFINE Good(s) == /\ Updated(d, s) \in Seq(Entries)
                      /\ Names(Updated(d, s)) = Names(d) \cup Names(s)
                      /\ IsDict(d) => IsDict(Updated(d, s))
           P == {s \in Seq(Entries) : Good(s)}
<1>1. <<>> \in P
  <2>1. Updated(d, <<>>) = d /\ Names(<<>>) = {} /\ <<>> \in Seq(Entries)
    BY UpdatedEmpty DEF Names
  <2> QED
    BY <2>1
<1>2. ASSUME NEW s \in P, NEW e \in Entries PROVE Append(s, e) \in P
  <2> DEFINE u == Updated(d, s)
  <2>1. Updated(d, Append(s, e)) = Put(u, e) /\ Append(s, e) \in Seq(Entries)
    BY UpdatedAppend
  <2>2. /\ u \in Seq(Entries) /\ Names(u) = Names(d) \cup Names(s)
        /\ IsDict(d) => IsDict(u)
    OBVIOUS
  <2>3. Names(Append(s, e)) = Names(s) \cup {e.name}
    <3> DEFINE t == Append(s, e)
    <3>1. /\ DOMAIN t = 1 .. Len(s) + 1 /\ DOMAIN s = 1 .. Len(s) /\ Len(s) \in Nat
          /\ t[Len(s) + 1] = e /\ \A i \in DOMAIN s : t[i] = s[i]
      OBVIOUS
    <3> HIDE DEF t
    <3>2. Names(t) = Names(s) \cup {e.name}
      <4>1. \A i \in DOMAIN t : i \in DOMAIN s \/ i = Len(s) + 1
        BY <3>1
      <4>2. Len(s) + 1 \in DOMAIN t /\ \A i \in DOMAIN s : i \in DOMAIN t
        BY <3>1
      <4> QED
        BY <3>1, <4>1, <4>2 DEF Names
    <3> QED
      BY <3>2 DEF t
  <2> HIDE DEF u
  <2>4. /\ Put(u, e) \in Seq(Entries) /\ Names(Put(u, e)) = Names(u) \cup {e.name}
        /\ IsDict(u) => IsDict(Put(u, e))
    <3>1. u \in Seq(Entries)
      BY <2>2
    <3> QED
      BY <3>1, PutIs
  <2> QED
    BY <2>1, <2>2, <2>3, <2>4
<1>3. P \in SUBSET Seq(Entries)
  OBVIOUS
<1> HIDE DEF P
<1>4. P = Seq(Entries)
  BY <1>1, <1>2, <1>3, SeqInduction
<1> QED
  BY <1>4 DEF P

\* Assigning an updated dict is assigning one after the other.
LEMMA UpdatedAssigned ==
  ASSUME NEW f \in [Slot -> Optional], NEW d \in Seq(Entries), IsDict(d),
         NEW new \in Seq(Entries), IsDict(new)
  PROVE  Assigned(f, Updated(d, new)) = Assigned(Assigned(f, d), new)
<1> DEFINE Good(s) ==
             IsDict(s) => Assigned(f, Updated(d, s)) = Assigned(Assigned(f, d), s)
           P == {s \in Seq(Entries) : Good(s)}
<1>1. <<>> \in P
  <2>1. Updated(d, <<>>) = d /\ Names(<<>>) = {} /\ <<>> \in Seq(Entries)
    BY UpdatedEmpty DEF Names
  <2>2. Assigned(Assigned(f, d), <<>>) = Assigned(f, d)
    BY <2>1 DEF Assigned
  <2> QED
    BY <2>1, <2>2
<1>2. ASSUME NEW s \in P, NEW e \in Entries PROVE Append(s, e) \in P
  <2> SUFFICES ASSUME IsDict(Append(s, e))
               PROVE  Assigned(f, Updated(d, Append(s, e))) =
                        Assigned(Assigned(f, d), Append(s, e))
    <3>1. Append(s, e) \in Seq(Entries)
      OBVIOUS
    <3> QED
      BY <3>1
  <2> DEFINE u == Updated(d, s)
  <2>1. /\ Updated(d, Append(s, e)) = Put(u, e) /\ u \in Seq(Entries) /\ IsDict(u)
    BY UpdatedAppend, UpdatedIs
  <2>2. IsDict(s) /\ Put(s, e) = Append(s, e) /\ s \in Seq(Entries)
    BY AppendIsPut
  <2>3. Assigned(f, u) = Assigned(Assigned(f, d), s)
    BY <2>2
  <2> HIDE DEF u, P
  <2>4. Assigned(f, Put(u, e)) = [Assigned(f, u) EXCEPT ![e.name] = e.value]
    BY <2>1, PutIs
  <2> DEFINE g == Assigned(f, d)
  <2>5. g \in [Slot -> Optional]
    BY AssignedType
  <2> HIDE DEF g
  <2>6. Assigned(g, Put(s, e)) = [Assigned(g, s) EXCEPT ![e.name] = e.value]
    BY <2>2, <2>5, PutIs
  <2> QED
    BY <2>1, <2>2, <2>3, <2>4, <2>6 DEF g
<1>3. P \in SUBSET Seq(Entries)
  OBVIOUS
<1> HIDE DEF P
<1>4. P = Seq(Entries)
  BY <1>1, <1>2, <1>3, SeqInduction
<1> QED
  BY <1>4 DEF P

\* Updating with two lists in a row is updating with the one after the other.
LEMMA UpdatedConcat ==
  ASSUME NEW d \in Seq(Entries), NEW a \in Seq(Entries), NEW b \in Seq(Entries)
  PROVE  Updated(d, a \o b) = Updated(Updated(d, a), b)
<1> DEFINE Good(s) == Updated(d, a \o s) = Updated(Updated(d, a), s)
           P == {s \in Seq(Entries) : Good(s)}
<1>0. Updated(d, a) \in Seq(Entries)
  BY UpdatedIs
<1>1. <<>> \in P
  <2>1. a \o <<>> = a /\ <<>> \in Seq(Entries)
    OBVIOUS
  <2> QED
    BY <1>0, <2>1, UpdatedEmpty
<1>2. ASSUME NEW s \in P, NEW e \in Entries PROVE Append(s, e) \in P
  <2>1. /\ s \in Seq(Entries) /\ a \o s \in Seq(Entries) /\ Append(s, e) \in Seq(Entries)
        /\ Updated(d, a \o s) = Updated(Updated(d, a), s)
    OBVIOUS
  <2>2. a \o Append(s, e) = Append(a \o s, e)
    BY <2>1
  <2> HIDE DEF P
  <2>3. Updated(d, Append(a \o s, e)) = Put(Updated(d, a \o s), e)
    BY <2>1, UpdatedAppend
  <2>4. Updated(Updated(d, a), Append(s, e)) = Put(Updated(Updated(d, a), s), e)
    BY <1>0, <2>1, UpdatedAppend
  <2> QED
    BY <2>1, <2>2, <2>3, <2>4 DEF P
<1>3. P \in SUBSET Seq(Entries)
  OBVIOUS
<1> HIDE DEF P
<1>4. P = Seq(Entries)
  BY <1>1, <1>2, <1>3, SeqInduction
<1> QED
  BY <1>4 DEF P

-----------------------------------------------------------------------------
(* What user code may answer.                                              *)

\* The domain's global slots are slots.
LEMMA GlobalSlotsType == global_slots \in Seq(Slot)
<1> DEFINE D == DomainOrder
           u[n \in 0 .. Len(D)] ==
             IF n = 0 THEN <<>>
             ELSE IF D[n] \in FormMapped THEN u[n - 1] ELSE Append(u[n - 1], D[n])
           Runs(f, n) ==
             /\ f[0] = <<>>
             /\ \A k \in 1 .. n :
                  f[k] = IF D[k] \in FormMapped THEN f[k - 1] ELSE Append(f[k - 1], D[k])
           N == {n \in Nat : n <= Len(D) => \E f \in [0 .. n -> Seq(Slot)] : Runs(f, n)}
<1>1. global_slots = u[Len(D)]
  BY DEF global_slots
<1>2. D \in Seq(Slot)
  BY OrderAssumption
<1> HIDE DEF u, D
<1>3. Len(D) \in Nat
  BY <1>2
<1>4. 0 \in N
  <2>1. [k \in 0 .. 0 |-> <<>>] \in [0 .. 0 -> Seq(Slot)]
    OBVIOUS
  <2>2. Runs([k \in 0 .. 0 |-> <<>>], 0)
    OBVIOUS
  <2> HIDE DEF Runs
  <2> QED
    BY <2>1, <2>2
<1>5. ASSUME NEW n \in N PROVE n + 1 \in N
  <2>0. n \in Nat
    OBVIOUS
  <2> SUFFICES ASSUME n + 1 <= Len(D)
               PROVE  \E f \in [0 .. n + 1 -> Seq(Slot)] : Runs(f, n + 1)
    <3> HIDE DEF Runs
    <3> QED
      BY <2>0
  <2>1. n <= Len(D) /\ D[n + 1] \in Slot
    BY <1>2, <1>3, <2>0
  <2>2. PICK f \in [0 .. n -> Seq(Slot)] : Runs(f, n)
    BY <2>1
  <2> DEFINE last == IF D[n + 1] \in FormMapped THEN f[n] ELSE Append(f[n], D[n + 1])
             g == [k \in 0 .. n + 1 |-> IF k = n + 1 THEN last ELSE f[k]]
  <2>3. last \in Seq(Slot)
    <3>1. f[n] \in Seq(Slot)
      BY <2>0
    <3> QED
      BY <2>1, <3>1
  <2> HIDE DEF last
  <2>4. \A k \in 0 .. n + 1 : k # n + 1 => k \in 0 .. n
    BY <2>0
  <2>5. g \in [0 .. n + 1 -> Seq(Slot)]
    BY <2>3, <2>4
  <2>6. g[0] = <<>> /\ g[n + 1] = last /\ g[n] = f[n]
    BY <2>0, <2>2
  <2>7. \A k \in 1 .. n : g[k] = f[k] /\ g[k - 1] = f[k - 1]
    <3> SUFFICES ASSUME NEW k \in 1 .. n
                 PROVE  g[k] = f[k] /\ g[k - 1] = f[k - 1]
      OBVIOUS
    <3>1. /\ k \in 0 .. n + 1 /\ k # n + 1
          /\ k - 1 \in 0 .. n + 1 /\ k - 1 # n + 1
      BY <2>0
    <3> QED
      BY <3>1
  <2>8. Runs(g, n + 1)
    <3> HIDE DEF g
    <3>1. \A k \in 1 .. n + 1 : k \in 1 .. n \/ k = n + 1
      BY <2>0
    <3>2. (n + 1) - 1 = n
      BY <2>0
    <3> QED
      BY <2>2, <2>6, <2>7, <3>1, <3>2 DEF last
  <2> QED
    BY <2>5, <2>8
<1>6. N \subseteq Nat
  OBVIOUS
<1>7. PICK f \in [0 .. Len(D) -> Seq(Slot)] : Runs(f, Len(D))
  <2> HIDE DEF N
  <2>1. N = Nat
    BY <1>4, <1>5, <1>6, SetInduction
  <2>2. Len(D) <= Len(D)
    BY <1>3
  <2> HIDE DEF Runs
  <2> QED
    BY <1>3, <2>1, <2>2 DEF N
<1>8. \E g : g = [n \in 0 .. Len(D) |->
                    IF n = 0 THEN <<>>
                    ELSE IF D[n] \in FormMapped THEN g[n - 1] ELSE Append(g[n - 1], D[n])]
  <2>1. \A n \in 0 .. Len(D) : n = 0 \/ n \in 1 .. Len(D)
    BY <1>3
  <2>2. f = [n \in 0 .. Len(D) |->
               IF n = 0 THEN <<>>
               ELSE IF D[n] \in FormMapped THEN f[n - 1] ELSE Append(f[n - 1], D[n])]
    BY <1>7, <2>1
  <2> QED
    BY <2>2
<1>9. u = [n \in 0 .. Len(D) |->
             IF n = 0 THEN <<>>
             ELSE IF D[n] \in FormMapped THEN u[n - 1] ELSE Append(u[n - 1], D[n])]
  BY <1>8 DEF u
<1> DEFINE M == {n \in Nat : n <= Len(D) => u[n] = f[n]}
<1>10. 0 \in M
  BY <1>3, <1>7, <1>9
<1>11. ASSUME NEW n \in M PROVE n + 1 \in M
  <2> SUFFICES ASSUME n + 1 <= Len(D) PROVE u[n + 1] = f[n + 1]
    OBVIOUS
  <2>1. /\ n \in Nat /\ n + 1 \in 1 .. Len(D) /\ n + 1 \in 0 .. Len(D)
        /\ (n + 1) - 1 = n /\ u[n] = f[n] /\ n + 1 # 0
    BY <1>3
  <2>2. u[n + 1] = IF D[n + 1] \in FormMapped THEN u[n] ELSE Append(u[n], D[n + 1])
    BY <1>9, <2>1
  <2> QED
    BY <1>7, <2>1, <2>2
<1>12. M \subseteq Nat
  OBVIOUS
<1> HIDE DEF M
<1>13. M = Nat
  BY <1>10, <1>11, <1>12, SetInduction
<1>14. u[Len(D)] = f[Len(D)] /\ Len(D) \in 0 .. Len(D)
  BY <1>3, <1>13 DEF M
<1> QED
  BY <1>1, <1>14

\* A method's answer is a dict.
LEMMA DictsType == \A d \in Dicts : d \in Seq(Entries) /\ IsDict(d)
<1> SUFFICES ASSUME NEW d \in Dicts PROVE d \in Seq(Entries) /\ IsDict(d)
  OBVIOUS
<1>1. d \in BoundedSeq(Entries, 2) /\ IsDict(d)
  BY DEF Dicts
<1>2. PICK m \in 0 .. 2 : d \in [1 .. m -> Entries]
  BY <1>1 DEF BoundedSeq, SeqOf
<1>3. d \in Seq(Entries)
  BY <1>2
<1> QED
  BY <1>1, <1>3

\* required_slots answers a list of slots.
LEMMA RequiredType == \A req \in RequiredSlots : req \in Seq(Slot)
<1>1. \A f \in BOOLEAN : domain_slots(f) \in Seq(Slot)
  BY GlobalSlotsType, OrderAssumption DEF domain_slots
<1>2. ASSUME NEW req \in SetToAllKPermutations(Slot) PROVE req \in Seq(Slot)
  <2>1. PICK S \in SUBSET Slot : req \in SetToSeqs(S)
    BY <1>2 DEF SetToAllKPermutations
  <2>2. Cardinality(S) \in Nat
    BY SlotAssumption, FS_Subset, FS_CardinalityType
  <2> DEFINE n == Cardinality(S)
  <2>3. req \in [1 .. n -> S]
    BY <2>1 DEF SetToSeqs
  <2> HIDE DEF n
  <2>4. n \in Nat
    BY <2>2 DEF n
  <2>5. req \in [1 .. n -> Slot]
    BY <2>3
  <2> QED
    BY <2>4, <2>5
<1> QED
  BY <1>1, <1>2 DEF RequiredSlots

\* A set of positions that is not empty has a first one.
LEMMA FirstPosition ==
  ASSUME NEW S \in SUBSET Nat, S # {}
  PROVE  Min(S) \in S
<1> DEFINE N == {k \in Nat : \A x \in S : k <= x}
           IsMin(m) == m \in S /\ \A x \in S : m <= x
<1>1. \E m : IsMin(m)
  <2> SUFFICES ASSUME \A m : ~IsMin(m) PROVE FALSE
    OBVIOUS
  <2>1. 0 \in N
    OBVIOUS
  <2>2. ASSUME NEW k \in N PROVE k + 1 \in N
    <3>1. k \notin S
      BY <2>2
    <3>2. \A x \in S : k <= x /\ x # k /\ x \in Nat
      BY <2>2, <3>1
    <3>3. k \in Nat /\ \A x \in S : k + 1 <= x
      BY <3>2
    <3> QED
      BY <3>3
  <2>3. N \subseteq Nat
    OBVIOUS
  <2>4. PICK x \in S : TRUE
    OBVIOUS
  <2>5. x + 1 \in N
    <3> HIDE DEF N, IsMin
    <3>1. N = Nat
      BY <2>1, <2>2, <2>3, SetInduction
    <3> QED
      BY <3>1
  <2>6. x \in Nat /\ x + 1 <= x
    BY <2>5
  <2> QED
    BY <2>6
<1>2. Min(S) = CHOOSE m : IsMin(m)
  BY DEF Min
<1> HIDE DEF IsMin
<1>3. IsMin(CHOOSE m : IsMin(m))
  BY <1>1
<1>4. IsMin(Min(S))
  BY <1>2, <1>3
<1> QED
  BY <1>4 DEF IsMin

\* The slot that is requested next is one, or None if none is missing.
LEMMA NextSlot ==
  ASSUME NEW req \in Seq(Slot), NEW next, next = next_requested_slot(req)
  PROVE  /\ next \in Slot \cup {None, "unset"}
         /\ next = None => \A s \in ToSet(req) : slots'[s] # None
<1> DEFINE missing == {i \in DOMAIN req : Missing(req[i])}
<1>1. None \notin Slot /\ None # "unset"
  BY NoneAssumption
<1>2. CASE ~form \/ req = domain_slots(TRUE)
  BY <1>1, <1>2 DEF next_requested_slot
<1>3. CASE ~(~form \/ req = domain_slots(TRUE)) /\ missing = {}
  <2>1. next = None
    BY <1>3 DEF next_requested_slot
  <2>2. \A i \in DOMAIN req : slots'[req[i]] # None
    BY <1>3 DEF Missing
  <2> QED
    BY <2>1, <2>2 DEF ToSet
<1>4. CASE ~(~form \/ req = domain_slots(TRUE)) /\ missing # {}
  <2>1. next = req[Min(missing)]
    BY <1>4 DEF next_requested_slot
  <2>2. missing \in SUBSET Nat /\ missing \subseteq DOMAIN req
    OBVIOUS
  <2> HIDE DEF missing
  <2>3. Min(missing) \in DOMAIN req
    BY <1>4, <2>2, FirstPosition
  <2>4. next \in Slot
    BY <2>1, <2>3
  <2> QED
    BY <1>1, <2>4
<1> QED
  BY <1>2, <1>3, <1>4

-----------------------------------------------------------------------------
(* A run.                                                                  *)

\* Inductive: while slots are extracted, the tracker shows the candidates and
\* what has been extracted; while candidates are validated, those to come are
\* still in the answer, and so is whatever has not been dropped.
RunInv ==
  /\ pc = "extract" =>
       /\ IsDict(events) /\ withdrawn = {}
       /\ slots = Assigned(Assigned(known, events), custom)
  /\ pc = "validate" =>
       /\ IsDict(todo) /\ Names(todo) \subseteq Names(result)
       /\ Names(events) \subseteq Names(result) \cup withdrawn

\* What the properties need of each other.
Inv ==
  /\ TypeOK
  /\ RunInv
  /\ TrackerShowsTheOutcome
  /\ CandidatesAreValidated
  /\ FormEndsFilled

\* Names of a list and of its parts.
LEMMA NamesOfParts ==
  /\ Names(<<>>) = {}
  /\ \A d \in Seq(Entries) :
       d # <<>> =>
         /\ Head(d) \in Entries /\ Tail(d) \in Seq(Entries)
         /\ Names(d) = {Head(d).name} \cup Names(Tail(d))
         /\ IsDict(d) => IsDict(Tail(d)) /\ Head(d).name \notin Names(Tail(d))
  /\ \A a, b \in Seq(Entries) :
       a \o b \in Seq(Entries) /\ Names(a \o b) = Names(a) \cup Names(b)
<1>1. Names(<<>>) = {}
  BY DEF Names
<1>2. ASSUME NEW d \in Seq(Entries), d # <<>>
      PROVE  /\ Head(d) \in Entries /\ Tail(d) \in Seq(Entries)
             /\ Names(d) = {Head(d).name} \cup Names(Tail(d))
             /\ IsDict(d) => IsDict(Tail(d)) /\ Head(d).name \notin Names(Tail(d))
  <2> DEFINE t == Tail(d)
  <2>1. /\ Len(d) \in Nat \ {0} /\ DOMAIN d = 1 .. Len(d) /\ Head(d) = d[1]
        /\ t \in Seq(Entries) /\ DOMAIN t = 1 .. Len(d) - 1
        /\ \A i \in 1 .. Len(d) - 1 : t[i] = d[i + 1]
    BY <1>2
  <2> HIDE DEF t
  <2>2. /\ \A i \in DOMAIN t : i + 1 \in DOMAIN d /\ i + 1 # 1 /\ t[i] = d[i + 1]
        /\ \A i \in DOMAIN d : i = 1 \/ (i - 1 \in DOMAIN t /\ t[i - 1] = d[i])
        /\ 1 \in DOMAIN d /\ d[1] \in Entries
        /\ \A i, j \in DOMAIN t : i + 1 = j + 1 => i = j
    <3>1. ASSUME NEW i \in DOMAIN d, i # 1 PROVE i - 1 \in DOMAIN t /\ t[i - 1] = d[i]
      <4>1. i - 1 \in 1 .. Len(d) - 1 /\ (i - 1) + 1 = i
        BY <2>1, <3>1
      <4> QED
        BY <2>1, <4>1
    <3> QED
      BY <2>1, <3>1
  <2>3. Names(d) = {Head(d).name} \cup Names(t)
    <3>1. \A i \in DOMAIN d : d[i].name \in {Head(d).name} \cup Names(t)
      BY <2>1, <2>2 DEF Names
    <3>2. \A i \in DOMAIN t : t[i].name \in Names(d)
      BY <2>2 DEF Names
    <3>3. Head(d).name \in Names(d)
      BY <2>1, <2>2 DEF Names
    <3> QED
      BY <3>1, <3>2, <3>3 DEF Names
  <2>4. ASSUME IsDict(d) PROVE IsDict(t) /\ Head(d).name \notin Names(t)
    <3>1. \A i, j \in DOMAIN d : d[i].name = d[j].name => i = j
      BY <2>4, DictIs
    <3>2. ASSUME NEW i \in DOMAIN t, NEW j \in DOMAIN t, t[i].name = t[j].name PROVE i = j
      BY <2>2, <3>1, <3>2
    <3>3. IsDict(t)
      BY <2>1, <3>2, DictIs
    <3>4. \A i \in DOMAIN t : t[i].name # d[1].name
      BY <2>2, <3>1
    <3> QED
      BY <2>1, <3>3, <3>4 DEF Names
  <2> QED
    BY <2>1, <2>2, <2>3, <2>4 DEF t
<1>3. ASSUME NEW a \in Seq(Entries), NEW b \in Seq(Entries)
      PROVE  a \o b \in Seq(Entries) /\ Names(a \o b) = Names(a) \cup Names(b)
  <2> DEFINE c == a \o b
  <2>1. /\ c \in Seq(Entries) /\ Len(c) = Len(a) + Len(b) /\ Len(a) \in Nat /\ Len(b) \in Nat
        /\ DOMAIN c = 1 .. Len(a) + Len(b) /\ DOMAIN a = 1 .. Len(a) /\ DOMAIN b = 1 .. Len(b)
    OBVIOUS
  <2>2. /\ \A i \in DOMAIN a : c[i] = a[i]
        /\ \A i \in DOMAIN b : c[i + Len(a)] = b[i]
    OBVIOUS
  <2> HIDE DEF c
  <2>3. \A i \in DOMAIN a : i \in DOMAIN c
    BY <2>1
  <2>4. \A i \in DOMAIN b : i + Len(a) \in DOMAIN c
    BY <2>1
  <2>5. \A i \in DOMAIN c : i \in DOMAIN a \/ (i - Len(a) \in DOMAIN b /\ (i - Len(a)) + Len(a) = i)
    BY <2>1
  <2>6. \A i \in DOMAIN c : c[i].name \in Names(a) \cup Names(b)
    <3> SUFFICES ASSUME NEW i \in DOMAIN c PROVE c[i].name \in Names(a) \cup Names(b)
      OBVIOUS
    <3>1. CASE i \in DOMAIN a
      BY <2>2, <3>1 DEF Names
    <3>2. CASE i - Len(a) \in DOMAIN b /\ (i - Len(a)) + Len(a) = i
      <4>1. PICK j \in DOMAIN b : j + Len(a) = i
        BY <3>2
      <4> QED
        BY <2>2, <4>1 DEF Names
    <3> QED
      BY <2>5, <3>1, <3>2
  <2>7. Names(a) \subseteq Names(c) /\ Names(b) \subseteq Names(c)
    BY <2>2, <2>3, <2>4 DEF Names
  <2>8. Names(c) = Names(a) \cup Names(b)
    BY <2>6, <2>7 DEF Names
  <2> QED
    BY <2>1, <2>8 DEF c
<1> QED
  BY <1>1, <1>2, <1>3

\* The empty dict.
LEMMA EmptyDict == <<>> \in Seq(Entries) /\ IsDict(<<>>)
<1>1. <<>> \in Seq(Entries) /\ DOMAIN <<>> = {}
  OBVIOUS
<1> QED
  BY <1>1, DictIs

\* What a dict assigns to a name, whatever was there before.
LEMMA AssignedIs ==
  ASSUME NEW f, NEW g, NEW d, NEW s \in Slot
  PROVE  /\ s \in Names(d) => Assigned(f, d)[s] = Assigned(g, d)[s]
         /\ s \notin Names(d) => Assigned(f, d)[s] = f[s]
BY DEF Assigned

\* A run begins.
LEMMA PostStep ==
  ASSUME Inv, NEW candidates \in Dicts, NEW req \in RequiredSlots, Post(candidates, req)
  PROVE  Inv'
<1>1. candidates \in Seq(Entries) /\ IsDict(candidates) /\ req \in Seq(Slot)
  BY DictsType, RequiredType
<1>2. /\ known \in [Slot -> Optional] /\ known' = known /\ requested' = "unset"
      /\ pc' = "extract" /\ form' \in BOOLEAN /\ slots' = Assigned(known, candidates)
      /\ events' = candidates /\ todo' = req /\ required' = req /\ custom' = <<>>
      /\ result' = <<>> /\ withdrawn' = {} /\ validated' = <<>>
  BY DEF Inv, TypeOK, Post
<1>3. TypeOK'
  <2>1. slots' \in [Slot -> Optional]
    BY <1>1, <1>2, AssignedType
  <2>2. <<>> \in Seq(Slot)
    OBVIOUS
  <2> QED
    BY <1>1, <1>2, <2>1, <2>2, EmptyDict DEF TypeOK
<1>4. RunInv'
  <2>1. \A f \in [Slot -> Optional] : Assigned(f, <<>>) = f
    BY NamesOfParts DEF Assigned
  <2>2. Assigned(known, candidates) \in [Slot -> Optional]
    BY <1>1, <1>2, AssignedType
  <2> QED
    BY <1>1, <1>2, <2>1, <2>2 DEF RunInv
<1> QED
  BY <1>2, <1>3, <1>4
  DEF Inv, TrackerShowsTheOutcome, CandidatesAreValidated, FormEndsFilled

\* A slot is extracted.
LEMMA ExtractStep == Inv /\ _extract_slot => Inv'
<1> SUFFICES ASSUME Inv, _extract_slot PROVE Inv'
  OBVIOUS
<1>1. /\ pc = "extract" /\ pc' = "extract" /\ todo \in Seq(Slot) /\ todo # <<>>
      /\ todo' = Tail(todo)
      /\ UNCHANGED <<known, requested, form, events, required, result, history>>
      /\ known \in [Slot -> Optional] /\ slots \in [Slot -> Optional]
      /\ events \in Seq(Entries) /\ custom \in Seq(Entries) /\ IsDict(custom)
      /\ slots = Assigned(Assigned(known, events), custom) /\ IsDict(events)
      /\ withdrawn = {}
  BY DEF _extract_slot, Inv, TypeOK, RunInv
<1>2. /\ custom' \in Seq(Entries) /\ IsDict(custom') /\ slots' \in [Slot -> Optional]
      /\ slots' = Assigned(Assigned(known, events), custom')
  <2>1. ASSUME NEW output \in Dicts, custom' = Updated(custom, output),
               slots' = Assigned(slots, output)
        PROVE  /\ custom' \in Seq(Entries) /\ IsDict(custom') /\ slots' \in [Slot -> Optional]
               /\ slots' = Assigned(Assigned(known, events), custom')
    <3>1. output \in Seq(Entries) /\ IsDict(output)
      BY DictsType
    <3> DEFINE f == Assigned(known, events)
    <3>2. f \in [Slot -> Optional]
      BY <1>1, AssignedType
    <3> HIDE DEF f
    <3>3. Assigned(f, Updated(custom, output)) = Assigned(Assigned(f, custom), output)
      BY <1>1, <3>1, <3>2, UpdatedAssigned
    <3>4. slots = Assigned(f, custom)
      BY <1>1 DEF f
    <3>5. slots' = Assigned(f, custom')
      BY <2>1, <3>3, <3>4
    <3>6. custom' \in Seq(Entries) /\ IsDict(custom')
      BY <1>1, <2>1, <3>1, UpdatedIs
    <3>7. slots' \in [Slot -> Optional]
      BY <1>1, <2>1, <3>1, AssignedType
    <3> QED
      BY <3>5, <3>6, <3>7 DEF f
  <2>2. CASE UNCHANGED <<custom, slots>>
    BY <1>1, <2>2
  <2> QED
    BY <2>1, <2>2 DEF _extract_slot
<1>3. todo' \in Seq(Slot)
  BY <1>1
<1>4. TypeOK'
  BY <1>1, <1>2, <1>3 DEF Inv, TypeOK, history
<1>5. RunInv'
  BY <1>1, <1>2 DEF RunInv, history
<1> QED
  BY <1>1, <1>4, <1>5
  DEF Inv, TrackerShowsTheOutcome, CandidatesAreValidated, FormEndsFilled

\* Validation begins: what is validated is what was sent and extracted, and what
\* the tracker shows.
LEMMA BeginStep ==
  ASSUME Inv, NEW req \in RequiredSlots, BeginValidation(req)
  PROVE  Inv'
<1> DEFINE all == events \o custom
           f == Assigned(known, events)
<1>1. /\ pc = "extract" /\ pc' = "validate" /\ slots' = Assigned(slots, custom)
      /\ events' = all /\ required' = req /\ result' = Updated(<<>>, all)
      /\ todo' = result' /\ UNCHANGED <<known, requested, form, custom, history>>
      /\ known \in [Slot -> Optional] /\ slots \in [Slot -> Optional]
      /\ events \in Seq(Entries) /\ custom \in Seq(Entries) /\ IsDict(custom)
      /\ slots = Assigned(f, custom) /\ IsDict(events) /\ withdrawn = {}
      /\ req \in Seq(Slot)
  BY RequiredType DEF BeginValidation, slots_to_validate, Inv, TypeOK, RunInv
<1>2. f \in [Slot -> Optional]
  BY <1>1, AssignedType
<1>3. all \in Seq(Entries) /\ Names(all) = Names(events) \cup Names(custom)
  BY <1>1, NamesOfParts
<1>4. /\ result' \in Seq(Entries) /\ IsDict(result') /\ Names(result') = Names(all)
  <2> HIDE DEF all
  <2>1. /\ Updated(<<>>, all) \in Seq(Entries) /\ IsDict(Updated(<<>>, all))
        /\ Names(Updated(<<>>, all)) = Names(<<>>) \cup Names(all)
    BY <1>3, EmptyDict, UpdatedIs
  <2>2. Names(<<>>) = {}
    BY NamesOfParts
  <2> QED
    BY <1>1, <2>1, <2>2
<1>5. Assigned(known, result') = Assigned(f, custom)
  <2> DEFINE r == Updated(<<>>, events)
  <2>1. r \in Seq(Entries) /\ IsDict(r)
    BY <1>1, EmptyDict, UpdatedIs
  <2>2. Assigned(known, r) = Assigned(Assigned(known, <<>>), events)
    BY <1>1, EmptyDict, UpdatedAssigned
  <2>3. Assigned(known, <<>>) = known
    BY <1>1, NamesOfParts DEF Assigned
  <2>4. Updated(<<>>, all) = Updated(r, custom)
    BY <1>1, EmptyDict, UpdatedConcat
  <2> HIDE DEF r, f
  <2>5. Assigned(known, Updated(r, custom)) = Assigned(Assigned(known, r), custom)
    BY <1>1, <2>1, UpdatedAssigned
  <2>6. Assigned(known, r) = f
    BY <2>2, <2>3 DEF f
  <2> HIDE DEF all
  <2> QED
    BY <1>1, <2>4, <2>5, <2>6
<1> HIDE DEF all, f
<1>6. \A s \in Slot : slots'[s] = Assigned(known, result')[s]
  <2> SUFFICES ASSUME NEW s \in Slot PROVE slots'[s] = Assigned(known, result')[s]
    OBVIOUS
  <2>1. CASE s \in Names(custom)
    <3>1. Assigned(slots, custom)[s] = Assigned(f, custom)[s]
      BY <2>1, AssignedIs
    <3> QED
      BY <1>1, <1>5, <3>1
  <2>2. CASE s \notin Names(custom)
    <3>1. Assigned(slots, custom)[s] = slots[s]
      BY <2>2, AssignedIs
    <3> QED
      BY <1>1, <1>5, <3>1
  <2> QED
    BY <2>1, <2>2
<1>7. slots' \in [Slot -> Optional]
  BY <1>1, AssignedType
<1>8. TypeOK'
  BY <1>1, <1>3, <1>4, <1>7 DEF Inv, TypeOK, history
<1>9. RunInv'
  BY <1>1, <1>4 DEF RunInv, history
<1>10. TrackerShowsTheOutcome'
  BY <1>1, <1>6 DEF TrackerShowsTheOutcome
<1>11. CandidatesAreValidated'
  BY <1>1, <1>4 DEF CandidatesAreValidated
<1> QED
  BY <1>1, <1>8, <1>9, <1>10, <1>11 DEF Inv, FormEndsFilled

\* A candidate is dropped.
LEMMA WithdrawStep == Inv /\ Withdraw => Inv'
<1> SUFFICES ASSUME Inv, Withdraw PROVE Inv'
  OBVIOUS
<1> DEFINE h == Head(todo).name
<1>1. /\ pc = "validate" /\ todo # <<>> /\ result' = RemoveAt(result, Place(result, h))
      /\ withdrawn' = withdrawn \cup {h} /\ todo' = Tail(todo)
      /\ UNCHANGED <<known, requested, pc, form, slots, events, custom, required, validated>>
      /\ todo \in Seq(Entries) /\ result \in Seq(Entries) /\ IsDict(result)
      /\ IsDict(todo) /\ Names(todo) \subseteq Names(result)
      /\ Names(events) \subseteq Names(result) \cup withdrawn /\ withdrawn \subseteq Slot
  BY DEF Withdraw, Inv, TypeOK, RunInv
<1>2. /\ Head(todo) \in Entries /\ todo' \in Seq(Entries) /\ IsDict(todo')
      /\ Names(todo) = {h} \cup Names(todo') /\ h \notin Names(todo')
  BY <1>1, NamesOfParts
<1>3. h \in Names(result) /\ h \in Slot
  BY <1>1, <1>2 DEF Entries
<1> HIDE DEF h
<1>4. /\ result' \in Seq(Entries) /\ IsDict(result') /\ Names(result') = Names(result) \ {h}
      /\ \A f : \A s \in Slot \ {h} : Assigned(f, result')[s] = Assigned(f, result)[s]
  BY <1>1, <1>3, PopIs
<1>5. TypeOK'
  BY <1>1, <1>2, <1>3, <1>4 DEF Inv, TypeOK
<1>6. RunInv'
  BY <1>1, <1>2, <1>4 DEF RunInv
<1>7. TrackerShowsTheOutcome'
  <2> SUFFICES ASSUME NEW s \in Slot \ withdrawn'
               PROVE  slots'[s] = Assigned(known', result')[s]
    BY DEF TrackerShowsTheOutcome
  <2>1. s \in Slot \ {h} /\ s \in Slot \ withdrawn
    BY <1>1
  <2>2. slots[s] = Assigned(known, result)[s]
    BY <1>1, <2>1 DEF Inv, TrackerShowsTheOutcome
  <2> QED
    BY <1>1, <1>4, <2>1, <2>2
<1>8. CandidatesAreValidated'
  BY <1>1, <1>2 DEF Inv, CandidatesAreValidated
<1> QED
  BY <1>1, <1>5, <1>6, <1>7, <1>8 DEF Inv, FormEndsFilled

\* A candidate is validated, or there is no method to validate it.
LEMMA ValidateStep == Inv /\ (Validate \/ Skip) => Inv'
<1> SUFFICES ASSUME Inv, Validate \/ Skip PROVE Inv'
  OBVIOUS
<1> DEFINE h == Head(todo).name
<1>1. /\ pc = "validate" /\ todo # <<>> /\ todo' = Tail(todo)
      /\ UNCHANGED <<known, requested, pc, form, events, custom, required, withdrawn>>
      /\ todo \in Seq(Entries) /\ result \in Seq(Entries) /\ IsDict(result)
      /\ IsDict(todo) /\ Names(todo) \subseteq Names(result)
      /\ Names(events) \subseteq Names(result) \cup withdrawn
      /\ known \in [Slot -> Optional] /\ slots \in [Slot -> Optional]
      /\ validated \in Seq(Slot)
  BY DEF Validate, Skip, Inv, TypeOK, RunInv, history
<1>2. /\ Head(todo) \in Entries /\ todo' \in Seq(Entries) /\ IsDict(todo')
      /\ Names(todo) = {h} \cup Names(todo') /\ h \in Slot
  <2>1. Head(todo) \in Entries
    BY <1>1, NamesOfParts
  <2> QED
    BY <1>1, <2>1, NamesOfParts DEF Entries
<1>3. /\ result' \in Seq(Entries) /\ IsDict(result') /\ Names(result) \subseteq Names(result')
      /\ slots' \in [Slot -> Optional]
      /\ \A s \in Slot \ withdrawn : slots'[s] = Assigned(known, result')[s]
  <2>1. ASSUME NEW output \in Dicts, Validated(output)
        PROVE  /\ result' \in Seq(Entries) /\ IsDict(result')
               /\ Names(result) \subseteq Names(result')
               /\ slots' \in [Slot -> Optional]
               /\ \A s \in Slot \ withdrawn : slots'[s] = Assigned(known, result')[s]
    <3>1. /\ output \in Seq(Entries) /\ IsDict(output)
          /\ result' = Updated(result, output) /\ slots' = Assigned(slots, output)
      BY <2>1, DictsType DEF Validated
    <3>2. /\ result' \in Seq(Entries) /\ IsDict(result')
          /\ Names(result) \subseteq Names(result')
      BY <1>1, <3>1, UpdatedIs
    <3>3. slots' \in [Slot -> Optional]
      BY <1>1, <3>1, AssignedType
    <3> DEFINE g == Assigned(known, result)
    <3>4. Assigned(known, result') = Assigned(g, output)
      BY <1>1, <3>1, UpdatedAssigned
    <3>5. ASSUME NEW s \in Slot \ withdrawn PROVE slots'[s] = Assigned(known, result')[s]
      <4>1. slots[s] = g[s]
        BY <1>1 DEF Inv, TrackerShowsTheOutcome
      <4> HIDE DEF g
      <4>2. Assigned(slots, output)[s] = Assigned(g, output)[s]
        BY <4>1, AssignedIs
      <4> QED
        BY <3>1, <3>4, <4>2
    <3> QED
      BY <3>2, <3>3, <3>5
  <2>2. CASE UNCHANGED <<result, slots>>
    BY <1>1, <2>2 DEF Inv, TrackerShowsTheOutcome
  <2> QED
    BY <2>1, <2>2 DEF Validate, Skip
<1>4. /\ validated' \in Seq(Slot)
      /\ Names(todo) \cap Validates[form] \subseteq ToSet(validated') \cup Names(todo')
      /\ ToSet(validated) \subseteq ToSet(validated')
  <2>1. CASE Validate
    <3>1. validated' = Append(validated, h)
      BY <2>1 DEF Validate
    <3> HIDE DEF h
    <3>2. validated' \in Seq(Slot)
      BY <1>1, <1>2, <3>1
    <3>3. ToSet(validated') = ToSet(validated) \cup {h}
      <4> DEFINE v == Append(validated, h)
      <4>1. /\ DOMAIN v = 1 .. Len(validated) + 1 /\ DOMAIN validated = 1 .. Len(validated)
            /\ Len(validated) \in Nat
            /\ v[Len(validated) + 1] = h /\ \A i \in DOMAIN validated : v[i] = validated[i]
        BY <1>1, <1>2
      <4> HIDE DEF v
      <4>2. \A i \in DOMAIN v : i \in DOMAIN validated \/ i = Len(validated) + 1
        BY <4>1
      <4>3. Len(validated) + 1 \in DOMAIN v /\ \A i \in DOMAIN validated : i \in DOMAIN v
        BY <4>1
      <4>4. ToSet(v) = ToSet(validated) \cup {h}
        BY <4>1, <4>2, <4>3 DEF ToSet
      <4> QED
        BY <3>1, <4>4 DEF v
    <3> QED
      BY <1>2, <3>2, <3>3
  <2>2. CASE Skip
    <3>1. validated' = validated /\ h \notin Validates[form]
      BY <2>2 DEF Skip, history
    <3> HIDE DEF h
    <3> QED
      BY <1>1, <1>2, <3>1
  <2> QED
    BY <2>1, <2>2
<1> HIDE DEF h
<1>5. TypeOK'
  BY <1>1, <1>2, <1>3, <1>4 DEF Inv, TypeOK
<1>6. RunInv'
  BY <1>1, <1>2, <1>3 DEF RunInv
<1>7. TrackerShowsTheOutcome'
  BY <1>1, <1>3 DEF TrackerShowsTheOutcome
<1>8. CandidatesAreValidated'
  BY <1>1, <1>4 DEF Inv, CandidatesAreValidated
<1> QED
  BY <1>1, <1>5, <1>6, <1>7, <1>8 DEF Inv, FormEndsFilled

\* The part of a list before a position.
LEMMA FrontOf ==
  ASSUME NEW d \in Seq(Entries), NEW n \in Int, n <= Len(d)
  PROVE  SubSeq(d, 1, n) \in Seq(Entries) /\ Names(SubSeq(d, 1, n)) \subseteq Names(d)
<1> DEFINE r == SubSeq(d, 1, n)
<1>1. CASE n >= 0
  <2>1. r \in Seq(Entries) /\ DOMAIN r = 1 .. n /\ \A i \in 1 .. n : r[i] = d[i] /\ i \in DOMAIN d
    BY <1>1
  <2> HIDE DEF r
  <2>2. r \in Seq(Entries) /\ Names(r) \subseteq Names(d)
    BY <2>1 DEF Names
  <2> QED
    BY <2>2 DEF r
<1>2. CASE n < 0
  <2>1. r = <<>>
    BY <1>2
  <2> HIDE DEF r
  <2> QED
    BY <2>1, EmptyDict, NamesOfParts DEF r
<1> QED
  BY <1>1, <1>2

\* The run is answered: if the form is left, each required slot is filled.
LEMMA FinishStep ==
  ASSUME Inv, NEW req \in RequiredSlots, Finish(req)
  PROVE  Inv'
<1> DEFINE sent == SubSeq(events, 1, Len(events) - Len(custom))
<1>1. /\ pc = "validate" /\ todo = <<>> /\ slots' = Assigned(slots, result)
      /\ required' = req /\ requested' = next_requested_slot(req)
      /\ pc' = "idle" /\ form' = FALSE /\ events' = <<>> /\ todo' = <<>> /\ custom' = <<>>
      /\ result' = <<>> /\ validated' = <<>> /\ withdrawn' = withdrawn
      /\ known \in [Slot -> Optional] /\ slots \in [Slot -> Optional]
      /\ events \in Seq(Entries) /\ custom \in Seq(Entries) /\ result \in Seq(Entries)
      /\ Names(events) \subseteq Names(result) \cup withdrawn
      /\ withdrawn \subseteq Slot /\ req \in Seq(Slot)
  BY RequiredType DEF Finish, Ended, Inv, TypeOK, RunInv
<1>2. PICK kept \in {known, Assigned(known, sent)} : known' = Assigned(kept, result)
  BY DEF Finish
<1>3. sent \in Seq(Entries) /\ Names(sent) \subseteq Names(events)
  <2> DEFINE n == Len(events) - Len(custom)
  <2>1. n \in Int /\ n <= Len(events)
    BY <1>1
  <2> HIDE DEF n
  <2>2. SubSeq(events, 1, n) \in Seq(Entries) /\ Names(SubSeq(events, 1, n)) \subseteq Names(events)
    BY <1>1, <2>1, FrontOf
  <2> QED
    BY <2>2 DEF n
<1> HIDE DEF sent
<1>4. kept \in [Slot -> Optional] /\ known' \in [Slot -> Optional]
  <2>1. kept \in [Slot -> Optional]
    BY <1>1, <1>2, <1>3, AssignedType
  <2> QED
    BY <1>1, <1>2, <2>1, AssignedType
<1>5. /\ requested' \in Slot \cup {None, "unset"}
      /\ requested' = None => \A s \in ToSet(req) : slots'[s] # None
  BY <1>1, NextSlot
<1>6. \A s \in Slot \ withdrawn : slots'[s] = known'[s]
  <2> SUFFICES ASSUME NEW s \in Slot \ withdrawn PROVE slots'[s] = known'[s]
    OBVIOUS
  <2>1. slots[s] = Assigned(known, result)[s]
    BY <1>1 DEF Inv, TrackerShowsTheOutcome
  <2>2. CASE s \in Names(result)
    <3>1. Assigned(slots, result)[s] = Assigned(kept, result)[s]
      BY <2>2, AssignedIs
    <3> QED
      BY <1>1, <1>2, <3>1
  <2>3. CASE s \notin Names(result)
    <3>1. slots'[s] = known[s] /\ known'[s] = kept[s]
      <4>1. /\ Assigned(slots, result)[s] = slots[s]
            /\ Assigned(known, result)[s] = known[s]
            /\ Assigned(kept, result)[s] = kept[s]
        BY <2>3, AssignedIs
      <4> QED
        BY <1>1, <1>2, <2>1, <4>1
    <3>2. s \notin Names(sent)
      BY <1>1, <1>3, <2>3
    <3>3. kept[s] = known[s]
      BY <1>2, <3>2, AssignedIs
    <3> QED
      BY <3>1, <3>3
  <2> QED
    BY <2>2, <2>3
<1>7. FormEndsFilled'
  <2>1. \A s \in ToSet(req) : s \in Slot
    BY <1>1 DEF ToSet
  <2> QED
    BY <1>1, <1>5, <1>6, <2>1 DEF FormEndsFilled
<1>8. TypeOK'
  <2>1. slots' \in [Slot -> Optional]
    BY <1>1, AssignedType
  <2>2. <<>> \in Seq(Slot)
    OBVIOUS
  <2> QED
    BY <1>1, <1>4, <1>5, <2>1, <2>2, EmptyDict DEF TypeOK
<1> QED
  BY <1>1, <1>7, <1>8 DEF Inv, RunInv, TrackerShowsTheOutcome, CandidatesAreValidated

\* The request fails.
LEMMA FailStep == Inv /\ Fail => Inv'
<1> SUFFICES ASSUME Inv, Fail PROVE Inv'
  OBVIOUS
<1>1. /\ slots' = known /\ requested' = "unset" /\ required' = <<>> /\ withdrawn' = {}
      /\ pc' = "idle" /\ form' = FALSE /\ events' = <<>> /\ todo' = <<>> /\ custom' = <<>>
      /\ result' = <<>> /\ validated' = <<>> /\ known' = known
      /\ known \in [Slot -> Optional]
  BY DEF Fail, Ended, Inv, TypeOK
<1>2. <<>> \in Seq(Slot) /\ None # "unset"
  BY NoneAssumption
<1>3. TypeOK'
  BY <1>1, <1>2, EmptyDict DEF TypeOK
<1> QED
  BY <1>1, <1>2, <1>3
  DEF Inv, RunInv, TrackerShowsTheOutcome, CandidatesAreValidated, FormEndsFilled

\* The inductive invariant holds initially and is kept by every step.
LEMMA Invariant == Spec => []Inv
<1>1. Init => Inv
  <2> SUFFICES ASSUME Init PROVE Inv
    OBVIOUS
  <2>1. <<>> \in Seq(Slot) /\ None # "unset"
    BY NoneAssumption
  <2>2. TypeOK
    BY <2>1, EmptyDict DEF Init, NoRun, TypeOK
  <2> QED
    BY <2>1, <2>2 DEF Init, NoRun, Inv, RunInv, TrackerShowsTheOutcome,
       CandidatesAreValidated, FormEndsFilled
<1>2. Inv /\ [Next]_vars => Inv'
  <2> SUFFICES ASSUME Inv, [Next]_vars PROVE Inv'
    OBVIOUS
  <2>1. CASE UNCHANGED vars
    BY <2>1 DEF vars, run, history, Inv, TypeOK, RunInv, TrackerShowsTheOutcome,
       CandidatesAreValidated, FormEndsFilled
  <2> QED
    BY <2>1, PostStep, ExtractStep, BeginStep, WithdrawStep, ValidateStep, FinishStep,
       FailStep DEF Next
<1> QED
  BY <1>1, <1>2, PTL DEF Spec

\* Every variable keeps its type, and the names in a dict stay distinct.
THEOREM TypeCorrect == Spec => []TypeOK
<1>1. Inv => TypeOK
  BY DEF Inv
<1> QED
  BY <1>1, Invariant, PTL

\* What the tracker shows is what the assistant will have, but for candidates
\* that were dropped.
THEOREM TrackerShowsTheOutcomeHolds == Spec => []TrackerShowsTheOutcome
<1>1. Inv => TrackerShowsTheOutcome
  BY DEF Inv
<1> QED
  BY <1>1, Invariant, PTL

\* No candidate gets past its validate method.
THEOREM CandidatesAreValidatedHolds == Spec => []CandidatesAreValidated
<1>1. Inv => CandidatesAreValidated
  BY DEF Inv
<1> QED
  BY <1>1, Invariant, PTL

\* The form is only left when each required slot that was not dropped is filled
\* for the assistant too.
THEOREM FormEndsFilledHolds == Spec => []FormEndsFilled
<1>1. Inv => FormEndsFilled
  BY DEF Inv
<1> QED
  BY <1>1, Invariant, PTL

=============================================================================
