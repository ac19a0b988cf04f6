------------------------- MODULE ConversationProofs -------------------------
(***************************************************************************)
(* Proofs about Conversation: types; that replaying the list of events     *)
(* arrives where the snapshots of TimeTravel do; what a rewind takes back; *)
(* and that what an action reads of the conversation is what happened, for *)
(* lists of any length, any actions, channels, messages and domains.       *)
(***************************************************************************)
EXTENDS Conversation, FiniteSetTheorems, WellFoundedInduction, TLAPS

-----------------------------------------------------------------------------
(* Filtering a sequence, by induction over it.                             *)

\* A set of naturals that has 0 and the successor of each of its members has
\* every natural.
LEMMA SetInduction ==
  ASSUME NEW T, T \subseteq Nat, 0 \in T, \A n \in T : n + 1 \in T
  PROVE  T = Nat
<1> DEFINE R == OpToRel(<, Nat)
           D == Nat \ T
<1>1. IsWellFoundedOn(R, Nat)
  BY NatLessThanWellFounded
<1>2. ASSUME D # {} PROVE FALSE
  <2> HIDE DEF R, D
  <2>1. D \subseteq Nat
    BY DEF D
  <2>2. PICK x \in D : \A y \in D : ~ (<<y, x>> \in R)
    BY <1>1, <1>2, <2>1, WFMin
  <2>3. x \in Nat /\ x \notin T /\ x # 0
    BY <2>2 DEF D
  <2>4. x - 1 \in Nat /\ x - 1 < x
    BY <2>3
  <2>5. <<x - 1, x>> \in R
    BY <2>3, <2>4 DEF R, OpToRel
  <2>6. x - 1 \in T
    BY <2>2, <2>4, <2>5 DEF D
  <2> QED
    BY <2>6, <2>3
<1> QED
  BY <1>2

\* `f` filters the prefixes of `s` up to length n.
Filters(f, s, S, n) ==
  /\ f[0] = <<>>
  /\ \A k \in 1 .. n :
       f[k] = IF s[k] \in S THEN Append(f[k - 1], s[k]) ELSE f[k - 1]

\* There is such a function for every length.
LEMMA FilterExists ==
  ASSUME NEW T, NEW s \in Seq(T), NEW S
  PROVE  \A n \in Nat :
           n <= Len(s) =>
             \E f \in [0 .. n -> Seq(T \cap S)] : Filters(f, s, S, n)
<1> DEFINE Good(n, f) == Filters(f, s, S, n)
           N == {n \in Nat : n <= Len(s) => \E f \in [0 .. n -> Seq(T \cap S)] : Good(n, f)}
<1>1. 0 \in N
  <2>1. [k \in 0 .. 0 |-> <<>>] \in [0 .. 0 -> Seq(T \cap S)]
    OBVIOUS
  <2>2. Good(0, [k \in 0 .. 0 |-> <<>>])
    BY DEF Filters
  <2> HIDE DEF Good
  <2> QED
    BY <2>1, <2>2
<1>2. ASSUME NEW n \in N PROVE n + 1 \in N
  <2>0. n \in Nat
    OBVIOUS
  <2> SUFFICES ASSUME n + 1 <= Len(s)
               PROVE  \E f \in [0 .. n + 1 -> Seq(T \cap S)] : Good(n + 1, f)
    <3> HIDE DEF Good
    <3> QED
      BY <2>0
  <2>1. n \in Nat /\ n <= Len(s) /\ Len(s) \in Nat /\ n + 1 \in DOMAIN s
    OBVIOUS
  <2>2. PICK f \in [0 .. n -> Seq(T \cap S)] : Good(n, f)
    BY <2>1
  <2> DEFINE last == IF s[n + 1] \in S THEN Append(f[n], s[n + 1]) ELSE f[n]
             g == [k \in 0 .. n + 1 |-> IF k = n + 1 THEN last ELSE f[k]]
  <2>3. last \in Seq(T \cap S)
    <3>1. f[n] \in Seq(T \cap S) /\ s[n + 1] \in T
      BY <2>1
    <3> QED
      BY <3>1
  <2> HIDE DEF last
  <2>4. \A k \in 0 .. n + 1 : k # n + 1 => k \in 0 .. n
    BY <2>1
  <2>5. g \in [0 .. n + 1 -> Seq(T \cap S)]
    BY <2>3, <2>4
  <2>6. g[0] = <<>> /\ g[n + 1] = last /\ g[n] = f[n]
    BY <2>1, <2>2 DEF Filters
  <2>7. \A k \in 1 .. n : g[k] = f[k] /\ g[k - 1] = f[k - 1]
    <3> SUFFICES ASSUME NEW k \in 1 .. n
                 PROVE  g[k] = f[k] /\ g[k - 1] = f[k - 1]
      OBVIOUS
    <3>1. /\ k \in 0 .. n + 1 /\ k # n + 1
          /\ k - 1 \in 0 .. n + 1 /\ k - 1 # n + 1
      BY <2>1
    <3> QED
      BY <3>1
  <2>8. Good(n + 1, g)
    <3> HIDE DEF g
    <3>1. \A k \in 1 .. n + 1 : k \in 1 .. n \/ k = n + 1
      BY <2>1
    <3>2. (n + 1) - 1 = n
      BY <2>1
    <3> QED
      BY <2>2, <2>6, <2>7, <3>1, <3>2 DEF last, Filters
  <2> QED
    BY <2>5, <2>8
<1>3. N \subseteq Nat
  OBVIOUS
<1> HIDE DEF N
<1>4. N = Nat
  BY <1>1, <1>2, <1>3, SetInduction
<1> QED
  BY <1>4 DEF N

\* So the definition of Filter means what it says: a prefix longer by one is
\* kept or dropped by its last member.
LEMMA FilterRuns ==
  ASSUME NEW T, NEW s \in Seq(T), NEW S
  PROVE  \E f \in [0 .. Len(s) -> Seq(T \cap S)] :
           Filters(f, s, S, Len(s)) /\ Filter(s, S) = f[Len(s)]
<1> DEFINE u[n \in 0 .. Len(s)] ==
             IF n = 0 THEN <<>>
             ELSE IF s[n] \in S THEN Append(u[n - 1], s[n]) ELSE u[n - 1]
<1>1. Len(s) \in Nat
  OBVIOUS
<1>2. PICK f \in [0 .. Len(s) -> Seq(T \cap S)] : Filters(f, s, S, Len(s))
  <2> HIDE DEF u
  <2>1. \A n \in Nat :
          n <= Len(s) => \E f \in [0 .. n -> Seq(T \cap S)] : Filters(f, s, S, n)
    BY FilterExists
  <2> QED
    BY <1>1, <2>1
<1>3. \E g : g = [n \in 0 .. Len(s) |->
                    IF n = 0 THEN <<>>
                    ELSE IF s[n] \in S THEN Append(g[n - 1], s[n]) ELSE g[n - 1]]
  <2> HIDE DEF u
  <2>1. \A n \in 0 .. Len(s) : n = 0 \/ n \in 1 .. Len(s)
    BY <1>1
  <2>2. f = [n \in 0 .. Len(s) |->
               IF n = 0 THEN <<>>
               ELSE IF s[n] \in S THEN Append(f[n - 1], s[n]) ELSE f[n - 1]]
    BY <1>2, <2>1 DEF Filters
  <2> QED
    BY <2>2
<1>4. u = [n \in 0 .. Len(s) |->
             IF n = 0 THEN <<>>
             ELSE IF s[n] \in S THEN Append(u[n - 1], s[n]) ELSE u[n - 1]]
  BY <1>3 DEF u
<1>5. Filter(s, S) = u[Len(s)]
  BY DEF Filter, u
<1> HIDE DEF u
<1> DEFINE N == {n \in Nat : n <= Len(s) => u[n] = f[n]}
<1>6. 0 \in N
  BY <1>1, <1>2, <1>4 DEF Filters
<1>7. ASSUME NEW n \in N PROVE n + 1 \in N
  <2> SUFFICES ASSUME n + 1 <= Len(s) PROVE u[n + 1] = f[n + 1]
    OBVIOUS
  <2>1. /\ n \in Nat /\ n + 1 \in 1 .. Len(s) /\ n + 1 \in 0 .. Len(s)
        /\ (n + 1) - 1 = n /\ u[n] = f[n] /\ n + 1 # 0
    BY <1>1
  <2>2. u[n + 1] = IF s[n + 1] \in S THEN Append(u[n], s[n + 1]) ELSE u[n]
    BY <1>4, <2>1
  <2> QED
    BY <1>2, <2>1, <2>2 DEF Filters
<1>8. N \subseteq Nat
  OBVIOUS
<1> HIDE DEF N
<1>9. N = Nat
  BY <1>6, <1>7, <1>8, SetInduction
<1>10. u[Len(s)] = f[Len(s)]
  BY <1>1, <1>9 DEF N
<1> QED
  BY <1>2, <1>5, <1>10

\* What is kept is of the sequence and of the set.
LEMMA FilterType ==
  ASSUME NEW T, NEW s \in Seq(T), NEW S
  PROVE  Filter(s, S) \in Seq(T \cap S)
<1>1. PICK f \in [0 .. Len(s) -> Seq(T \cap S)] : Filter(s, S) = f[Len(s)]
  BY FilterRuns
<1>2. Len(s) \in 0 .. Len(s)
  OBVIOUS
<1> QED
  BY <1>1, <1>2

\* A sequence is filtered member by member.
LEMMA FilterAppend ==
  ASSUME NEW T, NEW s \in Seq(T), NEW e \in T, NEW S
  PROVE  Filter(Append(s, e), S) =
           IF e \in S THEN Append(Filter(s, S), e) ELSE Filter(s, S)
<1> DEFINE t == Append(s, e)
<1>1. /\ t \in Seq(T) /\ Len(t) = Len(s) + 1 /\ Len(s) \in Nat
      /\ t[Len(t)] = e /\ \A k \in 1 .. Len(s) : t[k] = s[k]
  OBVIOUS
<1>2. PICK f : Filters(f, s, S, Len(s)) /\ Filter(s, S) = f[Len(s)]
  BY FilterRuns
<1> HIDE DEF t
<1>3. PICK g : Filters(g, t, S, Len(t)) /\ Filter(t, S) = g[Len(t)]
  BY <1>1, FilterRuns
<1> DEFINE N == {n \in Nat : n <= Len(s) => f[n] = g[n]}
<1>4. 0 \in N
  BY <1>2, <1>3 DEF Filters
<1>5. ASSUME NEW n \in N PROVE n + 1 \in N
  <2> SUFFICES ASSUME n + 1 <= Len(s) PROVE f[n + 1] = g[n + 1]
    OBVIOUS
  <2>1. /\ n \in Nat /\ n + 1 \in 1 .. Len(s) /\ n + 1 \in 1 .. Len(t)
        /\ (n + 1) - 1 = n /\ f[n] = g[n] /\ t[n + 1] = s[n + 1]
    <3>1. /\ n \in Nat /\ n <= Len(s) /\ f[n] = g[n]
          /\ Len(s) \in Nat /\ Len(t) = Len(s) + 1
      BY <1>1
    <3> HIDE DEF N
    <3>2. n + 1 \in 1 .. Len(s) /\ n + 1 \in 1 .. Len(t) /\ (n + 1) - 1 = n
      BY <3>1
    <3>3. t[n + 1] = s[n + 1]
      BY <1>1, <3>2
    <3> QED
      BY <3>1, <3>2, <3>3
  <2> QED
    BY <1>2, <1>3, <2>1 DEF Filters
<1>6. N \subseteq Nat
  OBVIOUS
<1>7. f[Len(s)] = g[Len(s)]
  <2> HIDE DEF N
  <2>1. N = Nat
    BY <1>4, <1>5, <1>6, SetInduction
  <2> QED
    BY <1>1, <2>1 DEF N
<1>8. Filter(t, S) = g[Len(s) + 1] /\ Len(s) + 1 \in 1 .. Len(t)
      /\ (Len(s) + 1) - 1 = Len(s) /\ t[Len(s) + 1] = e
  BY <1>1, <1>3
<1> HIDE DEF N
<1>9. g[Len(s) + 1] = IF e \in S THEN Append(g[Len(s)], e) ELSE g[Len(s)]
  BY <1>3, <1>8 DEF Filters
<1> QED
  BY <1>2, <1>7, <1>8, <1>9 DEF t

\* Nothing is kept of nothing.
LEMMA FilterEmpty ==
  ASSUME NEW S
  PROVE  Filter(<<>>, S) = <<>>
<1>1. \A s \in Seq({}) : Filter(s, S) \in Seq({} \cap S)
  BY FilterType
<1>2. Filter(<<>>, S) \in Seq({})
  <2>1. <<>> \in Seq({}) /\ {} \cap S = {}
    OBVIOUS
  <2> QED
    BY <1>1, <2>1
<1>3. \A s \in Seq({}) : s = <<>>
  OBVIOUS
<1> QED
  BY <1>2, <1>3

-----------------------------------------------------------------------------
(* Going back.                                                             *)

\* A set of positions that is not empty has a last one.
LEMMA LastPosition ==
  ASSUME NEW n \in Nat, NEW S \in SUBSET (0 .. n), S # {}
  PROVE  Max(S) \in S /\ \A x \in S : x <= Max(S)
<1> DEFINE N == {k \in Nat : \A x \in S : x <= n - k}
           IsMax(m) == m \in S /\ \A x \in S : m >= x
<1>1. \E m : IsMax(m)
  <2> SUFFICES ASSUME \A m : ~IsMax(m) PROVE FALSE
    OBVIOUS
  <2>1. 0 \in N
    OBVIOUS
  <2>2. ASSUME NEW k \in N PROVE k + 1 \in N
    <3>1. n - k \notin S
      BY <2>2
    <3>2. \A x \in S : x <= n - k /\ x # n - k /\ x \in Nat
      BY <2>2, <3>1
    <3>3. k \in Nat /\ \A x \in S : x <= n - (k + 1)
      BY <3>2
    <3> QED
      BY <3>3
  <2>3. N \subseteq Nat
    OBVIOUS
  <2>4. n + 1 \in N
    <3> HIDE DEF N, IsMax
    <3>1. N = Nat
      BY <2>1, <2>2, <2>3, SetInduction
    <3> QED
      BY <3>1
  <2>5. \A x \in S : x \in 0 .. n /\ x <= n - (n + 1)
    BY <2>4
  <2> QED
    BY <2>5
<1>2. Max(S) = CHOOSE m : IsMax(m)
  BY DEF Max
<1> HIDE DEF IsMax
<1>3. IsMax(CHOOSE m : IsMax(m))
  BY <1>1
<1>4. IsMax(Max(S))
  BY <1>2, <1>3
<1> QED
  BY <1>4 DEF IsMax

\* A number that is a set's greatest is its maximum.
LEMMA MaxIs ==
  ASSUME NEW S \in SUBSET Nat, NEW m \in S, \A x \in S : x <= m
  PROVE  Max(S) = m
<1> DEFINE IsMax(x) == x \in S /\ \A y \in S : x >= y
<1>1. IsMax(m)
  OBVIOUS
<1>2. \A x : IsMax(x) => x = m
  OBVIOUS
<1>3. Max(S) = CHOOSE x : IsMax(x)
  BY DEF Max
<1> HIDE DEF IsMax
<1>4. IsMax(CHOOSE x : IsMax(x))
  BY <1>1
<1> QED
  BY <1>2, <1>3, <1>4

\* What going back to before the last event of a type leaves of a list.
LEMMA UndoTill ==
  ASSUME NEW T, NEW s \in Seq(T), NEW type
  PROVE  /\ Occurrences(s, type) = {} => undo_till_previous(type, s) = <<>>
         /\ \A p \in Occurrences(s, type) :
              (\A q \in Occurrences(s, type) : q <= p) =>
                undo_till_previous(type, s) = SubSeq(s, 1, p - 1)
         /\ undo_till_previous(type, s) \in Seq(T)
<1> DEFINE O == Occurrences(s, type)
<1>1. O \subseteq 1 .. Len(s) /\ Len(s) \in Nat /\ O \subseteq Nat /\ O \subseteq 0 .. Len(s)
  BY DEF Occurrences
<1>2. ASSUME NEW p \in O, \A q \in O : q <= p
      PROVE  undo_till_previous(type, s) = SubSeq(s, 1, p - 1)
  <2>1. Max(O) = p
    <3> HIDE DEF O
    <3> QED
      BY <1>1, <1>2, MaxIs
  <2> QED
    BY <2>1 DEF undo_till_previous
<1>3. undo_till_previous(type, s) \in Seq(T)
  <2>1. CASE O = {}
    BY <2>1 DEF undo_till_previous
  <2>2. CASE O # {}
    <3>1. Max(O) \in O
      <4> HIDE DEF O
      <4> QED
        BY <1>1, <2>2, LastPosition
    <3>2. Max(O) \in 1 .. Len(s)
      BY <1>1, <3>1
    <3>3. SubSeq(s, 1, Max(O) - 1) \in Seq(T)
      BY <3>2
    <3> QED
      BY <3>3, <2>2 DEF undo_till_previous
  <2> QED
    BY <2>1, <2>2
<1> QED
  BY <1>2, <1>3 DEF undo_till_previous

\* Applying an event to a list gives a list.
LEMMA ApplyType ==
  ASSUME NEW T, NEW s \in Seq(T), NEW e \in T
  PROVE  Apply(s, e) \in Seq(T)
<1>1. undo_till_previous("action", s) \in Seq(T) /\ undo_till_previous("user", s) \in Seq(T)
  BY UndoTill
<1>2. undo_till_previous("action", undo_till_previous("user", s)) \in Seq(T)
  BY <1>1, UndoTill
<1>3. Append(s, e) \in Seq(T) /\ <<>> \in Seq(T)
  OBVIOUS
<1> QED
  BY <1>1, <1>2, <1>3 DEF Apply

-----------------------------------------------------------------------------
(* Replaying, by induction over the list.                                  *)

\* `f` replays the prefixes of `es` up to length n.
Replays(f, es, n) ==
  /\ f[0] = <<>>
  /\ \A k \in 1 .. n : f[k] = Apply(f[k - 1], es[k])

\* There is such a function for every length.
LEMMA ReplayExists ==
  ASSUME NEW T, NEW es \in Seq(T)
  PROVE  \A n \in Nat :
           n <= Len(es) => \E f \in [0 .. n -> Seq(T)] : Replays(f, es, n)
<1> DEFINE N == {n \in Nat :
                   n <= Len(es) => \E f \in [0 .. n -> Seq(T)] : Replays(f, es, n)}
<1>1. 0 \in N
  <2>1. [k \in 0 .. 0 |-> <<>>] \in [0 .. 0 -> Seq(T)]
    OBVIOUS
  <2>2. Replays([k \in 0 .. 0 |-> <<>>], es, 0)
    BY DEF Replays
  <2> QED
    BY <2>1, <2>2
<1>2. ASSUME NEW n \in N PROVE n + 1 \in N
  <2>0. n \in Nat
    OBVIOUS
  <2> SUFFICES ASSUME n + 1 <= Len(es)
               PROVE  \E f \in [0 .. n + 1 -> Seq(T)] : Replays(f, es, n + 1)
    BY <2>0
  <2>1. n <= Len(es) /\ Len(es) \in Nat /\ es[n + 1] \in T
    BY <2>0
  <2>2. PICK f \in [0 .. n -> Seq(T)] : Replays(f, es, n)
    BY <2>1
  <2> DEFINE last == Apply(f[n], es[n + 1])
             g == [k \in 0 .. n + 1 |-> IF k = n + 1 THEN last ELSE f[k]]
  <2>3. last \in Seq(T)
    <3>1. f[n] \in Seq(T)
      BY <2>0
    <3> QED
      BY <2>1, <3>1, ApplyType
  <2> HIDE DEF last
  <2>4. \A k \in 0 .. n + 1 : k # n + 1 => k \in 0 .. n
    BY <2>0
  <2>5. g \in [0 .. n + 1 -> Seq(T)]
    BY <2>3, <2>4
  <2>6. g[0] = <<>> /\ g[n + 1] = last /\ g[n] = f[n]
    BY <2>0, <2>2 DEF Replays
  <2>7. \A k \in 1 .. n : g[k] = f[k] /\ g[k - 1] = f[k - 1]
    <3> SUFFICES ASSUME NEW k \in 1 .. n
                 PROVE  g[k] = f[k] /\ g[k - 1] = f[k - 1]
      OBVIOUS
    <3>1. /\ k \in 0 .. n + 1 /\ k # n + 1
          /\ k - 1 \in 0 .. n + 1 /\ k - 1 # n + 1
      BY <2>0
    <3> QED
      BY <3>1
  <2>8. Replays(g, es, n + 1)
    <3> HIDE DEF g
    <3>1. \A k \in 1 .. n + 1 : k \in 1 .. n \/ k = n + 1
      BY <2>0
    <3>2. (n + 1) - 1 = n
      BY <2>0
    <3> QED
      BY <2>2, <2>6, <2>7, <3>1, <3>2 DEF last, Replays
  <2> QED
    BY <2>5, <2>8
<1>3. N \subseteq Nat
  OBVIOUS
<1> HIDE DEF N
<1>4. N = Nat
  BY <1>1, <1>2, <1>3, SetInduction
<1> QED
  BY <1>4 DEF N

\* So applied_events does replay its list.
LEMMA ReplayRuns ==
  ASSUME NEW T, NEW es \in Seq(T)
  PROVE  \E f \in [0 .. Len(es) -> Seq(T)] :
           Replays(f, es, Len(es)) /\ applied_events(es) = f[Len(es)]
<1> DEFINE u[k \in 0 .. Len(es)] == IF k = 0 THEN <<>> ELSE Apply(u[k - 1], es[k])
<1>1. Len(es) \in Nat
  OBVIOUS
<1>2. PICK f \in [0 .. Len(es) -> Seq(T)] : Replays(f, es, Len(es))
  <2> HIDE DEF u
  <2>1. \A n \in Nat :
          n <= Len(es) => \E f \in [0 .. n -> Seq(T)] : Replays(f, es, n)
    BY ReplayExists
  <2> QED
    BY <1>1, <2>1
<1>3. \E g : g = [k \in 0 .. Len(es) |-> IF k = 0 THEN <<>> ELSE Apply(g[k - 1], es[k])]
  <2> HIDE DEF u
  <2>1. \A k \in 0 .. Len(es) : k = 0 \/ k \in 1 .. Len(es)
    BY <1>1
  <2>2. f = [k \in 0 .. Len(es) |-> IF k = 0 THEN <<>> ELSE Apply(f[k - 1], es[k])]
    BY <1>2, <2>1 DEF Replays
  <2> QED
    BY <2>2
<1>4. u = [k \in 0 .. Len(es) |-> IF k = 0 THEN <<>> ELSE Apply(u[k - 1], es[k])]
  BY <1>3 DEF u
<1>5. applied_events(es) = u[Len(es)]
  BY DEF applied_events, u
<1> HIDE DEF u
<1> DEFINE N == {n \in Nat : n <= Len(es) => u[n] = f[n]}
<1>6. 0 \in N
  BY <1>1, <1>2, <1>4 DEF Replays
<1>7. ASSUME NEW n \in N PROVE n + 1 \in N
  <2> SUFFICES ASSUME n + 1 <= Len(es) PROVE u[n + 1] = f[n + 1]
    OBVIOUS
  <2>1. /\ n \in Nat /\ n + 1 \in 1 .. Len(es) /\ n + 1 \in 0 .. Len(es)
        /\ (n + 1) - 1 = n /\ u[n] = f[n] /\ n + 1 # 0
    BY <1>1
  <2>2. u[n + 1] = Apply(u[n], es[n + 1])
    BY <1>4, <2>1
  <2> QED
    BY <1>2, <2>1, <2>2 DEF Replays
<1>8. N \subseteq Nat
  OBVIOUS
<1> HIDE DEF N
<1>9. N = Nat
  BY <1>6, <1>7, <1>8, SetInduction
<1>10. u[Len(es)] = f[Len(es)]
  BY <1>1, <1>9 DEF N
<1> QED
  BY <1>2, <1>5, <1>10

\* Nothing is in effect of nothing.
LEMMA AppliedEmpty == applied_events(<<>>) = <<>>
<1>1. \A es \in Seq({}) : \E f : f[0] = <<>> /\ applied_events(es) = f[Len(es)]
  BY ReplayRuns DEF Replays
<1>2. <<>> \in Seq({}) /\ Len(<<>>) = 0
  OBVIOUS
<1> QED
  BY <1>1, <1>2

\* Replaying a list that has grown by an event is applying that event to what
\* was in effect.
LEMMA AppliedAppend ==
  ASSUME NEW T, NEW es \in Seq(T), NEW e \in T
  PROVE  /\ applied_events(Append(es, e)) = Apply(applied_events(es), e)
         /\ applied_events(es) \in Seq(T)
<1> DEFINE t == Append(es, e)
<1>1. /\ t \in Seq(T) /\ Len(t) = Len(es) + 1 /\ Len(es) \in Nat
      /\ t[Len(t)] = e /\ \A k \in 1 .. Len(es) : t[k] = es[k]
  OBVIOUS
<1>2. PICK f \in [0 .. Len(es) -> Seq(T)] :
        Replays(f, es, Len(es)) /\ applied_events(es) = f[Len(es)]
  BY ReplayRuns
<1> HIDE DEF t
<1>3. PICK g : Replays(g, t, Len(t)) /\ applied_events(t) = g[Len(t)]
  BY <1>1, ReplayRuns
<1> DEFINE N == {n \in Nat : n <= Len(es) => f[n] = g[n]}
<1>4. 0 \in N
  BY <1>2, <1>3 DEF Replays
<1>5. ASSUME NEW n \in N PROVE n + 1 \in N
  <2> SUFFICES ASSUME n + 1 <= Len(es) PROVE f[n + 1] = g[n + 1]
    OBVIOUS
  <2>1. /\ n \in Nat /\ n + 1 \in 1 .. Len(es) /\ n + 1 \in 1 .. Len(t)
        /\ (n + 1) - 1 = n /\ f[n] = g[n] /\ t[n + 1] = es[n + 1]
    <3>1. /\ n \in Nat /\ n <= Len(es) /\ f[n] = g[n]
          /\ Len(es) \in Nat /\ Len(t) = Len(es) + 1
      BY <1>1
    <3> HIDE DEF N
    <3>2. n + 1 \in 1 .. Len(es) /\ n + 1 \in 1 .. Len(t) /\ (n + 1) - 1 = n
      BY <3>1
    <3>3. t[n + 1] = es[n + 1]
      BY <1>1, <3>2
    <3> QED
      BY <3>1, <3>2, <3>3
  <2> QED
    BY <1>2, <1>3, <2>1 DEF Replays
<1>6. N \subseteq Nat
  OBVIOUS
<1>7. f[Len(es)] = g[Len(es)]
  <2> HIDE DEF N
  <2>1. N = Nat
    BY <1>4, <1>5, <1>6, SetInduction
  <2> QED
    BY <1>1, <2>1 DEF N
<1>8. applied_events(t) = g[Len(es) + 1] /\ Len(es) + 1 \in 1 .. Len(t)
      /\ (Len(es) + 1) - 1 = Len(es) /\ t[Len(es) + 1] = e
  BY <1>1, <1>3
<1> HIDE DEF N
<1>9. g[Len(es) + 1] = Apply(g[Len(es)], e)
  BY <1>3, <1>8 DEF Replays
<1> QED
  BY <1>1, <1>2, <1>7, <1>8, <1>9 DEF t

-----------------------------------------------------------------------------
(* Time travel.                                                            *)

\* Where in the conversation snapshot i was taken.
Pos(i) == Len(saved[i].before) + 1

\* Inductive: the snapshots are those of the actions and messages in effect, in
\* their order, and each has what came before its own.
SnapInv ==
  /\ now \in Seq(Events)
  /\ saved \in Seq([event : {"action", "user"}, before : Seq(Events)])
  /\ \A i \in DOMAIN saved :
       /\ Pos(i) \in DOMAIN now
       /\ saved[i].before = SubSeq(now, 1, Pos(i) - 1)
       /\ saved[i].event = now[Pos(i)].event
  /\ \A i, j \in DOMAIN saved : i < j => Pos(i) < Pos(j)
  /\ \A p \in DOMAIN now :
       now[p].event \in {"action", "user"} => \E i \in DOMAIN saved : Pos(i) = p

\* A prefix of a list.
LEMMA Prefix ==
  ASSUME NEW T, NEW s \in Seq(T), NEW n \in 0 .. Len(s)
  PROVE  /\ SubSeq(s, 1, n) \in Seq(T) /\ Len(SubSeq(s, 1, n)) = n
         /\ DOMAIN SubSeq(s, 1, n) = 1 .. n
         /\ \A p \in 1 .. n : p \in DOMAIN s /\ SubSeq(s, 1, n)[p] = s[p]
OBVIOUS

\* A prefix of a prefix is a prefix.
LEMMA PrefixOfPrefix ==
  ASSUME NEW T, NEW s \in Seq(T), NEW n \in 0 .. Len(s), NEW m \in 0 .. n
  PROVE  SubSeq(SubSeq(s, 1, n), 1, m) = SubSeq(s, 1, m)
<1> DEFINE r == SubSeq(s, 1, n)
<1>1. /\ r \in Seq(T) /\ Len(r) = n /\ \A p \in 1 .. n : r[p] = s[p]
      /\ m \in 0 .. Len(s)
  BY Prefix
<1> HIDE DEF r
<1>2. /\ SubSeq(r, 1, m) \in Seq(T) /\ Len(SubSeq(r, 1, m)) = m
      /\ \A p \in 1 .. m : SubSeq(r, 1, m)[p] = r[p]
  BY <1>1, Prefix
<1>3. /\ SubSeq(s, 1, m) \in Seq(T) /\ Len(SubSeq(s, 1, m)) = m
      /\ \A p \in 1 .. m : SubSeq(s, 1, m)[p] = s[p]
  BY <1>1, Prefix
<1>4. \A p \in 1 .. m : p \in 1 .. n
  OBVIOUS
<1>5. SubSeq(r, 1, m) = SubSeq(s, 1, m)
  BY <1>1, <1>2, <1>3, <1>4
<1> QED
  BY <1>5 DEF r

\* The snapshots are ordered as the positions they were taken at.
LEMMA SnapshotOrder ==
  ASSUME SnapInv, NEW i \in DOMAIN saved, NEW j \in DOMAIN saved
  PROVE  /\ Pos(i) \in Nat \ {0} /\ i \in Nat
         /\ (i < j <=> Pos(i) < Pos(j)) /\ (i <= j <=> Pos(i) <= Pos(j))
<1>1. /\ Pos(i) \in DOMAIN now /\ Pos(j) \in DOMAIN now /\ i \in Nat /\ j \in Nat
      /\ DOMAIN now \subseteq Nat \ {0}
  BY DEF SnapInv
<1>2. /\ i < j => Pos(i) < Pos(j)
      /\ j < i => Pos(j) < Pos(i)
  BY DEF SnapInv
<1> QED
  BY <1>1, <1>2

\* A restored snapshot leaves the earlier ones as they were.
LEMMA RestoreKeeps ==
  ASSUME SnapInv, NEW i \in DOMAIN saved, Restore(i)
  PROVE  SnapInv' /\ now' = SubSeq(now, 1, Pos(i) - 1)
<1> DEFINE n == Pos(i) - 1
           Snaps == [event : {"action", "user"}, before : Seq(Events)]
<1>1. /\ now' = SubSeq(now, 1, n) /\ now \in Seq(Events) /\ n \in 0 .. Len(now)
      /\ n \in Nat /\ n + 1 = Pos(i)
  BY DEF SnapInv, Restore
<1>2. /\ saved' = SubSeq(saved, 1, i - 1) /\ saved \in Seq(Snaps)
      /\ i - 1 \in 0 .. Len(saved)
  BY DEF SnapInv, Restore
<1> HIDE DEF Snaps
<1>3. /\ now' \in Seq(Events) /\ DOMAIN now' = 1 .. n
      /\ \A p \in 1 .. n : p \in DOMAIN now /\ now'[p] = now[p]
  BY <1>1, Prefix
<1>4. /\ saved' \in Seq(Snaps) /\ DOMAIN saved' = 1 .. i - 1
      /\ \A j \in 1 .. i - 1 : j \in DOMAIN saved /\ saved'[j] = saved[j]
  BY <1>2, Prefix
<1>5. \A j \in 1 .. i - 1 : Pos(j)' = Pos(j)
  BY <1>4 DEF Pos
<1>6. \A j \in 1 .. i - 1 : Pos(j) \in 1 .. n
  <2> SUFFICES ASSUME NEW j \in 1 .. i - 1 PROVE Pos(j) \in 1 .. n
    OBVIOUS
  <2>1. j \in DOMAIN saved /\ j < i
    BY <1>2, <1>4
  <2>2. Pos(j) < Pos(i) /\ Pos(j) \in Nat \ {0} /\ Pos(i) \in Nat
    BY <2>1, SnapshotOrder
  <2> QED
    BY <2>2
<1> HIDE DEF n
<1>7. ASSUME NEW j \in 1 .. i - 1
      PROVE  /\ Pos(j)' \in DOMAIN now'
             /\ saved'[j].before = SubSeq(now', 1, Pos(j)' - 1)
             /\ saved'[j].event = now'[Pos(j)'].event
  <2>1. /\ saved[j].before = SubSeq(now, 1, Pos(j) - 1)
        /\ saved[j].event = now[Pos(j)].event
    BY <1>4 DEF SnapInv
  <2>2. Pos(j) \in 1 .. n /\ Pos(j) - 1 \in 0 .. n /\ Pos(j)' = Pos(j)
    BY <1>1, <1>5, <1>6
  <2>3. SubSeq(now', 1, Pos(j) - 1) = SubSeq(now, 1, Pos(j) - 1)
    BY <1>1, <2>2, PrefixOfPrefix
  <2> QED
    BY <1>3, <1>4, <2>1, <2>2, <2>3
<1>8. \A j, k \in 1 .. i - 1 : j < k => Pos(j)' < Pos(k)'
  BY <1>4, <1>5 DEF SnapInv
<1>9. ASSUME NEW p \in 1 .. n, now'[p].event \in {"action", "user"}
      PROVE  \E j \in 1 .. i - 1 : Pos(j)' = p
  <2>1. PICK j \in DOMAIN saved : Pos(j) = p
    BY <1>3, <1>9 DEF SnapInv
  <2>2. Pos(j) < Pos(i)
    BY <1>1, <2>1
  <2>3. j < i /\ j \in DOMAIN saved /\ j \in Nat /\ j # 0
    BY <1>2, <2>2, SnapshotOrder
  <2>4. j \in 1 .. i - 1
    BY <1>2, <2>3
  <2> QED
    BY <1>5, <2>1, <2>4
<1>10. SnapInv'
  BY <1>3, <1>4, <1>7, <1>8, <1>9 DEF SnapInv, Snaps
<1> QED
  BY <1>1, <1>10 DEF n

\* At the beginning there are no snapshots.
LEMMA ForgetKeeps ==
  ASSUME Forget
  PROVE  SnapInv'
<1>1. /\ now' = <<>> /\ saved' = <<>>
      /\ <<>> \in Seq(Events)
      /\ <<>> \in Seq([event : {"action", "user"}, before : Seq(Events)])
      /\ DOMAIN <<>> = {}
  BY DEF Forget
<1> QED
  BY <1>1 DEF SnapInv

\* An event is recorded, with a snapshot if it is an action or a message.
LEMMA RecordKeeps ==
  ASSUME SnapInv, NEW e \in Events, Record(e)
  PROVE  SnapInv'
<1> DEFINE Snaps == [event : {"action", "user"}, before : Seq(Events)]
           snap == [event |-> e.event, before |-> now]
<1>1. /\ now \in Seq(Events) /\ now' = Append(now, e) /\ saved \in Seq(Snaps)
      /\ now' \in Seq(Events) /\ DOMAIN now' = 1 .. Len(now) + 1
      /\ Len(now) \in Nat /\ DOMAIN now = 1 .. Len(now)
      /\ now'[Len(now) + 1] = e /\ \A p \in DOMAIN now : now'[p] = now[p]
  BY DEF SnapInv, Record
<1>2. \A j \in DOMAIN saved :
        /\ saved[j].before = SubSeq(now, 1, Pos(j) - 1)
        /\ saved[j].event = now[Pos(j)].event /\ Pos(j) \in DOMAIN now
  BY DEF SnapInv
<1>3. \A j \in DOMAIN saved : SubSeq(now', 1, Pos(j) - 1) = SubSeq(now, 1, Pos(j) - 1)
  <2> SUFFICES ASSUME NEW j \in DOMAIN saved
               PROVE  SubSeq(now', 1, Pos(j) - 1) = SubSeq(now, 1, Pos(j) - 1)
    OBVIOUS
  <2> DEFINE m == Pos(j) - 1
  <2>1. m \in 0 .. Len(now)
    BY <1>1, <1>2
  <2> HIDE DEF m
  <2>2. SubSeq(now', 1, m) = SubSeq(now, 1, m)
    BY <1>1, <2>1
  <2> QED
    BY <2>2 DEF m
<1>4. CASE e.event \notin {"action", "user"}
  <2>1. saved' = saved /\ \A j \in DOMAIN saved : Pos(j)' = Pos(j)
    BY <1>4 DEF Record, Pos
  <2>2. \A p \in DOMAIN now' :
          now'[p].event \in {"action", "user"} => \E j \in DOMAIN saved : Pos(j) = p
    <3>1. \A p \in DOMAIN now' : p = Len(now) + 1 \/ p \in DOMAIN now
      BY <1>1
    <3> QED
      BY <1>1, <1>4, <3>1 DEF SnapInv
  <2>3. \A j \in DOMAIN saved : /\ Pos(j) \in DOMAIN now'
                                /\ saved[j].event = now'[Pos(j)].event
    BY <1>1, <1>2
  <2> QED
    BY <1>1, <1>2, <1>3, <2>1, <2>2, <2>3 DEF SnapInv
<1>5. CASE e.event \in {"action", "user"}
  <2>1. saved' = Append(saved, snap) /\ snap \in Snaps
    BY <1>1, <1>5 DEF Record
  <2>0. PICK k : k = Len(saved) + 1
    OBVIOUS
  <2>2. /\ saved' \in Seq(Snaps) /\ DOMAIN saved' = 1 .. k
        /\ saved'[k] = snap /\ Len(saved) \in Nat /\ k \in Nat
        /\ DOMAIN saved = 1 .. Len(saved)
        /\ \A j \in DOMAIN saved : saved'[j] = saved[j]
    BY <1>1, <2>0, <2>1
  <2>3. /\ \A j \in DOMAIN saved : Pos(j)' = Pos(j)
        /\ Pos(k)' = Len(now) + 1
    <3>1. \A j \in DOMAIN saved : Pos(j)' = Pos(j)
      BY <2>2 DEF Pos
    <3>2. saved'[k].before = now
      BY <2>2
    <3>3. Pos(k)' = Len(saved'[k].before) + 1
      BY DEF Pos
    <3> QED
      BY <3>1, <3>2, <3>3
  <2>4. \A j \in DOMAIN saved' : j = k \/ j \in DOMAIN saved
    BY <2>0, <2>2
  <2>5. SubSeq(now', 1, Len(now)) = now
    BY <1>1
  <2>6. \A j \in DOMAIN saved' :
          /\ Pos(j)' \in DOMAIN now'
          /\ saved'[j].before = SubSeq(now', 1, Pos(j)' - 1)
          /\ saved'[j].event = now'[Pos(j)'].event
    <3>1. ASSUME NEW j \in DOMAIN saved
          PROVE  /\ Pos(j)' \in DOMAIN now'
                 /\ saved'[j].before = SubSeq(now', 1, Pos(j)' - 1)
                 /\ saved'[j].event = now'[Pos(j)'].event
      <4>1. Pos(j)' = Pos(j) /\ saved'[j] = saved[j] /\ Pos(j) \in DOMAIN now
        BY <1>2, <2>2, <2>3
      <4>2. Pos(j)' \in DOMAIN now'
        BY <1>1, <4>1
      <4>3. saved'[j].before = SubSeq(now', 1, Pos(j)' - 1)
        <5>1. saved[j].before = SubSeq(now', 1, Pos(j) - 1)
          BY <1>2, <1>3
        <5> HIDE DEF Snaps, snap
        <5> QED
          BY <4>1, <5>1, Zenon
      <4>4. saved'[j].event = now'[Pos(j)'].event
        BY <1>1, <1>2, <4>1
      <4> QED
        BY <4>2, <4>3, <4>4
    <3>2. /\ Len(now) + 1 \in DOMAIN now' /\ (Len(now) + 1) - 1 = Len(now)
          /\ snap.before = now /\ snap.event = e.event
      BY <1>1
    <3>3. /\ Pos(k)' \in DOMAIN now'
          /\ saved'[k].before = SubSeq(now', 1, Pos(k)' - 1)
          /\ saved'[k].event = now'[Pos(k)'].event
      BY <1>1, <2>2, <2>3, <2>5, <3>2
    <3> QED
      BY <2>4, <3>1, <3>3
  <2>7. \A j, l \in DOMAIN saved' : j < l => Pos(j)' < Pos(l)'
    <3>1. \A j \in DOMAIN saved : Pos(j) < Len(now) + 1
      BY <1>1, <1>2
    <3>2. \A j, l \in DOMAIN saved' : j < l => j \in DOMAIN saved
      BY <2>0, <2>2
    <3> QED
      BY <2>3, <2>4, <3>1, <3>2 DEF SnapInv
  <2>8. ASSUME NEW p \in DOMAIN now', now'[p].event \in {"action", "user"}
        PROVE  \E j \in DOMAIN saved' : Pos(j)' = p
    <3>1. CASE p = Len(now) + 1
      <4>1. k \in DOMAIN saved'
        BY <2>0, <2>2
      <4> QED
        BY <2>3, <3>1, <4>1
    <3>2. CASE p \in DOMAIN now
      <4>1. PICK j \in DOMAIN saved : Pos(j) = p
        BY <1>1, <2>8, <3>2 DEF SnapInv
      <4>2. j \in DOMAIN saved' /\ Pos(j)' = p
        BY <2>0, <2>2, <2>3, <4>1
      <4> QED
        BY <4>2
    <3> QED
      BY <1>1, <3>1, <3>2
  <2> HIDE DEF snap
  <2> QED
    BY <1>1, <2>2, <2>6, <2>7, <2>8 DEF SnapInv
<1> QED
  BY <1>4, <1>5

\* Restoring the last action among the first n snapshots undoes up to it in
\* the part of the conversation they were taken in.
LEMMA BackKeeps ==
  ASSUME SnapInv, NEW n \in 0 .. Len(saved), NEW b \in 0 .. Len(now), BackToAction(n),
         \A i \in DOMAIN saved : saved[i].event = "action" => (i <= n <=> Pos(i) <= b)
  PROVE  SnapInv' /\ now' = undo_till_previous("action", SubSeq(now, 1, b))
<1> DEFINE r == SubSeq(now, 1, b)
           O == Occurrences(r, "action")
<1>1. /\ now \in Seq(Events) /\ r \in Seq(Events) /\ DOMAIN r = 1 .. b /\ Len(r) = b
      /\ \A p \in 1 .. b : p \in DOMAIN now /\ r[p] = now[p]
  BY Prefix DEF SnapInv
<1>2. /\ \A i \in DOMAIN saved : i \in Nat /\ i <= Len(saved) /\ i >= 1
      /\ \A i \in 1 .. n : i \in DOMAIN saved
  BY DEF SnapInv
<1> HIDE DEF r
<1>3. \A q \in O : \E i \in Of("action", n) : Pos(i) = q
  <2> SUFFICES ASSUME NEW q \in O PROVE \E i \in Of("action", n) : Pos(i) = q
    OBVIOUS
  <2>1. q \in 1 .. b /\ now[q].event = "action" /\ q \in DOMAIN now
    BY <1>1 DEF Occurrences
  <2>2. PICK i \in DOMAIN saved : Pos(i) = q
    BY <2>1 DEF SnapInv
  <2>3. saved[i].event = "action" /\ Pos(i) <= b
    BY <2>1, <2>2 DEF SnapInv
  <2>4. i \in Of("action", n)
    BY <1>2, <2>2, <2>3 DEF Of
  <2> QED
    BY <2>2, <2>4
<1>4. \A i \in Of("action", n) : i \in DOMAIN saved /\ Pos(i) \in O
  <2> SUFFICES ASSUME NEW i \in Of("action", n) PROVE i \in DOMAIN saved /\ Pos(i) \in O
    OBVIOUS
  <2>1. i \in DOMAIN saved /\ saved[i].event = "action" /\ i <= n
    BY <1>2 DEF Of
  <2>2. Pos(i) <= b /\ Pos(i) \in Nat \ {0} /\ now[Pos(i)].event = "action"
    BY <2>1, SnapshotOrder DEF SnapInv
  <2> QED
    BY <1>1, <2>1, <2>2 DEF Occurrences
<1>5. ASSUME NEW a \in Of("action", n), IsLast(a, Of("action", n)), Restore(a)
      PROVE  SnapInv' /\ now' = undo_till_previous("action", r)
  <2>1. a \in DOMAIN saved /\ Pos(a) \in O
    BY <1>4, <1>5
  <2>2. \A q \in O : q <= Pos(a)
    <3> SUFFICES ASSUME NEW q \in O PROVE q <= Pos(a)
      OBVIOUS
    <3>1. PICK i \in Of("action", n) : Pos(i) = q
      BY <1>3
    <3>2. i <= a /\ i \in DOMAIN saved
      BY <1>4, <1>5, <3>1 DEF IsLast
    <3> QED
      BY <2>1, <3>1, <3>2, SnapshotOrder
  <2>3. undo_till_previous("action", r) = SubSeq(r, 1, Pos(a) - 1)
    BY <1>1, <2>1, <2>2, UndoTill
  <2>4. Pos(a) - 1 \in 0 .. b
    BY <1>1, <2>1 DEF Occurrences
  <2>5. SubSeq(r, 1, Pos(a) - 1) = SubSeq(now, 1, Pos(a) - 1)
    BY <1>1, <2>4, PrefixOfPrefix DEF r
  <2>6. SnapInv' /\ now' = SubSeq(now, 1, Pos(a) - 1)
    BY <1>5, <2>1, RestoreKeeps
  <2> QED
    BY <2>3, <2>5, <2>6
<1>6. ASSUME Of("action", n) = {}, Forget
      PROVE  SnapInv' /\ now' = undo_till_previous("action", r)
  <2>1. O = {}
    BY <1>3, <1>6
  <2>2. undo_till_previous("action", r) = <<>>
    BY <1>1, <2>1, UndoTill
  <2> QED
    BY <1>6, <2>2, ForgetKeeps DEF Forget
<1> QED
  BY <1>5, <1>6 DEF BackToAction, r

\* Each event the conversation is told of brings it where replaying it does.
LEMMA ToldKeeps ==
  ASSUME SnapInv, NEW e \in Events, Told(e)
  PROVE  SnapInv' /\ now' = Apply(now, e)
<1>1. /\ now \in Seq(Events) /\ Len(now) \in Nat /\ Len(saved) \in Nat
      /\ DOMAIN saved = 1 .. Len(saved) /\ DOMAIN now = 1 .. Len(now)
      /\ SubSeq(now, 1, Len(now)) = now
  BY DEF SnapInv
<1>2. CASE Record(e)
  BY <1>2, RecordKeeps DEF Record, Apply
<1>3. CASE Restart(e)
  BY <1>3, ForgetKeeps DEF Restart, Forget, Apply
<1>4. CASE Undo(e)
  <2>1. /\ e.event = "undo" /\ BackToAction(Len(saved))
        /\ Len(saved) \in 0 .. Len(saved) /\ Len(now) \in 0 .. Len(now)
    BY <1>1, <1>4 DEF Undo
  <2>2. \A i \in DOMAIN saved : i <= Len(saved) /\ Pos(i) <= Len(now)
    BY <1>1 DEF SnapInv
  <2>3. SnapInv' /\ now' = undo_till_previous("action", SubSeq(now, 1, Len(now)))
    BY <2>1, <2>2, BackKeeps
  <2> QED
    BY <1>1, <2>1, <2>3 DEF Apply
<1>5. CASE Rewind(e)
  <2> DEFINE users == Of("user", Len(saved))
             O == Occurrences(now, "user")
  <2>1. \A q \in O : \E i \in users : Pos(i) = q
    BY <1>1 DEF Occurrences, SnapInv, Of
  <2>2. Apply(now, e) = undo_till_previous("action", undo_till_previous("user", now))
    BY <1>5 DEF Rewind, Apply
  <2>3. ASSUME NEW u \in users, IsLast(u, users), BackToAction(u)
        PROVE  SnapInv' /\ now' = Apply(now, e)
    <3>1. u \in DOMAIN saved /\ saved[u].event = "user" /\ u \in 0 .. Len(saved)
      BY <1>1 DEF Of
    <3>2. Pos(u) \in O /\ Pos(u) - 1 \in 0 .. Len(now)
      BY <1>1, <3>1 DEF Occurrences, SnapInv
    <3>3. \A q \in O : q <= Pos(u)
      <4> SUFFICES ASSUME NEW q \in O PROVE q <= Pos(u)
        OBVIOUS
      <4>1. PICK i \in users : Pos(i) = q
        BY <2>1
      <4>2. i <= u /\ i \in DOMAIN saved
        BY <1>1, <2>3, <4>1 DEF IsLast, Of
      <4> QED
        BY <3>1, <4>1, <4>2, SnapshotOrder
    <3>4. undo_till_previous("user", now) = SubSeq(now, 1, Pos(u) - 1)
      BY <1>1, <3>2, <3>3, UndoTill
    <3>5. \A i \in DOMAIN saved :
            saved[i].event = "action" => (i <= u <=> Pos(i) <= Pos(u) - 1)
      <4> SUFFICES ASSUME NEW i \in DOMAIN saved, saved[i].event = "action"
                   PROVE  i <= u <=> Pos(i) <= Pos(u) - 1
        OBVIOUS
      <4>1. i # u
        BY <3>1
      <4>2. i < u <=> Pos(i) < Pos(u)
        BY <3>1, SnapshotOrder
      <4>3. Pos(i) \in Nat /\ Pos(u) \in Nat /\ i \in Nat /\ u \in Nat
        BY <3>1, SnapshotOrder
      <4> QED
        BY <4>1, <4>2, <4>3
    <3>6. SnapInv' /\ now' = undo_till_previous("action", SubSeq(now, 1, Pos(u) - 1))
      BY <2>3, <3>1, <3>2, <3>5, BackKeeps
    <3> QED
      BY <2>2, <3>4, <3>6
  <2>4. ASSUME users = {}, Forget
        PROVE  SnapInv' /\ now' = Apply(now, e)
    <3>1. undo_till_previous("user", now) = <<>>
      BY <1>1, <2>1, <2>4, UndoTill
    <3>2. Occurrences(<<>>, "action") = {}
      BY DEF Occurrences
    <3>3. undo_till_previous("action", <<>>) = <<>>
      BY <3>2 DEF undo_till_previous
    <3> QED
      BY <2>2, <2>4, <3>1, <3>3, ForgetKeeps DEF Forget
  <2> QED
    BY <1>5, <2>3, <2>4 DEF Rewind
<1> QED
  BY <1>2, <1>3, <1>4, <1>5 DEF Told

\* Undoing leaves a prefix of the list.
LEMMA UndoIsPrefix ==
  ASSUME NEW T, NEW s \in Seq(T), NEW type
  PROVE  \A p \in DOMAIN undo_till_previous(type, s) :
           p \in DOMAIN s /\ undo_till_previous(type, s)[p] = s[p]
<1> DEFINE O == Occurrences(s, type)
<1>1. CASE O = {}
  <2>1. undo_till_previous(type, s) = <<>>
    BY <1>1, UndoTill
  <2> QED
    BY <2>1
<1>2. CASE O # {}
  <2>1. Len(s) \in Nat /\ O \subseteq 0 .. Len(s) /\ O \subseteq 1 .. Len(s)
    BY DEF Occurrences
  <2>2. Max(O) \in O
    <3> HIDE DEF O
    <3> QED
      BY <1>2, <2>1, LastPosition
  <2>3. Max(O) - 1 \in 0 .. Len(s)
    BY <2>1, <2>2
  <2>4. undo_till_previous(type, s) = SubSeq(s, 1, Max(O) - 1)
    BY <1>2 DEF undo_till_previous
  <2> HIDE DEF O
  <2> QED
    BY <2>3, <2>4, Prefix
<1> QED
  BY <1>1, <1>2

\* Applying an event leaves a prefix or adds the event.
LEMMA ApplyIsPrefix ==
  ASSUME NEW T, NEW s \in Seq(T), NEW e \in T
  PROVE  \/ Apply(s, e) = Append(s, e) /\ e.event \notin {"restart", "undo", "rewind"}
         \/ /\ e.event \in {"restart", "undo", "rewind"}
            /\ \A p \in DOMAIN Apply(s, e) : p \in DOMAIN s /\ Apply(s, e)[p] = s[p]
<1>1. CASE e.event \notin {"restart", "undo", "rewind"}
  BY <1>1 DEF Apply
<1>2. CASE e.event = "restart"
  <2>1. Apply(s, e) = <<>>
    BY <1>2 DEF Apply
  <2> QED
    BY <1>2, <2>1
<1>3. CASE e.event = "undo"
  <2>1. Apply(s, e) = undo_till_previous("action", s)
    BY <1>3 DEF Apply
  <2> QED
    BY <1>3, <2>1, UndoIsPrefix
<1>4. CASE e.event = "rewind"
  <2> DEFINE r == undo_till_previous("user", s)
  <2>1. Apply(s, e) = undo_till_previous("action", r)
    BY <1>4 DEF Apply
  <2>2. r \in Seq(T) /\ \A p \in DOMAIN r : p \in DOMAIN s /\ r[p] = s[p]
    BY UndoTill, UndoIsPrefix
  <2> HIDE DEF r
  <2>3. \A p \in DOMAIN undo_till_previous("action", r) :
          p \in DOMAIN r /\ undo_till_previous("action", r)[p] = r[p]
    BY <2>2, UndoIsPrefix
  <2> QED
    BY <1>4, <2>1, <2>2, <2>3
<1> QED
  BY <1>1, <1>2, <1>3, <1>4

-----------------------------------------------------------------------------
(* Types, and the shape of a step.                                         *)

\* What a step does to the events: it leaves them alone, or it tells of one.
Telling(e) ==
  /\ Tell(e) /\ e.timestamp = Now
  /\ e.event = "user" => turn = "listening" /\ spoken' = e.name
  /\ e.event # "user" => spoken' = spoken
  /\ turn' = "listening" => e.event = "action"

\* No step does anything else.
LEMMA StepTells ==
  ASSUME TypeOK, [Next]_vars
  PROVE  \/ UNCHANGED <<events, now, saved, turn, spoken>>
         \/ \E e \in Events : Telling(e)
<1>1. Now \in Nat /\ loop \in Forms \cup {"none", "should_not_be_set"}
  BY DEF TypeOK, Now
<1>2. CASE Listen
  <2> DEFINE e == ActionExecuted(ACTION_LISTEN_NAME, Now)
  <2>1. e \in Events /\ e.event = "action" /\ e.timestamp = Now
    BY <1>1 DEF ActionExecuted, Event, Events, EventTypes
  <2>2. Tell(e) /\ spoken' = spoken
    BY <1>2 DEF Listen
  <2> HIDE DEF e
  <2>3. Telling(e)
    BY <2>1, <2>2 DEF Telling
  <2> QED
    BY <2>1, <2>3
<1>3. ASSUME NEW m \in Messages, NEW c \in Channels, Say(m, c)
      PROVE  \E e \in Events : Telling(e)
  <2> DEFINE e == UserUttered(c, Now)
  <2>1. e \in Events /\ e.event = "user" /\ e.timestamp = Now /\ e.name = c
    BY <1>1 DEF UserUttered, Event, Events, EventTypes
  <2>2. Tell(e) /\ turn = "listening" /\ turn' = "spoken" /\ spoken' = c
    BY <1>3 DEF Say
  <2> HIDE DEF e
  <2>3. Telling(e)
    BY <2>1, <2>2 DEF Telling
  <2> QED
    BY <2>1, <2>3
<1>4. ASSUME NEW a \in Actions, Act(a)
      PROVE  \E e \in Events : Telling(e)
  <2> DEFINE e == ActionExecuted(a, Now)
  <2>1. e \in Events /\ e.event = "action" /\ e.timestamp = Now
    BY <1>1 DEF ActionExecuted, Event, Events, EventTypes
  <2>2. Tell(e) /\ spoken' = spoken
    BY <1>4 DEF Act
  <2> HIDE DEF e
  <2>3. Telling(e)
    BY <2>1, <2>2 DEF Telling
  <2> QED
    BY <2>1, <2>3
<1>5. ASSUME NEW e \in ReturnedEvents, Returned(e)
      PROVE  e \in Events /\ Telling(e)
  <2>1. e \in Events /\ e.event \notin {"action", "user"} /\ e.timestamp = Now
    BY <1>1 DEF ReturnedEvents, SlotSet, BotUttered, Restarted, UserUtteranceReverted,
       ActionReverted, ActiveLoop, Event, Events, EventTypes
  <2>2. Tell(e) /\ turn' = "acting" /\ spoken' = spoken
    BY <1>5 DEF Returned
  <2> QED
    BY <2>1, <2>2 DEF Telling
<1>6. CASE HideLoop \/ NewModel \/ UNCHANGED vars
  BY <1>6 DEF HideLoop, NewModel, vars, travelVars
<1> QED
  BY <1>2, <1>3, <1>4, <1>5, <1>6 DEF Next

\* What is told becomes the last event of the list.
LEMMA TellAppends ==
  ASSUME TypeOK, NEW e \in Events, Telling(e)
  PROVE  /\ events \in Seq(Events) /\ Len(events) \in Nat
         /\ events' = Append(events, e) /\ events' \in Seq(Events)
         /\ Len(events') = Len(events) + 1 /\ events'[Len(events')] = e
         /\ DOMAIN events = 1 .. Len(events) /\ DOMAIN events' = 1 .. Len(events) + 1
         /\ \A i \in DOMAIN events : events'[i] = events[i] /\ i # Len(events')
         /\ \A i \in DOMAIN events' : i = Len(events') \/ i \in DOMAIN events
         /\ Told(e)
BY DEF TypeOK, Telling, Tell

\* Every step keeps the types; that what is in effect has been told needs the
\* snapshots.
LEMMA TypeStep == TypeOK /\ SnapInv /\ [Next]_vars => TypeOK' /\ SnapInv'
<1> SUFFICES ASSUME TypeOK, SnapInv, [Next]_vars PROVE TypeOK' /\ SnapInv'
  OBVIOUS
<1>1. /\ latest' \in Messages \cup {NoMessage}
      /\ turn' \in {"open", "listening", "spoken", "acting"}
      /\ spoken' \in Channels \cup {"none"}
      /\ forms' \in Domains
  BY DEF TypeOK, Next, Listen, Say, Act, Returned, HideLoop, NewModel, vars
<1>2. loop' \in Forms \cup {"none", "should_not_be_set"}
  <2>1. ASSUME NEW e \in ReturnedEvents, Returned(e)
        PROVE  loop' \in Forms \cup {"none", "should_not_be_set"}
    <3>1. e.event = "active_loop" => e.name \in Forms \cup {"none"}
      BY DEF ReturnedEvents, SlotSet, BotUttered, Restarted, UserUtteranceReverted,
         ActionReverted, ActiveLoop, Event
    <3>2. loop' = CASE e.event = "active_loop" -> e.name
                    [] e.event = "restart" -> "none"
                    [] OTHER -> loop
      BY <2>1 DEF Returned
    <3> QED
      BY <3>1, <3>2 DEF TypeOK
  <2> QED
    BY <2>1 DEF TypeOK, Next, Listen, Say, Act, HideLoop, NewModel, vars
<1>3. CASE UNCHANGED <<events, now, saved, turn, spoken>>
  <2>1. SnapInv'
    BY <1>3 DEF SnapInv, Pos
  <2> QED
    BY <1>1, <1>2, <1>3, <2>1 DEF TypeOK
<1>4. ASSUME NEW e \in Events, Telling(e) PROVE TypeOK' /\ SnapInv'
  <2>1. SnapInv' /\ now' = Apply(now, e)
    BY <1>4, TellAppends, ToldKeeps
  <2>2. \A i \in DOMAIN events' : events'[i].timestamp = i
    BY <1>4, TellAppends DEF Telling, Now, TypeOK
  <2>3. ToSet(now') \subseteq ToSet(events')
    <3>1. now \in Seq(Events)
      BY DEF SnapInv
    <3>2. e \in ToSet(events') /\ ToSet(events) \subseteq ToSet(events')
      BY <1>4, TellAppends DEF ToSet
    <3>3. \A p \in DOMAIN now : now[p] \in ToSet(events)
      BY DEF TypeOK, ToSet
    <3>4. \A p \in DOMAIN Apply(now, e) : Apply(now, e)[p] \in ToSet(now) \cup {e}
      <4>1. CASE Apply(now, e) = Append(now, e)
        BY <3>1, <4>1 DEF ToSet
      <4>2. CASE \A p \in DOMAIN Apply(now, e) : p \in DOMAIN now /\ Apply(now, e)[p] = now[p]
        BY <4>2 DEF ToSet
      <4> QED
        BY <3>1, <4>1, <4>2, ApplyIsPrefix
    <3> QED
      BY <2>1, <3>2, <3>4 DEF TypeOK, ToSet
  <2> QED
    BY <1>1, <1>2, <1>4, <2>1, <2>2, <2>3, TellAppends DEF TypeOK
<1> QED
  BY <1>3, <1>4, StepTells

\* At the beginning nothing has been told.
LEMMA TypeInit == Init => TypeOK /\ SnapInv
<1> SUFFICES ASSUME Init PROVE TypeOK /\ SnapInv
  OBVIOUS
<1>1. /\ events = <<>> /\ now = <<>> /\ saved = <<>> /\ DOMAIN <<>> = {}
      /\ <<>> \in Seq(Events)
      /\ <<>> \in Seq([event : {"action", "user"}, before : Seq(Events)])
  BY DEF Init, Beginning
<1> QED
  BY <1>1 DEF Init, TypeOK, SnapInv, ToSet

\* Every variable stays within its type, and what is in effect has been told.
THEOREM TypeCorrect == Spec => []TypeOK
BY TypeInit, TypeStep, PTL DEF Spec

\* However undos, rewinds and restarts are mixed, replaying the list of events
\* arrives where the snapshots do.
THEOREM ReplayIsTimeTravelHolds == Spec => []ReplayIsTimeTravel
<1>1. Init => ReplayIsTimeTravel
  BY AppliedEmpty DEF Init, Beginning, ReplayIsTimeTravel, Applied
<1>2. TypeOK /\ SnapInv /\ ReplayIsTimeTravel /\ [Next]_vars => ReplayIsTimeTravel'
  <2> SUFFICES ASSUME TypeOK, SnapInv, ReplayIsTimeTravel, [Next]_vars
               PROVE  ReplayIsTimeTravel'
    OBVIOUS
  <2>1. CASE UNCHANGED <<events, now, saved, turn, spoken>>
    BY <2>1 DEF ReplayIsTimeTravel, Applied
  <2>2. ASSUME NEW e \in Events, Telling(e) PROVE ReplayIsTimeTravel'
    <3>1. now' = Apply(now, e)
      BY <2>2, TellAppends, ToldKeeps
    <3>2. applied_events(events') = Apply(applied_events(events), e)
      BY <2>2, TellAppends, AppliedAppend
    <3> QED
      BY <3>1, <3>2 DEF ReplayIsTimeTravel, Applied
  <2> QED
    BY <2>1, <2>2, StepTells
<1> QED
  BY <1>1, <1>2, TypeInit, TypeStep, PTL DEF Spec

-----------------------------------------------------------------------------
(* Turns.                                                                  *)

\* Inductive: each message in effect comes right after an action, the listen it
\* answers; the last message told is the last one in the list.
TurnInv ==
  /\ \A p \in DOMAIN now :
       now[p].event = "user" => p - 1 \in DOMAIN now /\ now[p - 1].event = "action"
  /\ turn = "listening" => now # <<>> /\ now[Len(now)].event = "action"
  /\ spoken = get_latest_input_channel(events)

\* The channel of the last message, in a list that has grown by an event.
LEMMA ChannelAppend ==
  ASSUME NEW T, NEW es \in Seq(T), NEW e \in T
  PROVE  get_latest_input_channel(Append(es, e)) =
           IF e.event = "user" THEN e.name ELSE get_latest_input_channel(es)
<1> DEFINE t == Append(es, e)
           O == Occurrences(es, "user")
           P == Occurrences(t, "user")
<1>1. /\ Len(es) \in Nat /\ DOMAIN es = 1 .. Len(es) /\ DOMAIN t = 1 .. Len(es) + 1
      /\ t[Len(es) + 1] = e /\ \A i \in DOMAIN es : t[i] = es[i] /\ i \in DOMAIN t
      /\ \A i \in DOMAIN t : i = Len(es) + 1 \/ i \in DOMAIN es
      /\ \A i \in DOMAIN es : i \in Nat /\ i <= Len(es)
  OBVIOUS
<1>2. O \subseteq DOMAIN es /\ P \subseteq DOMAIN t
  BY DEF Occurrences
<1> HIDE DEF t
<1>3. CASE e.event = "user"
  <2>1. Len(es) + 1 \in P /\ P \subseteq Nat /\ \A i \in P : i <= Len(es) + 1
    BY <1>1, <1>2, <1>3 DEF Occurrences
  <2>2. Max(P) = Len(es) + 1
    <3> HIDE DEF P
    <3> QED
      BY <2>1, MaxIs
  <2> QED
    BY <1>1, <1>3, <2>1, <2>2 DEF get_latest_input_channel, t
<1>4. CASE e.event # "user"
  <2>1. P = O
    BY <1>1, <1>4 DEF Occurrences
  <2>2. O # {} => Max(O) \in DOMAIN es
    <3>1. O \subseteq 0 .. Len(es)
      BY <1>1, <1>2
    <3> HIDE DEF O
    <3> QED
      BY <1>1, <1>2, <3>1, LastPosition
  <2> QED
    BY <1>1, <1>4, <2>1, <2>2 DEF get_latest_input_channel, t
<1> QED
  BY <1>3, <1>4

\* Every step keeps the order of the turns.
LEMMA TurnInvStep == TypeOK /\ SnapInv /\ TurnInv /\ [Next]_vars => TurnInv'
<1> SUFFICES ASSUME TypeOK, SnapInv, TurnInv, [Next]_vars PROVE TurnInv'
  OBVIOUS
<1>1. CASE UNCHANGED <<events, now, saved, turn, spoken>>
  BY <1>1 DEF TurnInv
<1>2. ASSUME NEW e \in Events, Telling(e) PROVE TurnInv'
  <2>1. /\ now' = Apply(now, e) /\ now \in Seq(Events)
        /\ events \in Seq(Events) /\ events' = Append(events, e)
    BY <1>2, TellAppends, ToldKeeps DEF SnapInv
  <2>2. spoken' = get_latest_input_channel(events')
    <3>1. get_latest_input_channel(events') =
            IF e.event = "user" THEN e.name ELSE get_latest_input_channel(events)
      BY <2>1, ChannelAppend
    <3> QED
      BY <1>2, <3>1 DEF Telling, TurnInv
  <2>3. CASE now' = Append(now, e)
    <3>1. /\ Len(now) \in Nat /\ DOMAIN now = 1 .. Len(now)
          /\ DOMAIN now' = 1 .. Len(now) + 1 /\ Len(now') = Len(now) + 1
          /\ now'[Len(now) + 1] = e /\ now' # <<>>
          /\ \A p \in DOMAIN now : now'[p] = now[p] /\ p \in DOMAIN now'
      BY <2>1, <2>3
    <3>2. ASSUME NEW p \in DOMAIN now', now'[p].event = "user"
          PROVE  p - 1 \in DOMAIN now' /\ now'[p - 1].event = "action"
      <4>1. CASE p \in DOMAIN now
        BY <3>1, <3>2, <4>1 DEF TurnInv
      <4>2. CASE p = Len(now) + 1
        <5>1. turn = "listening"
          BY <1>2, <3>1, <3>2, <4>2 DEF Telling
        <5>2. Len(now) \in DOMAIN now /\ now[Len(now)].event = "action" /\ p - 1 = Len(now)
          BY <2>1, <3>1, <4>2, <5>1 DEF TurnInv
        <5> QED
          BY <3>1, <5>2
      <4> QED
        BY <3>1, <4>1, <4>2
    <3>3. turn' = "listening" => now'[Len(now')].event = "action"
      BY <1>2, <3>1 DEF Telling
    <3> QED
      BY <2>2, <3>1, <3>2, <3>3 DEF TurnInv
  <2>4. CASE /\ e.event \in {"restart", "undo", "rewind"}
             /\ \A p \in DOMAIN Apply(now, e) : p \in DOMAIN now /\ Apply(now, e)[p] = now[p]
    <3>1. now' \in Seq(Events)
      BY <2>1, ApplyType
    <3>2. \A p \in DOMAIN now' : p - 1 \in DOMAIN now => p - 1 \in DOMAIN now'
      BY <2>1, <3>1
    <3>3. \A p \in DOMAIN now' :
            now'[p].event = "user" => p - 1 \in DOMAIN now' /\ now'[p - 1].event = "action"
      BY <2>1, <2>4, <3>2 DEF TurnInv
    <3>4. turn' # "listening"
      BY <1>2, <2>4 DEF Telling
    <3> QED
      BY <2>2, <3>3, <3>4 DEF TurnInv
  <2> QED
    BY <2>1, <2>3, <2>4, ApplyIsPrefix
<1> QED
  BY <1>1, <1>2, StepTells

\* A rewind leaves one message less, if there is one.
LEMMA RewindApplied ==
  ASSUME SnapInv, TurnInv, NEW e \in Events, e.event = "rewind"
  PROVE  Turns(Apply(now, e)) = Max({0, Turns(now) - 1})
<1> DEFINE O == Occurrences(now, "user")
           r == undo_till_previous("user", now)
<1>1. /\ Apply(now, e) = undo_till_previous("action", r) /\ now \in Seq(Events)
      /\ Len(now) \in Nat /\ DOMAIN now = 1 .. Len(now)
      /\ O \subseteq 1 .. Len(now) /\ O \subseteq 0 .. Len(now)
  BY DEF Apply, SnapInv, Occurrences
<1>2. IsFiniteSet(O) /\ Cardinality(O) \in Nat
  <2> HIDE DEF O
  <2>1. IsFiniteSet(1 .. Len(now))
    BY <1>1, FS_Interval
  <2>2. IsFiniteSet(O)
    BY <1>1, <2>1, FS_Subset
  <2> QED
    BY <2>2, FS_CardinalityType
<1>3. CASE O = {}
  <2>1. r = <<>>
    BY <1>1, <1>3, UndoTill
  <2>2. \A type : Occurrences(<<>>, type) = {}
    BY DEF Occurrences
  <2>3. Apply(now, e) = <<>>
    BY <1>1, <2>1, <2>2 DEF undo_till_previous
  <2>4. Turns(now) = 0 /\ Turns(<<>>) = 0
    BY <1>3, <2>2, FS_EmptySet DEF Turns
  <2>5. Max({0, 0 - 1}) = 0
    <3> DEFINE IsMax(x) == x \in {0, -1} /\ \A y \in {0, -1} : x >= y
    <3>1. IsMax(0) /\ \A x : IsMax(x) => x = 0
      OBVIOUS
    <3>2. Max({0, 0 - 1}) = CHOOSE x : IsMax(x)
      BY DEF Max
    <3> HIDE DEF IsMax
    <3>3. IsMax(CHOOSE x : IsMax(x))
      BY <3>1
    <3> QED
      BY <3>1, <3>2, <3>3
  <2> QED
    BY <2>3, <2>4, <2>5
<1>4. CASE O # {}
  <2>1. PICK p \in O : \A q \in O : q <= p
    <3> HIDE DEF O
    <3> QED
      BY <1>1, <1>4, LastPosition
  <2>2. /\ p \in DOMAIN now /\ now[p].event = "user"
        /\ p - 1 \in DOMAIN now /\ now[p - 1].event = "action"
        /\ p - 1 \in Nat /\ p - 1 >= 1 /\ p \in Nat
    BY <1>1, <2>1 DEF Occurrences, TurnInv
  <2>3. r = SubSeq(now, 1, p - 1)
    BY <1>1, <2>1, UndoTill
  <2>4. /\ r \in Seq(Events) /\ DOMAIN r = 1 .. p - 1 /\ Len(r) = p - 1
        /\ \A q \in 1 .. p - 1 : r[q] = now[q]
    <3>1. p - 1 \in 0 .. Len(now)
      BY <1>1, <2>2
    <3> HIDE DEF r
    <3> QED
      BY <1>1, <2>3, <3>1, Prefix
  <2> DEFINE k == p - 1
  <2>5. /\ k \in Occurrences(r, "action") /\ \A q \in Occurrences(r, "action") : q <= k
        /\ k - 1 \in 0 .. Len(r) /\ k - 1 \in 0 .. Len(now)
    BY <1>1, <2>2, <2>4 DEF Occurrences
  <2> HIDE DEF r
  <2>6. Apply(now, e) = SubSeq(r, 1, k - 1)
    BY <1>1, <2>4, <2>5, UndoTill
  <2> DEFINE s == Apply(now, e)
  <2>7. DOMAIN s = 1 .. p - 2 /\ \A q \in 1 .. p - 2 : s[q] = now[q]
    <3>1. DOMAIN s = 1 .. k - 1 /\ \A q \in 1 .. k - 1 : s[q] = r[q]
      BY <2>4, <2>5, <2>6, Prefix
    <3>2. k - 1 = p - 2 /\ \A q \in 1 .. p - 2 : q \in 1 .. p - 1
      BY <2>2
    <3> QED
      BY <2>4, <3>1, <3>2
  <2> HIDE DEF s
  <2>8. Occurrences(s, "user") = O \ {p}
    <3>1. \A q \in O : q # p => q \in 1 .. p - 2
      <4> SUFFICES ASSUME NEW q \in O, q # p PROVE q \in 1 .. p - 2
        OBVIOUS
      <4>1. q <= p /\ q \in 1 .. Len(now) /\ q # p - 1
        BY <1>1, <2>1, <2>2 DEF Occurrences
      <4> QED
        BY <2>2, <4>1
    <3>2. \A q \in 1 .. p - 2 : q # p /\ q \in DOMAIN now
      BY <1>1, <2>2
    <3> QED
      BY <2>7, <3>1, <3>2 DEF Occurrences
  <2>9. Cardinality(O \ {p}) = Cardinality(O) - 1 /\ Cardinality(O) >= 1
    <3> HIDE DEF O
    <3>1. Cardinality(O \ {p}) = Cardinality(O) - 1
      BY <1>2, <2>1, FS_RemoveElement
    <3>2. Cardinality(O) # 0
      BY <1>2, <1>4, FS_EmptySet
    <3> QED
      BY <1>2, <3>1, <3>2
  <2> DEFINE c == Cardinality(O)
  <2>10. Max({0, c - 1}) = c - 1
    <3>1. c - 1 \in Nat
      BY <1>2, <2>9
    <3> HIDE DEF c
    <3> DEFINE d == c - 1
    <3>2. d \in Nat /\ d \in {0, d} /\ {0, d} \subseteq Nat /\ \A x \in {0, d} : x <= d
      BY <3>1
    <3> HIDE DEF d
    <3>3. Max({0, d}) = d
      BY <3>2, MaxIs
    <3> QED
      BY <3>3 DEF d
  <2> QED
    BY <2>8, <2>9, <2>10 DEF Turns, s
<1> QED
  BY <1>3, <1>4

\* A rewind takes back one message, and what the user said last is answered on
\* its channel, whatever is taken back.
THEOREM RewindTakesOneTurnHolds == Spec => RewindTakesOneTurn
<1>1. Init => TurnInv
  <2> SUFFICES ASSUME Init PROVE TurnInv
    OBVIOUS
  <2>1. now = <<>> /\ events = <<>> /\ turn = "open" /\ spoken = "none" /\ DOMAIN <<>> = {}
    BY DEF Init, Beginning
  <2>2. get_latest_input_channel(<<>>) = "none"
    BY DEF get_latest_input_channel, Occurrences
  <2> QED
    BY <2>1, <2>2 DEF TurnInv
<1> DEFINE Takes ==
             /\ events' # events /\ Last(events').event = "rewind" =>
                  Turns(applied_events(events')) = Max({0, Turns(Applied) - 1})
             /\ get_latest_input_channel(events') = spoken'
<1>2. /\ TypeOK /\ SnapInv /\ TurnInv /\ ReplayIsTimeTravel /\ ReplayIsTimeTravel'
      /\ [Next]_vars
      => Takes
  <2> SUFFICES ASSUME TypeOK, SnapInv, TurnInv, ReplayIsTimeTravel, ReplayIsTimeTravel',
                      [Next]_vars
               PROVE  Takes
    OBVIOUS
  <2>1. TurnInv'
    BY TurnInvStep
  <2>2. ASSUME NEW e \in Events, Telling(e), Last(events').event = "rewind"
        PROVE  Turns(applied_events(events')) = Max({0, Turns(Applied) - 1})
    <3>1. e.event = "rewind"
      BY <2>2, TellAppends DEF Last
    <3>2. now' = Apply(now, e)
      BY <2>2, TellAppends, ToldKeeps
    <3>3. applied_events(events') = now' /\ Applied = now
      BY DEF ReplayIsTimeTravel, Applied
    <3> QED
      BY <3>1, <3>2, <3>3, RewindApplied
  <2> QED
    BY <2>1, <2>2, StepTells DEF TurnInv
<1>3. Takes => [Takes]_vars
  OBVIOUS
<1> HIDE DEF Takes
<1>4. Spec => [][Takes]_vars
  BY <1>1, <1>2, TypeInit, TypeStep, TurnInvStep, ReplayIsTimeTravelHolds, PTL DEF Spec
<1> QED
  BY <1>4 DEF RewindTakesOneTurn, Takes

-----------------------------------------------------------------------------
(* Which members of a sequence a filter keeps, counted from the last.      *)

\* The positions after i up to n whose members are in S.
Later(s, S, i, n) == {j \in i + 1 .. n : s[j] \in S}

\* `g`, what is kept of the first n members of s, has each of those in S as
\* far from its end as there are later ones, and nothing else.
Keeps(g, s, S, n) ==
  /\ \A i \in 1 .. n :
       s[i] \in S =>
         /\ Cardinality(Later(s, S, i, n)) \in 0 .. Len(g) - 1
         /\ g[Len(g) - Cardinality(Later(s, S, i, n))] = s[i]
  /\ \A c \in 0 .. Len(g) - 1 :
       \E i \in 1 .. n : s[i] \in S /\ Cardinality(Later(s, S, i, n)) = c

\* One more member, kept or not.
LEMMA KeepsNext ==
  ASSUME NEW T, NEW s \in Seq(T), NEW S, NEW n \in Nat, n + 1 <= Len(s),
         NEW g \in Seq(T), Keeps(g, s, S, n)
  PROVE  Keeps(IF s[n + 1] \in S THEN Append(g, s[n + 1]) ELSE g, s, S, n + 1)
<1>1. /\ n + 1 \in DOMAIN s /\ s[n + 1] \in T /\ Len(g) \in Nat
      /\ \A i \in 1 .. n + 1 : i = n + 1 \/ i \in 1 .. n
  OBVIOUS
<1>2. \A i \in 1 .. n : IsFiniteSet(Later(s, S, i, n)) /\ n + 1 \notin Later(s, S, i, n)
  <2> SUFFICES ASSUME NEW i \in 1 .. n
               PROVE  IsFiniteSet(Later(s, S, i, n)) /\ n + 1 \notin Later(s, S, i, n)
    OBVIOUS
  <2>1. Later(s, S, i, n) \subseteq i + 1 .. n /\ i + 1 \in Int /\ n \in Int
    BY DEF Later
  <2>2. IsFiniteSet(i + 1 .. n)
    BY <2>1, FS_Interval
  <2>3. n + 1 \notin i + 1 .. n
    OBVIOUS
  <2> QED
    BY <2>1, <2>2, <2>3, FS_Subset
<1>3. CASE s[n + 1] \notin S
  <2>1. \A i \in 1 .. n : Later(s, S, i, n + 1) = Later(s, S, i, n)
    BY <1>3 DEF Later
  <2> QED
    BY <1>1, <1>3, <2>1 DEF Keeps
<1>4. CASE s[n + 1] \in S
  <2> DEFINE h == Append(g, s[n + 1])
  <2>1. /\ Len(h) = Len(g) + 1 /\ h[Len(g) + 1] = s[n + 1]
        /\ \A k \in 1 .. Len(g) : h[k] = g[k]
    BY <1>1
  <2> HIDE DEF h
  <2>2. Later(s, S, n + 1, n + 1) = {} /\ Cardinality({}) = 0
    BY FS_EmptySet DEF Later
  <2>3. \A i \in 1 .. n :
          Cardinality(Later(s, S, i, n + 1)) = Cardinality(Later(s, S, i, n)) + 1
    <3> SUFFICES ASSUME NEW i \in 1 .. n
                 PROVE  Cardinality(Later(s, S, i, n + 1)) =
                          Cardinality(Later(s, S, i, n)) + 1
      OBVIOUS
    <3>1. Later(s, S, i, n + 1) = Later(s, S, i, n) \cup {n + 1}
      BY <1>4 DEF Later
    <3> QED
      BY <1>2, <3>1, FS_AddElement
  <2>4. ASSUME NEW i \in 1 .. n + 1, s[i] \in S
        PROVE  /\ Cardinality(Later(s, S, i, n + 1)) \in 0 .. Len(h) - 1
               /\ h[Len(h) - Cardinality(Later(s, S, i, n + 1))] = s[i]
    <3>1. CASE i = n + 1
      <4>1. Cardinality(Later(s, S, i, n + 1)) = 0
        BY <2>2, <3>1
      <4>2. 0 \in 0 .. Len(h) - 1 /\ Len(h) - 0 = Len(g) + 1
        BY <1>1, <2>1
      <4> QED
        BY <2>1, <3>1, <4>1, <4>2
    <3>2. CASE i \in 1 .. n
      <4> DEFINE c == Cardinality(Later(s, S, i, n))
      <4>1. c \in 0 .. Len(g) - 1 /\ g[Len(g) - c] = s[i]
        BY <2>4, <3>2 DEF Keeps
      <4>2. Cardinality(Later(s, S, i, n + 1)) = c + 1
        BY <2>3, <3>2
      <4> HIDE DEF c
      <4>3. Len(h) - (c + 1) = Len(g) - c /\ Len(g) - c \in 1 .. Len(g)
            /\ c + 1 \in 0 .. Len(h) - 1
        BY <1>1, <2>1, <4>1
      <4> QED
        BY <2>1, <4>1, <4>2, <4>3
    <3> QED
      BY <1>1, <3>1, <3>2
  <2>5. ASSUME NEW c \in 0 .. Len(h) - 1
        PROVE  \E i \in 1 .. n + 1 :
                 s[i] \in S /\ Cardinality(Later(s, S, i, n + 1)) = c
    <3>1. CASE c = 0
      <4>1. n + 1 \in 1 .. n + 1
        OBVIOUS
      <4> QED
        BY <1>4, <2>2, <3>1, <4>1
    <3>2. CASE c # 0
      <4>1. c - 1 \in 0 .. Len(g) - 1
        BY <1>1, <2>1, <3>2
      <4>2. PICK i \in 1 .. n : s[i] \in S /\ Cardinality(Later(s, S, i, n)) = c - 1
        BY <4>1 DEF Keeps
      <4>3. Cardinality(Later(s, S, i, n + 1)) = c /\ i \in 1 .. n + 1
        <5>1. Cardinality(Later(s, S, i, n + 1)) = (c - 1) + 1
          BY <2>3, <4>2
        <5> QED
          BY <5>1
      <4> QED
        BY <4>2, <4>3
    <3> QED
      BY <3>1, <3>2
  <2> QED
    BY <1>4, <2>4, <2>5 DEF Keeps, h
<1> QED
  BY <1>3, <1>4

\* So does what is kept of the whole sequence.
LEMMA FilterKeeps ==
  ASSUME NEW T, NEW s \in Seq(T), NEW S
  PROVE  Keeps(Filter(s, S), s, S, Len(s))
<1>1. PICK f \in [0 .. Len(s) -> Seq(T \cap S)] :
        Filters(f, s, S, Len(s)) /\ Filter(s, S) = f[Len(s)]
  BY FilterRuns
<1> DEFINE N == {n \in Nat : n <= Len(s) => Keeps(f[n], s, S, n)}
<1>2. 0 \in N
  <2>1. f[0] = <<>> /\ Len(<<>>) = 0
    BY <1>1 DEF Filters
  <2> QED
    BY <2>1 DEF Keeps
<1>3. ASSUME NEW n \in N PROVE n + 1 \in N
  <2>1. n \in Nat
    OBVIOUS
  <2>2. ASSUME n + 1 <= Len(s) PROVE Keeps(f[n + 1], s, S, n + 1)
    <3>1. /\ Keeps(f[n], s, S, n) /\ n \in 0 .. Len(s) /\ n + 1 \in 1 .. Len(s)
          /\ (n + 1) - 1 = n
      BY <2>1, <2>2
    <3>2. f[n] \in Seq(T)
      BY <3>1
    <3>3. f[n + 1] = IF s[n + 1] \in S THEN Append(f[n], s[n + 1]) ELSE f[n]
      BY <1>1, <3>1 DEF Filters
    <3>4. Keeps(IF s[n + 1] \in S THEN Append(f[n], s[n + 1]) ELSE f[n], s, S, n + 1)
      <4> DEFINE g == f[n]
      <4>1. g \in Seq(T) /\ Keeps(g, s, S, n)
        BY <3>1, <3>2
      <4> HIDE DEF g
      <4>2. Keeps(IF s[n + 1] \in S THEN Append(g, s[n + 1]) ELSE g, s, S, n + 1)
        BY <2>1, <2>2, <4>1, KeepsNext
      <4> QED
        BY <4>2 DEF g
    <3> QED
      BY <3>3, <3>4
  <2> QED
    BY <2>1, <2>2
<1>4. N \subseteq Nat
  OBVIOUS
<1> HIDE DEF N
<1>5. N = Nat
  BY <1>2, <1>3, <1>4, SetInduction
<1>6. Len(s) \in Nat
  OBVIOUS
<1> QED
  BY <1>1, <1>5, <1>6 DEF N

\* A filter keeps nothing exactly when there is nothing to keep.
LEMMA FilterNothing ==
  ASSUME NEW T, NEW s \in Seq(T), NEW S
  PROVE  Filter(s, S) = <<>> <=> \A i \in DOMAIN s : s[i] \notin S
<1> DEFINE g == Filter(s, S)
<1>1. g \in Seq(T) /\ Keeps(g, s, S, Len(s)) /\ DOMAIN s = 1 .. Len(s)
  <2>1. Filter(s, S) \in Seq(T \cap S)
    BY FilterType
  <2> QED
    BY <2>1, FilterKeeps
<1> HIDE DEF g
<1>2. g = <<>> <=> Len(g) = 0
  BY <1>1
<1>3. ASSUME Len(g) = 0, NEW i \in DOMAIN s, s[i] \in S PROVE FALSE
  BY <1>1, <1>3 DEF Keeps
<1>4. ASSUME Len(g) # 0, \A i \in DOMAIN s : s[i] \notin S PROVE FALSE
  <2>1. 0 \in 0 .. Len(g) - 1
    BY <1>1, <1>4
  <2> QED
    BY <1>1, <1>4, <2>1 DEF Keeps
<1> QED
  BY <1>2, <1>3, <1>4 DEF g

-----------------------------------------------------------------------------
(* The latest message.                                                     *)

\* What the assistant sends as a message.
LEMMA LatestType ==
  ASSUME TypeOK
  PROVE  /\ latest.intent_ranking \in Seq(STRING) /\ IsInjective(latest.intent_ranking)
         /\ latest.entities \in Seq([entity : STRING, role : STRING, group : STRING])
<1>1. CASE latest \in Messages
  BY <1>1, MessagesAssumption
<1>2. CASE latest = NoMessage
  <2>1. NoMessage.intent_ranking = <<>> /\ NoMessage.entities = <<>>
    BY DEF NoMessage
  <2>2. /\ <<>> \in Seq(STRING) /\ IsInjective(<<>>)
        /\ <<>> \in Seq([entity : STRING, role : STRING, group : STRING])
    BY DEF IsInjective
  <2> QED
    BY <1>2, <2>1, <2>2
<1> QED
  BY <1>1, <1>2 DEF TypeOK

\* An action finds a value under a role and a group exactly if a mapping on them
\* applies; what it finds carries just these labels.
LEMMA FoundByLabels ==
  ASSUME TypeOK, NEW l \in Labels
  PROVE  /\ entity_is_desired(from_entity(l[1], l[2]), latest) <=> Found(l) # <<>>
         /\ \A e \in ToSet(Found(l)) : e.role = l[1] /\ e.group = l[2]
<1> DEFINE entities == latest.entities
           Entity   == [entity : STRING, role : STRING, group : STRING]
           mapping  == from_entity(l[1], l[2])
           S        == {x \in ToSet(entities) :
                          x.entity = "city" /\ x.group = l[2] /\ x.role = l[1]}
<1>1. entities \in Seq(Entity)
  BY LatestType
<1>2. mapping.entity = "city" /\ mapping.role = l[1] /\ mapping.group = l[2]
  BY DEF from_entity
<1>3. Found(l) = Filter(entities, S)
  BY DEF Found, get_latest_entity_values
<1> HIDE DEF mapping
<1>4. entity_is_desired(mapping, latest) <=> \E i \in DOMAIN entities : entities[i] \in S
  BY <1>2 DEF entity_is_desired, ToSet
<1>5. \A e \in S : e.role = l[1] /\ e.group = l[2]
  OBVIOUS
<1> HIDE DEF S, entities, Entity
<1>6. Filter(entities, S) = <<>> <=> \A i \in DOMAIN entities : entities[i] \notin S
  BY <1>1, FilterNothing
<1>7. ToSet(Filter(entities, S)) \subseteq S
  <2>1. Filter(entities, S) \in Seq(Entity \cap S)
    BY <1>1, FilterType
  <2> QED
    BY <2>1 DEF ToSet
<1> QED
  BY <1>3, <1>4, <1>5, <1>6, <1>7 DEF mapping

\* A mapping on one intent, for no loop, applies exactly to messages with it.
LEMMA AppliesToIntent ==
  ASSUME NEW intent
  PROVE  AppliesTo(intent) <=> latest.intent = intent
<1> DEFINE m == Mapping(Only(intent), Anything, {})
<1>1. /\ to_list(m.intent) = {intent} /\ to_list(m.not_intent) = {}
      /\ m.conditions = {}
  BY DEF Mapping, Only, Anything, to_list
<1> HIDE DEF m
<1>2. intent_is_desired(m, latest, State(FALSE), forms) <=> latest.intent \in {intent}
  BY <1>1 DEF intent_is_desired, _get_ignored_intents, LatestIntent
<1> QED
  BY <1>2 DEF AppliesTo, m

\* What a mapping and an action read of one message, for every message.
LEMMA ReadsAlike == TypeOK => MessageIsReadAlike
<1> SUFFICES ASSUME TypeOK PROVE MessageIsReadAlike
  OBVIOUS
<1> DEFINE ranking == latest.intent_ranking
<1>1. ranking \in Seq(STRING) /\ IsInjective(ranking)
  BY LatestType
<1>2. Len(ranking) >= 2 => ranking[1] # ranking[2]
  <2>1. Len(ranking) >= 2 => 1 \in DOMAIN ranking /\ 2 \in DOMAIN ranking
    BY <1>1
  <2> QED
    BY <1>1, <2>1 DEF IsInjective
<1>3. ASSUME NEW skip \in BOOLEAN
      PROVE  LET intent == get_intent_of_latest_message(latest, skip) IN
               /\ ranking = <<>> => intent = "none"
               /\ ranking # <<>> /\ ~(ranking[1] = NLU_FALLBACK_INTENT_NAME /\ skip)
                    => intent = ranking[1]
               /\ ranking # <<>> /\ ranking[1] = NLU_FALLBACK_INTENT_NAME /\ skip
                    => intent = "none" \/ (intent # ranking[1] /\ intent = ranking[2])
  <2> HIDE DEF ranking
  <2>1. latest.intent_ranking = ranking
    BY DEF ranking
  <2> QED
    BY <1>2, <2>1 DEF get_intent_of_latest_message
<1>4. get_intent_of_latest_message(latest, TRUE) # NLU_FALLBACK_INTENT_NAME
  BY <1>3 DEF NLU_FALLBACK_INTENT_NAME
<1>5. ASSUME NEW k \in Labels, NEW l \in Labels, k # l
      PROVE  ToSet(Found(k)) \cap ToSet(Found(l)) = {}
  <2>1. k[1] # l[1] \/ k[2] # l[2]
    BY <1>5 DEF Labels
  <2>2. /\ \A e \in ToSet(Found(k)) : e.role = k[1] /\ e.group = k[2]
        /\ \A e \in ToSet(Found(l)) : e.role = l[1] /\ e.group = l[2]
    BY FoundByLabels
  <2> QED
    BY <2>1, <2>2
<1>6. ASSUME NEW skip \in BOOLEAN
      PROVE  LET intent == get_intent_of_latest_message(latest, skip) IN
               (intent # "none" /\ ranking[1] = latest.intent) =>
                 (AppliesTo(intent) <=> ~(skip /\ latest.intent = NLU_FALLBACK_INTENT_NAME))
  <2> DEFINE intent == get_intent_of_latest_message(latest, skip)
  <2> HIDE DEF intent, ranking
  <2>1. AppliesTo(intent) <=> latest.intent = intent
    BY AppliesToIntent
  <2> QED
    BY <1>3, <2>1 DEF intent
<1> QED
  BY <1>4, <1>5, <1>6, FoundByLabels DEF MessageIsReadAlike

\* Whatever the assistant makes of a message, also one with an intent and no
\* ranking or one whose ranking another intent heads: a mapping and an action find
\* the same entities, each under its own labels only, and agree on the intent if it
\* is the first ranked (slots.py:167-171, 187-201; interfaces.py:138-145, 305-333).
THEOREM MessageIsReadAlikeHolds == Spec => []MessageIsReadAlike
BY TypeCorrect, ReadsAlike, PTL

\* The same for the conditions of a mapping, before and after a form is removed.
LEMMA ConditionsFollowed == TypeOK => MappingsFollowConditions
<1> SUFFICES ASSUME TypeOK PROVE MappingsFollowConditions
  OBVIOUS
<1>1. loop \in Forms \cup {"none", "should_not_be_set"} /\ loop # "absent"
      /\ "none" \notin Forms /\ "should_not_be_set" \notin Forms
  BY FormsAssumption DEF TypeOK
<1>2. /\ State(FALSE).active_loop = loop /\ State(FALSE).active_form = "absent"
      /\ State(TRUE).active_loop = "absent" /\ State(TRUE).active_form = loop
  BY DEF State
<1> DEFINE name == active_loop_name(State(FALSE))
<1>3. /\ name = active_loop_name(State(TRUE))
      /\ loop \in Forms => name = loop
      /\ loop \notin Forms => name = "none"
  BY <1>1, <1>2 DEF active_loop_name, LoopOfState
<1>4. ASSUME NEW intent \in IntentConditions, NEW not_intent \in IntentConditions,
             NEW loops \in SUBSET Forms
      PROVE  LET mapping == Mapping(intent, not_intent, loops)
                 fails   == loop \in loops \ DOMAIN forms
             IN  /\ Raises(mapping, State(FALSE), forms) <=> fails
                 /\ ~fails =>
                      (intent_is_desired(mapping, latest, State(FALSE), forms)
                         <=> \/ ConditionsHold(mapping)
                             \/ Listed(mapping, LatestIntent(latest)))
  <2> DEFINE m == Mapping(intent, not_intent, loops)
             i == LatestIntent(latest)
  <2>1. m.intent = intent /\ m.not_intent = not_intent /\ m.conditions = loops
    BY DEF Mapping
  <2>2. intent.kind = "none" => intent.intents = {}
    BY DEF IntentConditions
  <2> HIDE DEF m, i, name
  <2>3. Raises(m, State(FALSE), forms) <=>
          loop \in loops /\ loop \notin DOMAIN forms
    BY <1>1, <1>3, <2>1 DEF Raises, name
  <2>4. ASSUME ~Raises(m, State(FALSE), forms)
        PROVE  _get_ignored_intents(m, State(FALSE), forms) =
                 IF loop \in loops THEN forms[loop] ELSE {}
    BY <1>1, <1>3, <2>1 DEF _get_ignored_intents, name
  <2>5. ASSUME ~Raises(m, State(FALSE), forms)
        PROVE  intent_is_desired(m, latest, State(FALSE), forms)
                 <=> ConditionsHold(m) \/ Listed(m, i)
    <3>1. intent_is_desired(m, latest, State(FALSE), forms)
            <=> \/ /\ to_list(intent) = {} /\ i \notin to_list(not_intent)
                   /\ i \notin (IF loop \in loops THEN forms[loop] ELSE {})
                \/ i \in to_list(intent)
      BY <2>1, <2>4, <2>5 DEF intent_is_desired, i
    <3>2. ConditionsHold(m)
            <=> /\ intent.kind # "none" /\ intent.intents # {} => i \in to_list(intent)
                /\ i \notin to_list(not_intent)
                /\ loop \in loops => i \notin forms[loop]
      BY <2>1 DEF ConditionsHold, Listed, i
    <3> QED
      BY <2>1, <2>2, <3>1, <3>2 DEF Listed, to_list
  <2> QED
    BY <2>3, <2>5 DEF m, i
<1> QED
  BY <1>3, <1>4 DEF MappingsFollowConditions

\* A mapping applies exactly under its conditions, for every intent it may name,
\* every form it may be restricted to and every domain.
THEOREM MappingsFollowConditionsHolds == Spec => []MappingsFollowConditions
BY TypeCorrect, ConditionsFollowed, PTL

-----------------------------------------------------------------------------
(* The actions that ran.                                                   *)

\* Inductive: what is in effect has been told since the last restart.
SinceInv ==
  \A p \in DOMAIN now :
    \E q \in DOMAIN events : q > idx_after_latest_restart(events) /\ events[q] = now[p]

\* Where the last restart is, in a list that has grown by an event.
LEMMA RestartAppend ==
  ASSUME NEW T, NEW es \in Seq(T), NEW e \in T
  PROVE  /\ idx_after_latest_restart(Append(es, e)) =
              IF e.event = "restart" THEN Len(es) + 1 ELSE idx_after_latest_restart(es)
         /\ idx_after_latest_restart(es) \in 0 .. Len(es)
<1> DEFINE t == Append(es, e)
           O == {0} \cup Occurrences(es, "restart")
           P == {0} \cup Occurrences(t, "restart")
<1>1. /\ Len(es) \in Nat /\ DOMAIN es = 1 .. Len(es) /\ DOMAIN t = 1 .. Len(es) + 1
      /\ t[Len(es) + 1] = e /\ \A i \in DOMAIN es : t[i] = es[i] /\ i \in DOMAIN t
      /\ \A i \in DOMAIN t : i = Len(es) + 1 \/ i \in DOMAIN es
      /\ \A i \in DOMAIN es : i \in Nat /\ i <= Len(es)
  OBVIOUS
<1> HIDE DEF t
<1>2. O \subseteq 0 .. Len(es) /\ O # {} /\ P \subseteq 0 .. Len(es) + 1 /\ P \subseteq Nat
  BY <1>1 DEF Occurrences
<1>3. Max(O) \in O /\ idx_after_latest_restart(es) = Max(O)
      /\ idx_after_latest_restart(t) = Max(P)
  <2>1. idx_after_latest_restart(es) = Max(O) /\ idx_after_latest_restart(t) = Max(P)
    BY DEF idx_after_latest_restart
  <2> HIDE DEF O
  <2>2. Max(O) \in O
    BY <1>1, <1>2, LastPosition
  <2> QED
    BY <2>1, <2>2
<1>4. CASE e.event = "restart"
  <2>1. Len(es) + 1 \in P /\ \A i \in P : i <= Len(es) + 1
    BY <1>1, <1>2, <1>4 DEF Occurrences
  <2>2. Max(P) = Len(es) + 1
    <3> HIDE DEF P
    <3> QED
      BY <1>2, <2>1, MaxIs
  <2> HIDE DEF O, P
  <2> QED
    BY <1>2, <1>3, <1>4, <2>2 DEF t
<1>5. CASE e.event # "restart"
  <2>1. P = O
    BY <1>1, <1>5 DEF Occurrences
  <2> HIDE DEF O, P
  <2> QED
    BY <1>2, <1>3, <1>5, <2>1 DEF t
<1> QED
  BY <1>4, <1>5

\* Every step keeps what is in effect after the last restart.
LEMMA SinceInvStep == TypeOK /\ SnapInv /\ SinceInv /\ [Next]_vars => SinceInv'
<1> SUFFICES ASSUME TypeOK, SnapInv, SinceInv, [Next]_vars PROVE SinceInv'
  OBVIOUS
<1>1. CASE UNCHANGED <<events, now, saved, turn, spoken>>
  BY <1>1 DEF SinceInv
<1>2. ASSUME NEW e \in Events, Telling(e) PROVE SinceInv'
  <2>1. /\ now' = Apply(now, e) /\ now \in Seq(Events) /\ DOMAIN now = 1 .. Len(now)
        /\ Len(now) \in Nat
    BY <1>2, TellAppends, ToldKeeps DEF SnapInv
  <2> DEFINE from == idx_after_latest_restart(events)
  <2>2. /\ idx_after_latest_restart(events') =
             IF e.event = "restart" THEN Len(events) + 1 ELSE from
        /\ from \in 0 .. Len(events)
    <3>1. events \in Seq(Events) /\ events' = Append(events, e)
      BY <1>2, TellAppends
    <3>2. /\ idx_after_latest_restart(Append(events, e)) =
               IF e.event = "restart" THEN Len(events) + 1
               ELSE idx_after_latest_restart(events)
          /\ idx_after_latest_restart(events) \in 0 .. Len(events)
      BY <3>1, RestartAppend
    <3> QED
      BY <3>1, <3>2 DEF from
  <2> HIDE DEF from
  <2>3. CASE e.event = "restart"
    <3>1. now' = <<>>
      BY <2>1, <2>3 DEF Apply
    <3> QED
      BY <3>1 DEF SinceInv
  <2>4. CASE e.event # "restart"
    <3>1. ASSUME NEW p \in DOMAIN now', p \in DOMAIN now, now'[p] = now[p]
          PROVE  \E q \in DOMAIN events' :
                   q > idx_after_latest_restart(events') /\ events'[q] = now'[p]
      <4>1. PICK q \in DOMAIN events : q > from /\ events[q] = now[p]
        BY <3>1 DEF SinceInv, from
      <4>2. q \in DOMAIN events' /\ events'[q] = now'[p]
        BY <1>2, <3>1, <4>1, TellAppends
      <4> QED
        BY <2>2, <2>4, <4>1, <4>2
    <3>2. CASE Apply(now, e) = Append(now, e)
      <4>1. ASSUME NEW p \in DOMAIN now', p = Len(now) + 1
            PROVE  \E q \in DOMAIN events' :
                     q > idx_after_latest_restart(events') /\ events'[q] = now'[p]
        <5>1. /\ Len(events') \in DOMAIN events' /\ events'[Len(events')] = e
              /\ Len(events') > from
          BY <1>2, <2>2, TellAppends
        <5>2. now'[p] = e
          BY <2>1, <3>2, <4>1
        <5> QED
          BY <2>2, <2>4, <5>1, <5>2
      <4>2. \A p \in DOMAIN now' :
              p = Len(now) + 1 \/ (p \in DOMAIN now /\ now'[p] = now[p])
        BY <2>1, <3>2
      <4> QED
        BY <3>1, <4>1, <4>2 DEF SinceInv
    <3>3. CASE \A p \in DOMAIN Apply(now, e) : p \in DOMAIN now /\ Apply(now, e)[p] = now[p]
      BY <2>1, <3>1, <3>3 DEF SinceInv
    <3> QED
      BY <2>1, <3>2, <3>3, ApplyIsPrefix
  <2> QED
    BY <2>3, <2>4
<1> QED
  BY <1>1, <1>2, StepTells

\* The last member of a list but for k, the way get_last_event_for takes it.
LastBut(g, k) == SubSeq(Reverse(g), k + 1, Min({k + 1, Len(Reverse(g))}))

\* It is the member that far from the end, if the list is long enough.
LEMMA FromTheEnd ==
  ASSUME NEW T, NEW g \in Seq(T), NEW k \in Nat
  PROVE  /\ k < Len(g) => LastBut(g, k) # <<>> /\ LastBut(g, k)[1] = g[Len(g) - k]
         /\ k >= Len(g) => LastBut(g, k) = <<>>
<1> DEFINE r == Reverse(g)
           last == LastBut(g, k)
<1>1. /\ Len(g) \in Nat /\ r \in Seq(T) /\ Len(r) = Len(g)
      /\ \A i \in 1 .. Len(g) : r[i] = g[(Len(g) - i) + 1]
  <2>1. r = [i \in 1 .. Len(g) |-> g[(Len(g) - i) + 1]]
    BY DEF Reverse
  <2>2. \A i \in 1 .. Len(g) : g[(Len(g) - i) + 1] \in T
    <3> SUFFICES ASSUME NEW i \in 1 .. Len(g) PROVE g[(Len(g) - i) + 1] \in T
      OBVIOUS
    <3>1. (Len(g) - i) + 1 \in 1 .. Len(g)
      OBVIOUS
    <3> QED
      BY <3>1
  <2> HIDE DEF r
  <2> QED
    BY <2>1, <2>2
<1> HIDE DEF r
<1> DEFINE IsMin(x) == x \in {k + 1, Len(g)} /\ \A y \in {k + 1, Len(g)} : x <= y
           m == Min({k + 1, Len(g)})
<1>2. m = CHOOSE x : IsMin(x)
  BY DEF Min
<1>3. last = SubSeq(r, k + 1, m)
  <2>1. last = SubSeq(r, k + 1, Min({k + 1, Len(r)}))
    BY DEF r, LastBut
  <2> QED
    BY <1>1, <2>1
<1> HIDE DEF last
<1>4. PICK j \in Nat : j = k + 1
  OBVIOUS
<1>5. PICK n \in Nat : n = Len(g)
  BY <1>1
<1>6. last = SubSeq(r, j, m)
  BY <1>3, <1>4
<1>7. ASSUME k < Len(g) PROVE last # <<>> /\ last[1] = g[Len(g) - k]
  <2>1. IsMin(k + 1) /\ \A x : IsMin(x) => x = k + 1
    BY <1>1, <1>7
  <2> HIDE DEF IsMin
  <2>2. m = j
    BY <1>2, <1>4, <2>1
  <2> HIDE DEF m
  <2>3. last = SubSeq(r, j, j) /\ j \in 1 .. Len(r)
    BY <1>1, <1>4, <1>6, <1>7, <2>2
  <2>4. last # <<>> /\ last[1] = r[j]
    <3>1. Len(last) = 1 /\ last[1] = r[j] /\ Len(<<>>) = 0
      BY <1>1, <2>3
    <3> QED
      BY <3>1
  <2>5. (Len(g) - j) + 1 = Len(g) - k
    BY <1>1, <1>4
  <2>6. r[j] = g[(Len(g) - j) + 1]
    BY <1>1, <2>3
  <2> QED
    BY <2>4, <2>5, <2>6
<1>8. ASSUME k >= Len(g) PROVE last = <<>>
  <2>1. IsMin(n) /\ \A x : IsMin(x) => x = n
    BY <1>1, <1>5, <1>8
  <2> HIDE DEF IsMin
  <2>2. m = n
    BY <1>2, <2>1
  <2> HIDE DEF m
  <2>3. last = SubSeq(r, j, n) /\ n < j
    BY <1>1, <1>4, <1>5, <1>6, <1>8, <2>2
  <2> QED
    BY <1>1, <2>3
<1> QED
  BY <1>7, <1>8 DEF last

\* last_executed_action_has tells of the action that many actions ago.
LEMMA ActionsAgo ==
  ASSUME Applied \in Seq(Events), NEW name, NEW skip \in Nat
  PROVE  last_executed_action_has(events, name, skip)
           <=> \E i \in RunSince(skip) : Applied[i].name = name
<1> DEFINE S == {e \in ToSet(Applied) :
                   e.event = "action" /\ ~(e.event = "action" /\ e.name \in {ACTION_LISTEN_NAME})}
           g == Filter(Applied, S)
           last == get_last_event_for(events, "action", {ACTION_LISTEN_NAME}, skip)
<1>1. PICK s : s = Applied
  OBVIOUS
<1>2. /\ s \in Seq(Events) /\ Len(s) \in Nat /\ DOMAIN s = 1 .. Len(s)
      /\ \A i \in DOMAIN s :
           s[i] \in S <=> s[i].event = "action" /\ s[i].name # ACTION_LISTEN_NAME
  BY <1>1 DEF ToSet
<1>3. g \in Seq(Events) /\ Keeps(g, s, S, Len(s))
  <2> HIDE DEF S
  <2>1. Filter(s, S) \in Seq(Events \cap S)
    BY <1>2, FilterType
  <2>2. Keeps(Filter(s, S), s, S, Len(s))
    BY <1>2, FilterKeeps
  <2> QED
    BY <1>1, <2>1, <2>2
<1>4. last = LastBut(g, skip)
  BY DEF get_last_event_for, Applied, LastBut
<1>5. last_executed_action_has(events, name, skip) <=> last # <<>> /\ last[1].name = name
  BY DEF last_executed_action_has
<1>6. \A i : i \in RunSince(skip)
               <=> /\ i \in 1 .. Len(s) /\ s[i] \in S
                   /\ Cardinality(Later(s, S, i, Len(s))) = skip
  <2> SUFFICES ASSUME NEW i \in 1 .. Len(s)
               PROVE  i \in RunSince(skip)
                        <=> s[i] \in S /\ Cardinality(Later(s, S, i, Len(s))) = skip
    BY <1>1, <1>2 DEF RunSince
  <2> DEFINE ran == {j \in DOMAIN s : s[j].event = "action" /\ s[j].name # ACTION_LISTEN_NAME}
  <2>1. \A j : j \in ran <=> j \in 1 .. Len(s) /\ s[j] \in S
    <3> HIDE DEF S
    <3> QED
      BY <1>2
  <2>2. i \in RunSince(skip) <=> i \in ran /\ Cardinality({j \in ran : j > i}) = skip
    BY <1>1 DEF RunSince
  <2> HIDE DEF S, ran
  <2>3. {j \in ran : j > i} = Later(s, S, i, Len(s))
    BY <1>2, <2>1 DEF Later
  <2> QED
    BY <2>1, <2>2, <2>3
<1> HIDE DEF S, g, last
<1>7. /\ Len(g) \in Nat
      /\ skip < Len(g) => last # <<>> /\ last[1] = g[Len(g) - skip]
      /\ skip >= Len(g) => last = <<>>
  <2>1. Len(g) \in Nat
    BY <1>3
  <2>2. /\ skip < Len(g) => last # <<>> /\ last[1] = g[Len(g) - skip]
        /\ skip >= Len(g) => last = <<>>
    <3>1. g \in Seq(Events)
      BY <1>3
    <3>2. /\ skip < Len(g) => LastBut(g, skip) # <<>> /\ LastBut(g, skip)[1] = g[Len(g) - skip]
          /\ skip >= Len(g) => LastBut(g, skip) = <<>>
      BY <3>1, FromTheEnd
    <3> QED
      BY <1>4, <3>2
  <2> QED
    BY <2>1, <2>2
<1>8. ASSUME last # <<>>, last[1].name = name
      PROVE  \E i \in RunSince(skip) : Applied[i].name = name
  <2>1. skip \in 0 .. Len(g) - 1 /\ last[1] = g[Len(g) - skip]
    BY <1>7, <1>8
  <2>2. PICK i \in 1 .. Len(s) : s[i] \in S /\ Cardinality(Later(s, S, i, Len(s))) = skip
    BY <1>3, <2>1 DEF Keeps
  <2>3. g[Len(g) - skip] = s[i]
    BY <1>3, <2>2 DEF Keeps
  <2> QED
    BY <1>1, <1>6, <1>8, <2>1, <2>2, <2>3
<1>9. ASSUME NEW i \in RunSince(skip), Applied[i].name = name
      PROVE  last # <<>> /\ last[1].name = name
  <2>1. /\ i \in 1 .. Len(s) /\ s[i] \in S /\ s[i].name = name
        /\ Cardinality(Later(s, S, i, Len(s))) = skip
    BY <1>1, <1>6, <1>9
  <2>2. skip \in 0 .. Len(g) - 1 /\ g[Len(g) - skip] = s[i]
    BY <1>3, <2>1 DEF Keeps
  <2> QED
    BY <1>7, <2>1, <2>2
<1> QED
  BY <1>5, <1>8, <1>9

\* What an action reads of the actions before it is what ran, and none of it is
\* from before the last restart.
THEOREM LastActionIsToldHolds == Spec => []LastActionIsTold
<1>1. Init => SinceInv
  BY DEF Init, Beginning, SinceInv
<1>2. TypeOK /\ SnapInv /\ SinceInv /\ ReplayIsTimeTravel => LastActionIsTold
  <2> SUFFICES ASSUME TypeOK, SnapInv, SinceInv, ReplayIsTimeTravel PROVE LastActionIsTold
    OBVIOUS
  <2>1. Applied = now /\ now \in Seq(Events)
    BY DEF ReplayIsTimeTravel, SnapInv
  <2>2. \A skip \in 0 .. 1 :
          LET ran == {Applied[i].name : i \in RunSince(skip)} IN
            \A name \in Actions \cup {ACTION_LISTEN_NAME} :
              last_executed_action_has(events, name, skip) <=> name \in ran
    BY <2>1, ActionsAgo
  <2> DEFINE from == idx_after_latest_restart(events)
  <2>3. events \in Seq(Events) /\ Len(events) \in Nat /\ DOMAIN events = 1 .. Len(events)
    BY DEF TypeOK
  <2>4. from \in 0 .. Len(events)
    <3>1. CASE Events = {}
      <4>1. events = <<>>
        BY <2>3, <3>1
      <4>2. {0} \cup Occurrences(events, "restart") = {0}
        BY <4>1 DEF Occurrences
      <4>3. Max({0}) = 0
        <5>1. 0 \in {0} /\ {0} \in SUBSET Nat /\ \A x \in {0} : x <= 0
          OBVIOUS
        <5> QED
          BY <5>1, MaxIs
      <4>4. from = 0
        BY <4>2, <4>3 DEF idx_after_latest_restart
      <4> QED
        BY <2>3, <4>4
    <3>2. CASE Events # {}
      BY <2>3, <3>2, RestartAppend
    <3> QED
      BY <3>1, <3>2
  <2>5. ASSUME NEW p \in DOMAIN now
        PROVE  now[p] \in ToSet(events_after_latest_restart(events))
    <3>1. PICK q \in DOMAIN events : q > from /\ events[q] = now[p]
      BY DEF SinceInv
    <3> DEFINE after == SubSeq(events, from + 1, Len(events))
    <3> HIDE DEF from
    <3>2. q - from \in DOMAIN after /\ after[q - from] = events[q]
      <4>1. after = [i \in 1 .. Len(events) - from |-> events[(i + (from + 1)) - 1]]
        <5>1. PICK j \in Nat : j = from + 1
          BY <2>4
        <5>2. PICK n \in Nat : n = Len(events)
          BY <2>3
        <5>3. SubSeq(events, j, n) = [i \in 1 .. (1 + n) - j |-> events[(i + j) - 1]]
          BY <2>3
        <5>4. (1 + n) - j = Len(events) - from
          BY <2>3, <2>4, <5>1, <5>2
        <5> QED
          BY <5>1, <5>2, <5>3, <5>4
      <4>2. q - from \in 1 .. Len(events) - from /\ ((q - from) + (from + 1)) - 1 = q
        BY <2>3, <2>4, <3>1
      <4> QED
        BY <4>1, <4>2
    <3>3. events_after_latest_restart(events) = after
      BY DEF events_after_latest_restart, from
    <3> HIDE DEF after
    <3> QED
      BY <3>1, <3>2, <3>3 DEF ToSet
  <2>6. ToSet(Applied) \subseteq ToSet(events_after_latest_restart(events))
    BY <2>1, <2>5 DEF ToSet
  <2> QED
    BY <2>2, <2>6 DEF LastActionIsTold
<1> QED
  BY <1>1, <1>2, TypeInit, TypeStep, SinceInvStep, ReplayIsTimeTravelHolds, PTL DEF Spec

=============================================================================
