---------------------------- MODULE StudioProofs ----------------------------
(***************************************************************************)
(* The graphs of the Operations Center are sound (GraphInv), for any       *)
(* drawings and bounds.  In the order of the module: ReachedFrom is the    *)
(* least set that is closed under the edges (ReachedIs); the depth-first   *)
(* search finds a cycle exactly when an edge leads back to where it came   *)
(* from, by induction on the depth of its visits (CycleFound); Kahn's      *)
(* order puts every stage after those that lead to it, once, and starts    *)
(* with the entry, by an invariant of the loop (Lined, OrderStands,        *)
(* PlanRuns); the edges of a normalised graph join its stages by ports     *)
(* that fit (NormalizedIs), so that the resources of an agent graph reach  *)
(* the agent (AgentIsFed); and the graph made for an agent passes          *)
(* (DefaultNormal, DefaultPasses).  Along the steps of the studio, what is *)
(* stored was defined by the same drawing with some of its palette's       *)
(* edges (GraphIInv), and so has those properties (GraphsStand).           *)
(***************************************************************************)
EXTENDS StudioGraph, FoldTheorems, SequenceTheorems

\* What holds at 0 and passes from each number to the next holds up to n.
LEMMA UpTo ==
    ASSUME NEW n \in Nat, NEW T, 0 \in T, \A i \in 1 .. n : i - 1 \in T => i \in T
    PROVE  n \in T
<1> DEFINE same == [i \in 0 .. n |-> IF i \in T THEN 1 ELSE 0]
           W == {1}
<1>1. same[0] \in W
  OBVIOUS
<1>2. ASSUME NEW i \in 1 .. n, same[i - 1] \in W PROVE same[i] \in W
  <2>1. i \in 0 .. n /\ i - 1 \in 0 .. n
    OBVIOUS
  <2> QED BY <2>1, <1>2
<1>3. \A i \in 0 .. n : same[i] \in W
  <2> HIDE DEF same, W
  <2> QED BY <1>1, <1>2, StaysAlong
<1>4. n \in 0 .. n
  OBVIOUS
<1> QED BY <1>3, <1>4

-----------------------------------------------------------------------------
(* What a stage leads to *)

\* Every edge joins stages.
Joins(edges, ids) == \A e \in ToSet(edges) : e.from \in ids /\ e.to \in ids

\* No edge leaves the set.
Closed(edges, C) == \A e \in ToSet(edges) : e.from \in C => e.to \in C

Nearer(edges, near) == near \cup {e.to : e \in {f \in ToSet(edges) : f.from \in near}}

\* The stages reached from one are the least set that has it and that no edge leaves: each
\* round adds a stage or changes nothing any more, and there are as many rounds as stages.
LEMMA ReachedIs ==
    ASSUME NEW edges, NEW ids, IsFiniteSet(ids), Joins(edges, ids), NEW start \in ids
    PROVE  LET R == ReachedFrom(edges, start, ids)
           IN  /\ R \subseteq ids /\ start \in R /\ Closed(edges, R)
               /\ \A C : start \in C /\ Closed(edges, C) => R \subseteq C
<1> DEFINE W == SUBSET ids
           c == [s \in SUBSET ids |-> CHOOSE x \in s : TRUE]
           G == [s \in SUBSET ids |-> [near \in W |-> Nearer(edges, near)]]
           Table(h) == h = [s \in SUBSET ids |->
                               IF s = {} THEN {start}
                               ELSE Nearer(edges, h[s \ {CHOOSE x \in s : TRUE}])]
<1>1. \A near \in W : Nearer(edges, near) \in W /\ near \subseteq Nearer(edges, near)
  BY DEF Nearer, Joins
<1>2. \A s \in SUBSET ids : s # {} => (CHOOSE x \in s : TRUE) \in s
  OBVIOUS
<1>3. PICK g \in [SUBSET ids -> W] : Recursive(g, ids, {start}, G, c)
  <2>1. Steps(ids, W, {start}, G, c)
    <3>1. G \in [SUBSET ids -> [W -> W]]
      BY <1>1
    <3>2. \A s \in SUBSET ids : s # {} => c[s] \in s
      BY <1>2
    <3> HIDE DEF G, c
    <3> QED BY <3>1, <3>2 DEF Steps
  <2> HIDE DEF W, G, c
  <2> QED BY <2>1, Recursion
<1>4. Table(g)
  <2>1. \A s \in SUBSET ids : s # {} => g[s \ {CHOOSE x \in s : TRUE}] \in W
    OBVIOUS
  <2>2. \A s \in SUBSET ids : g[s] = IF s = {} THEN {start}
                                     ELSE Nearer(edges, g[s \ {CHOOSE x \in s : TRUE}])
    BY <1>3, <2>1 DEF Recursive
  <2> QED BY <2>2
<1>5. PICK h : h = (CHOOSE f : Table(f)) /\ Table(h)
  <2> HIDE DEF Table
  <2> QED BY <1>4
<1>6. ReachedFrom(edges, start, ids) = h[ids]
  BY <1>5 DEF ReachedFrom, FoldSet, MapThenFoldSet, Nearer
<1>7. h[{}] = {start} /\ \A s \in SUBSET ids : s # {} =>
          \E x \in s : h[s] = Nearer(edges, h[s \ {x}])
  <2>1. {} \in SUBSET ids
    OBVIOUS
  <2> QED BY <2>1, <1>5, <1>2
<1> HIDE DEF Table
\* what is reached: stages, and as many as there were rounds unless nothing is missing
<1> DEFINE Size(s) == Cardinality(s)
           Grown(s) == h[s] \in W /\ start \in h[s]
                       /\ (Closed(edges, h[s]) \/ Cardinality(h[s]) > Cardinality(s))
           Least(s) == \A C : start \in C /\ Closed(edges, C) => h[s] \subseteq C
           k == [s \in SUBSET ids |-> IF Grown(s) /\ Least(s) THEN 1 ELSE 0]
<1>8. k[{}] \in {1}
  <2>1. Cardinality({start}) = 1 /\ Cardinality({}) = 0
    BY FS_Singleton, FS_EmptySet
  <2>2. Grown({}) /\ Least({})
    BY <1>7, <2>1
  <2> HIDE DEF Grown, Least
  <2> QED BY <2>2
<1>9. ASSUME NEW s \in SUBSET ids, s # {}
      PROVE  \E x \in s : k[s \ {x}] \in {1} => k[s] \in {1}
  <2>1. PICK x \in s : h[s] = Nearer(edges, h[s \ {x}])
    BY <1>7, <1>9
  <2>2. ASSUME k[s \ {x}] \in {1} PROVE k[s] \in {1}
    <3> DEFINE r == s \ {x}
    <3>1. Grown(r) /\ Least(r)
      <4>1. r \in SUBSET ids /\ k[r] \in {1}
        BY <2>2
      <4> HIDE DEF Grown, Least, r
      <4> QED BY <4>1
    <3>2. h[s] \in W /\ start \in h[s]
      <4>1. h[r] \in W /\ start \in h[r] /\ h[s] = Nearer(edges, h[r])
        BY <3>1, <2>1
      <4> HIDE DEF r, W
      <4> QED BY <4>1, <1>1
    <3>3. Least(s)
      BY <3>1, <2>1 DEF Nearer, Closed
    <3>4. Closed(edges, h[s]) \/ Cardinality(h[s]) > Cardinality(s)
      <4>1. CASE Closed(edges, h[r])
        <5>1. h[s] = h[r]
          BY <4>1, <2>1 DEF Nearer, Closed
        <5> QED BY <5>1, <4>1
      <4>2. CASE ~Closed(edges, h[r])
        <5>1. Cardinality(h[r]) > Cardinality(r)
          BY <4>2, <3>1
        <5>2. PICK y \in h[s] : y \notin h[r]
          BY <4>2, <2>1 DEF Nearer, Closed
        <5>3. IsFiniteSet(s) /\ IsFiniteSet(h[s]) /\ IsFiniteSet(h[r])
          BY <3>1, <3>2, FS_Subset
        <5>4. Cardinality(r) = Cardinality(s) - 1 /\ Cardinality(s) \in Nat
          BY <5>3, FS_RemoveElement, FS_CardinalityType
        <5>5. /\ h[r] \subseteq h[s] \ {y} /\ IsFiniteSet(h[s] \ {y})
              /\ Cardinality(h[s] \ {y}) = Cardinality(h[s]) - 1 /\ Cardinality(h[s]) \in Nat
          BY <5>2, <5>3, <2>1, FS_RemoveElement, FS_CardinalityType DEF Nearer
        <5>6. Cardinality(h[r]) <= Cardinality(h[s] \ {y}) /\ Cardinality(h[r]) \in Nat
          BY <5>5, FS_Subset, FS_CardinalityType
        <5> QED BY <5>1, <5>4, <5>5, <5>6
      <4> QED BY <4>1, <4>2
    <3>5. Grown(s)
      BY <3>2, <3>4
    <3> HIDE DEF Grown, Least
    <3> QED BY <3>3, <3>5
  <2> QED BY <2>2
<1>10. k[ids] \in {1}
  <2> DEFINE V == {1}
  <2>1. k[{}] \in V
    BY <1>8
  <2>2. \A s \in SUBSET ids : s # {} => \E x \in s : k[s \ {x}] \in V => k[s] \in V
    BY <1>9
  <2> HIDE DEF k, V
  <2>3. k[ids] \in V
    BY <2>1, <2>2, StaysIn
  <2> QED BY <2>3 DEF V
<1>11. Grown(ids) /\ Least(ids)
  BY <1>10
<1>12. Closed(edges, h[ids])
  <2>1. Cardinality(h[ids]) <= Cardinality(ids) /\ Cardinality(ids) \in Nat /\ Cardinality(h[ids]) \in Nat
    BY <1>11, FS_Subset, FS_CardinalityType
  <2> QED BY <1>11, <2>1
<1> QED BY <1>6, <1>11, <1>12

-----------------------------------------------------------------------------
(* The search for cycles *)

SearchIn(ids, below) == below \in [Search(ids) \X ids -> Search(ids)]

\* The table of the loop over the edges that leave n.
BelowTable(edges, ids, below, n) ==
    [p \in Search(ids) \X ToSet(edges) |->
        IF p[2].from = n THEN below[<<p[1], p[2].to>>] ELSE p[1]]

\* Its values are states of the search.
LEMMA BelowTableIs ==
    ASSUME NEW edges, NEW ids, Joins(edges, ids), NEW below, SearchIn(ids, below), NEW n
    PROVE  LET T == BelowTable(edges, ids, below, n)
           IN  /\ Folds(T, Search(ids), ToSet(edges))
               /\ \A v \in Search(ids), e \in ToSet(edges) :
                     /\ T[<<v, e>>] = IF e.from = n THEN below[<<v, e.to>>] ELSE v
                     /\ T[<<v, e>>] \in Search(ids)
<1> DEFINE T == BelowTable(edges, ids, below, n)
<1>1. \A v \in Search(ids), e \in ToSet(edges) :
          T[<<v, e>>] = IF e.from = n THEN below[<<v, e.to>>] ELSE v
  BY DEF BelowTable
<1>2. \A v \in Search(ids), e \in ToSet(edges) :
          (IF e.from = n THEN below[<<v, e.to>>] ELSE v) \in Search(ids)
  BY DEF Joins, SearchIn
<1>3. Folds(T, Search(ids), ToSet(edges))
  BY <1>2 DEF Folds, BelowTable
<1> QED BY <1>1, <1>2, <1>3

\* The loop is the fold of that table.
LEMMA BelowFold ==
    ASSUME NEW edges, edges \in Seq(ToSet(edges)), NEW ids, Joins(edges, ids),
           NEW below, SearchIn(ids, below), NEW n, NEW base \in Search(ids)
    PROVE  FoldLeft(LAMBDA s, e : IF e.from = n THEN below[<<s, e.to>>] ELSE s, base, edges) = Fold(BelowTable(edges, ids, below, n), base, edges)
<1> DEFINE S == DOMAIN edges
           W == Search(ids)
           T == BelowTable(edges, ids, below, n)
           A(h) == h = [s \in SUBSET S |-> IF s = {} THEN base
                                           ELSE IF edges[Max(s)].from = n THEN below[<<h[s \ {Max(s)}], edges[Max(s)].to>>] ELSE h[s \ {Max(s)}]]
           B(h) == h = [s \in SUBSET S |-> IF s = {} THEN base
                                           ELSE T[<<h[s \ {Max(s)}], edges[Max(s)]>>]]
<1>1. IsFiniteSet(S) /\ S = 1 .. Len(edges) /\ Len(edges) \in Nat
  BY FS_Interval
<1>2. \A s \in SUBSET S : s # {} => Max(s) \in s /\ edges[Max(s)] \in ToSet(edges)
  <2>1. \A s \in SUBSET S : s # {} => Max(s) \in s
    BY <1>1, GreatestIndex
  <2> QED BY <2>1
<1>3. \A v \in W, e \in ToSet(edges) : T[<<v, e>>] = (IF e.from = n THEN below[<<v, e.to>>] ELSE v) /\ T[<<v, e>>] \in W
  BY BelowTableIs
<1> HIDE DEF T
<1>4. ASSUME NEW h, A(h) \/ B(h) PROVE \A s \in SUBSET S : h[s] \in W
  <2>1. h[{}] \in W
    <3>1. {} \in SUBSET S
      OBVIOUS
    <3> QED BY <3>1, <1>4
  <2>2. ASSUME NEW s \in SUBSET S, s # {}
        PROVE  \E x \in s : h[s \ {x}] \in W => h[s] \in W
    <3>1. Max(s) \in s /\ edges[Max(s)] \in ToSet(edges)
      BY <1>2, <2>2
    <3>2. ASSUME h[s \ {Max(s)}] \in W PROVE h[s] \in W
      <4>1. \/ h[s] = IF edges[Max(s)].from = n THEN below[<<h[s \ {Max(s)}], edges[Max(s)].to>>] ELSE h[s \ {Max(s)}]
            \/ h[s] = T[<<h[s \ {Max(s)}], edges[Max(s)]>>]
        BY <1>4, <2>2
      <4> HIDE DEF W
      <4> QED BY <4>1, <3>1, <3>2, <1>3
    <3> QED BY <3>1, <3>2
  <2> HIDE DEF S, A, B, W
  <2> QED BY <1>1, <2>1, <2>2, TableStays
<1>5. ASSUME NEW h, \A s \in SUBSET S : h[s] \in W PROVE A(h) <=> B(h)
  <2>1. \A s \in SUBSET S : s # {} =>
            (IF edges[Max(s)].from = n THEN below[<<h[s \ {Max(s)}], edges[Max(s)].to>>] ELSE h[s \ {Max(s)}]) = T[<<h[s \ {Max(s)}], edges[Max(s)]>>]
    <3> TAKE s \in SUBSET S
    <3> HAVE s # {}
    <3>1. s \ {Max(s)} \in SUBSET S /\ edges[Max(s)] \in ToSet(edges)
      BY <1>2
    <3>2. h[s \ {Max(s)}] \in W
      BY <3>1, <1>5
    <3> HIDE DEF W
    <3> QED BY <3>1, <3>2, <1>3
  <2>2. [s \in SUBSET S |-> IF s = {} THEN base
                            ELSE IF edges[Max(s)].from = n THEN below[<<h[s \ {Max(s)}], edges[Max(s)].to>>] ELSE h[s \ {Max(s)}]]
        = [s \in SUBSET S |-> IF s = {} THEN base
                              ELSE T[<<h[s \ {Max(s)}], edges[Max(s)]>>]]
    BY <2>1
  <2> QED BY <2>2
<1>6. (CHOOSE h : A(h)) = (CHOOSE h : B(h))
  <2>1. \A h : A(h) <=> B(h)
    BY <1>4, <1>5
  <2> HIDE DEF A, B
  <2> QED BY <2>1
<1>7. FoldLeft(LAMBDA s, e : IF e.from = n THEN below[<<s, e.to>>] ELSE s, base, edges) = (CHOOSE h : A(h))[S]
  BY DEF FoldLeft, MapThenFoldSet
<1>8. Fold(BelowTable(edges, ids, below, n), base, edges) = (CHOOSE h : B(h))[S]
  BY DEF Fold, FoldLeft, MapThenFoldSet, T
<1> QED BY <1>6, <1>7, <1>8
With(ids, s, m) == {n \in ids : s.mark[n] = m}

\* Some edge is part of a cycle.
Back(edges, ids) == \E e \in ToSet(edges) : e.from \in ReachedFrom(edges, e.to, ids)

\* A finished stage leads to finished stages only, and is on no cycle.
Finished(edges, ids, s) ==
    \A e \in ToSet(edges) : s.mark[e.from] = 2 =>
        s.mark[e.to] = 2 /\ e.from \notin ReachedFrom(edges, e.to, ids)

Sane(edges, ids, s) ==
    s \in Search(ids) /\ (IF s.found THEN Back(edges, ids) ELSE Finished(edges, ids, s))

\* n is visited first of all, or by way of an edge from a stage to which the whole path leads.
OnPath(edges, ids, s, n) ==
    \/ With(ids, s, 1) = {}
    \/ \E e \in ToSet(edges) :
          e.to = n /\ s.mark[e.from] = 1
          /\ \A g \in With(ids, s, 1) : e.from \in ReachedFrom(edges, g, ids)

\* t comes of s by steps that leave the path as it was,
Kept(ids, s, t) ==
    ~t.found => ~s.found /\ With(ids, t, 1) = With(ids, s, 1)
                /\ With(ids, s, 2) \subseteq With(ids, t, 2)

\* and finish n.
Went(edges, ids, s, n, t) ==
    Sane(edges, ids, t) /\ Kept(ids, s, t) /\ (~t.found => t.mark[n] = 2)

MayVisit(edges, ids, s, n, depth) ==
    s.found \/ (OnPath(edges, ids, s, n) /\ Cardinality(With(ids, s, 0)) < depth)

\* What `below' does for visits of fewer untouched stages than `depth' is right.
VisitsWell(edges, ids, below, depth) ==
    /\ SearchIn(ids, below)
    /\ \A s \in Search(ids), n \in ids :
          Sane(edges, ids, s) /\ MayVisit(edges, ids, s, n, depth) =>
              Went(edges, ids, s, n, below[<<s, n>>])

\* Marking a stage.
LEMMA MarkIn ==
    ASSUME NEW ids, NEW s, s \in Search(ids), NEW n \in ids, NEW m, m \in {0, 1, 2},
           NEW t, t = [s EXCEPT !.mark[n] = m]
    PROVE  /\ t \in Search(ids) /\ t.found = s.found /\ t.mark[n] = m
           /\ \A x \in ids : x # n => t.mark[x] = s.mark[x]
<1>1. s.mark \in [ids -> 0 .. 2] /\ s.found \in BOOLEAN /\ s = [found |-> s.found, mark |-> s.mark]
  BY DEF Search
<1>2. [s.mark EXCEPT ![n] = m] \in [ids -> 0 .. 2]
  BY <1>1
<1>3. [s EXCEPT !.mark[n] = m] = [found |-> s.found, mark |-> [s.mark EXCEPT ![n] = m]]
  BY <1>1
<1> QED BY <1>1, <1>2, <1>3 DEF Search

\* A visit leaves a state of the search.
LEMMA VisitIn ==
    ASSUME NEW edges, edges \in Seq(ToSet(edges)), NEW ids, Joins(edges, ids),
           NEW below, SearchIn(ids, below), NEW s \in Search(ids), NEW n \in ids
    PROVE  Visit(edges, below, s, n) \in Search(ids)
<1> DEFINE a == [s EXCEPT !.mark[n] = 1]
           after == FoldLeft(LAMBDA v, e : IF e.from = n THEN below[<<v, e.to>>] ELSE v, a, edges)
<1>0. 1 \in {0, 1, 2} /\ 2 \in {0, 1, 2}
  OBVIOUS
<1>1. a \in Search(ids)
  BY <1>0, MarkIn
<1>2. after \in Search(ids)
  <2> HIDE DEF a
  <2>1. after = Fold(BelowTable(edges, ids, below, n), a, edges)
    BY <1>1, BelowFold
  <2>2. Folds(BelowTable(edges, ids, below, n), Search(ids), ToSet(edges))
    BY BelowTableIs
  <2>3. PICK h \in [0 .. Len(edges) -> Search(ids)] :
            Fold(BelowTable(edges, ids, below, n), a, edges) = h[Len(edges)]
    BY <1>1, <2>2, FoldThrough
  <2>4. Len(edges) \in 0 .. Len(edges)
    OBVIOUS
  <2> QED BY <2>1, <2>3, <2>4
<1>3. [after EXCEPT !.mark[n] = 2] \in Search(ids)
  <2> HIDE DEF after
  <2> QED BY <1>0, <1>2, MarkIn
<1>4. [s EXCEPT !.found = TRUE] \in Search(ids)
  BY DEF Search
<1>5. Visit(edges, below, s, n) \in {s, [s EXCEPT !.found = TRUE], after, [after EXCEPT !.mark[n] = 2]}
  BY DEF Visit
<1> HIDE DEF after
<1> QED BY <1>2, <1>3, <1>4, <1>5

\* A visit one level up is right when those below are.
LEMMA VisitWell ==
    ASSUME NEW edges, edges \in Seq(ToSet(edges)), NEW ids, IsFiniteSet(ids), Joins(edges, ids),
           NEW depth \in Nat, NEW below, VisitsWell(edges, ids, below, depth),
           NEW s \in Search(ids), NEW n \in ids,
           Sane(edges, ids, s), MayVisit(edges, ids, s, n, depth + 1)
    PROVE  Went(edges, ids, s, n, Visit(edges, below, s, n))
<1>0. s.found \in BOOLEAN /\ s.mark \in [ids -> 0 .. 2]
  BY DEF Search
<1>1. CASE s.found
  <2>1. Visit(edges, below, s, n) = [s EXCEPT !.found = TRUE]
    BY <1>1 DEF Visit
  <2>2. [s EXCEPT !.found = TRUE] = s
    BY <1>1, <1>0 DEF Search
  <2> QED BY <1>1, <2>1, <2>2 DEF Went, Kept
<1>2. CASE ~s.found /\ s.mark[n] = 1
  <2>1. Visit(edges, below, s, n) = [s EXCEPT !.found = TRUE]
    BY <1>2 DEF Visit
  <2>2. Back(edges, ids)
    BY <1>2 DEF MayVisit, OnPath, With, Back
  <2>3. [s EXCEPT !.found = TRUE] \in Search(ids) /\ [s EXCEPT !.found = TRUE].found
    BY DEF Search
  <2> QED BY <2>1, <2>2, <2>3 DEF Went, Kept, Sane
<1>3. CASE ~s.found /\ s.mark[n] = 2
  <2>1. Visit(edges, below, s, n) = s
    BY <1>3 DEF Visit
  <2> QED BY <1>3, <2>1 DEF Went, Kept
<1>4. CASE ~s.found /\ s.mark[n] = 0
  <2> DEFINE T == BelowTable(edges, ids, below, n)
             R(x) == ReachedFrom(edges, x, ids)
  <2>0. SearchIn(ids, below)
    BY DEF VisitsWell
  <2>1. PICK a : a = [s EXCEPT !.mark[n] = 1]
    OBVIOUS
  <2>2. /\ a \in Search(ids) /\ ~a.found /\ a.mark[n] = 1
        /\ \A x \in ids : x # n => a.mark[x] = s.mark[x]
    <3>1. 1 \in {0, 1, 2}
      OBVIOUS
    <3>2. /\ a \in Search(ids) /\ a.found = s.found /\ a.mark[n] = 1
          /\ \A x \in ids : x # n => a.mark[x] = s.mark[x]
      <4>1. s \in Search(ids) /\ n \in ids
        OBVIOUS
      <4> QED BY ONLY <4>1, <3>1, <2>1, MarkIn
    <3> QED BY <3>2, <1>4
  <2>3. With(ids, a, 1) = With(ids, s, 1) \cup {n} /\ With(ids, a, 2) = With(ids, s, 2)
        /\ With(ids, a, 0) = With(ids, s, 0) \ {n} /\ n \in With(ids, s, 0)
    BY <2>2, <1>4 DEF With
  <2>4. Sane(edges, ids, a)
    <3>1. \A e \in ToSet(edges) : a.mark[e.from] = 2 => s.mark[e.from] = 2
      BY <2>2 DEF Joins
    <3>2. \A e \in ToSet(edges) : s.mark[e.to] = 2 => a.mark[e.to] = 2
      BY <2>2, <1>4 DEF Joins
    <3> QED BY <3>1, <3>2, <2>2, <1>4 DEF Sane, Finished
  <2>5. OnPath(edges, ids, s, n) /\ Cardinality(With(ids, a, 0)) < depth
    <3>1. IsFiniteSet(With(ids, s, 0))
      BY FS_Subset DEF With
    <3>2. Cardinality(With(ids, s, 0)) \in Nat
          /\ Cardinality(With(ids, a, 0)) = Cardinality(With(ids, s, 0)) - 1
      BY <3>1, <2>3, FS_RemoveElement, FS_CardinalityType
    <3>3. OnPath(edges, ids, s, n) /\ Cardinality(With(ids, s, 0)) < depth + 1
      BY <1>4 DEF MayVisit
    <3> QED BY <3>2, <3>3
  \* the whole path, n included, leads to n
  <2>6. \A g \in With(ids, a, 1) : n \in R(g)
    <3>1. \A x \in ids : x \in R(x) /\ Closed(edges, R(x))
      BY ReachedIs
    <3>2. ASSUME NEW g \in With(ids, s, 1) PROVE n \in R(g)
      <4>1. PICK e \in ToSet(edges) : e.to = n /\ e.from \in R(g)
        BY <2>5, <3>2 DEF OnPath
      <4>2. Closed(edges, R(g))
        BY <3>1 DEF With
      <4> QED BY <4>1, <4>2 DEF Closed
    <3> QED BY <3>1, <3>2, <2>3
  <2>7. /\ Folds(T, Search(ids), ToSet(edges))
        /\ \A v \in Search(ids), e \in ToSet(edges) :
              T[<<v, e>>] = IF e.from = n THEN below[<<v, e.to>>] ELSE v
    BY <2>0, BelowTableIs
  <2>8. PICK h \in [0 .. Len(edges) -> Search(ids)] :
            Through(h, T, a, edges) /\ Fold(T, a, edges) = h[Len(edges)]
    <3> HIDE DEF T
    <3> QED BY <2>2, <2>7, FoldThrough
  \* after i edges
  <2> DEFINE Inner(i) ==
          /\ Sane(edges, ids, h[i]) /\ Kept(ids, a, h[i])
          /\ ~h[i].found => \A j \in 1 .. i : edges[j].from = n => h[i].mark[edges[j].to] = 2
  <2>9. Inner(Len(edges))
    <3>1. Len(edges) \in Nat /\ \A i \in 1 .. Len(edges) : edges[i] \in ToSet(edges)
      BY DEF ToSet
    <3>2. Inner(0)
      <4>1. h[0] = a
        BY <2>8 DEF Through
      <4> QED BY <4>1, <2>4, <2>2 DEF Kept
    <3>3. ASSUME NEW i \in 1 .. Len(edges), Inner(i - 1) PROVE Inner(i)
      <4>0. i - 1 \in 0 .. Len(edges) /\ i \in 0 .. Len(edges) /\ edges[i] \in ToSet(edges)
        BY <3>1
      <4>1. PICK u \in Search(ids), v \in Search(ids), e \in ToSet(edges) :
               u = h[i - 1] /\ v = h[i] /\ e = edges[i]
        BY <4>0
      <4>2. v = IF e.from = n THEN below[<<u, e.to>>] ELSE u
        <5>1. v = T[<<u, e>>]
          BY <4>1, <2>8 DEF Through
        <5> HIDE DEF T
        <5> QED BY <5>1, <2>7
      <4>3. Sane(edges, ids, u) /\ Kept(ids, a, u)
            /\ (~u.found => \A j \in 1 .. i - 1 : edges[j].from = n => u.mark[edges[j].to] = 2)
        BY <3>3, <4>1
      <4>4. CASE e.from # n
        <5>1. v = u /\ \A j \in 1 .. i : edges[j].from = n => j \in 1 .. i - 1
          BY <4>4, <4>2, <4>1
        <5> QED BY <5>1, <4>3, <4>1
      <4>5. CASE e.from = n
        <5>1. MayVisit(edges, ids, u, e.to, depth)
          <6>1. CASE u.found
            BY <6>1 DEF MayVisit
          <6>2. CASE ~u.found
            <7>1. With(ids, u, 1) = With(ids, a, 1) /\ With(ids, a, 2) \subseteq With(ids, u, 2)
              BY <6>2, <4>3 DEF Kept
            <7>2. OnPath(edges, ids, u, e.to)
              <8>1. u.mark[e.from] = 1
                BY <7>1, <2>2, <4>5 DEF With
              <8> QED BY <8>1, <7>1, <2>6, <4>5 DEF OnPath
            <7>3. With(ids, u, 0) \subseteq With(ids, a, 0)
              <8>1. u.mark \in [ids -> 0 .. 2] /\ a.mark \in [ids -> 0 .. 2]
                BY <2>2 DEF Search
              <8> QED BY <8>1, <7>1 DEF With
            <7>4. IsFiniteSet(With(ids, a, 0))
              BY FS_Subset DEF With
            <7>5. Cardinality(With(ids, u, 0)) <= Cardinality(With(ids, a, 0))
                  /\ Cardinality(With(ids, u, 0)) \in Nat /\ Cardinality(With(ids, a, 0)) \in Nat
              BY <7>3, <7>4, FS_Subset, FS_CardinalityType
            <7> QED BY <7>2, <7>5, <2>5 DEF MayVisit
          <6> QED BY <6>1, <6>2
        <5>2. Went(edges, ids, u, e.to, v)
          <6>1. e.to \in ids
            BY DEF Joins
          <6> QED BY <6>1, <5>1, <4>2, <4>3, <4>5 DEF VisitsWell
        <5>3. Sane(edges, ids, v) /\ Kept(ids, a, v)
          BY <5>2, <4>3 DEF Went, Kept
        <5>4. ASSUME ~v.found, NEW j \in 1 .. i, edges[j].from = n PROVE v.mark[edges[j].to] = 2
          <6>1. CASE j = i
            BY <6>1, <5>2, <5>4, <4>1 DEF Went
          <6>2. CASE j # i
            <7>1. j \in 1 .. i - 1 /\ j \in 1 .. Len(edges) /\ ~u.found
              BY <6>2, <5>2, <5>4 DEF Went, Kept
            <7>2. u.mark[edges[j].to] = 2 /\ edges[j].to \in ids
              BY <7>1, <3>1, <4>3, <5>4 DEF Joins
            <7>3. With(ids, u, 2) \subseteq With(ids, v, 2)
              BY <5>2, <5>4 DEF Went, Kept
            <7> QED BY <7>2, <7>3 DEF With
          <6> QED BY <6>1, <6>2
        <5> QED BY <5>3, <5>4, <4>1
      <4> QED BY <4>4, <4>5
    <3> DEFINE K == {i \in 0 .. Len(edges) : Inner(i)}
    <3>4. 0 \in K /\ \A i \in 1 .. Len(edges) : i - 1 \in K => i \in K
      <4> HIDE DEF Inner
      <4> QED BY <3>1, <3>2, <3>3
    <3>5. Len(edges) \in K
      <4> HIDE DEF K
      <4> QED BY <3>1, <3>4, UpTo
    <3> QED BY <3>5
  <2>10. PICK u : u = FoldLeft(LAMBDA v, e : IF e.from = n THEN below[<<v, e.to>>] ELSE v, a, edges)
    OBVIOUS
  <2>11. u = h[Len(edges)]
    <3>1. u = Fold(T, a, edges)
      BY <2>0, <2>2, <2>10, BelowFold
    <3> QED BY <3>1, <2>8
  <2>12. /\ Sane(edges, ids, u) /\ Kept(ids, a, u)
         /\ ~u.found => \A e \in ToSet(edges) : e.from = n => u.mark[e.to] = 2
    <3>1. \A e \in ToSet(edges) : \E j \in 1 .. Len(edges) : e = edges[j]
      BY DEF ToSet
    <3> QED BY <3>1, <2>9, <2>11
  <2>13. Visit(edges, below, s, n) = IF u.found THEN u ELSE [u EXCEPT !.mark[n] = 2]
    <3>1. ~(s.found \/ s.mark[n] = 1) /\ s.mark[n] # 2
      BY <1>4
    <3> QED BY <3>1, <2>1, <2>10, Zenon DEF Visit
  <2>14. CASE u.found
    BY <2>14, <2>13, <2>12 DEF Went, Kept
  <2>15. CASE ~u.found
    <3>1. PICK t : t = [u EXCEPT !.mark[n] = 2]
      OBVIOUS
    <3>2. u \in Search(ids) /\ Finished(edges, ids, u)
      BY <2>12, <2>15 DEF Sane
    <3>3. /\ t \in Search(ids) /\ ~t.found /\ t.mark[n] = 2
          /\ \A x \in ids : x # n => t.mark[x] = u.mark[x]
      <4>1. 2 \in {0, 1, 2}
        OBVIOUS
      <4> QED BY <4>1, <3>1, <3>2, <2>15, MarkIn
    <3>4. With(ids, u, 1) = With(ids, s, 1) \cup {n} /\ With(ids, s, 2) \subseteq With(ids, u, 2)
      BY <2>12, <2>15, <2>3 DEF Kept
    <3>5. u.mark[n] = 1
      BY <3>4 DEF With
    <3>6. With(ids, t, 1) = With(ids, s, 1) /\ With(ids, s, 2) \subseteq With(ids, t, 2)
      BY <3>3, <3>4, <2>3 DEF With
    \* no finished stage leads to n, so n is on no cycle
    <3>7. ASSUME NEW e \in ToSet(edges), t.mark[e.from] = 2
          PROVE  t.mark[e.to] = 2 /\ e.from \notin R(e.to)
      <4>0. e.from \in ids /\ e.to \in ids
        BY DEF Joins
      <4>1. CASE e.from # n
        BY <4>0, <4>1, <3>2, <3>3, <3>7 DEF Finished
      <4>2. CASE e.from = n
        <5>1. u.mark[e.to] = 2
          BY <4>2, <2>12, <2>15
        <5>2. Closed(edges, With(ids, u, 2))
          BY <3>2 DEF Finished, Closed, With, Joins
        <5>3. e.to \in With(ids, u, 2)
          BY <5>1, <4>0 DEF With
        <5>4. R(e.to) \subseteq With(ids, u, 2)
          BY <5>2, <5>3, <4>0, ReachedIs
        <5>5. n \notin With(ids, u, 2)
          BY <3>5 DEF With
        <5>6. t.mark[e.to] = 2
          BY <5>1, <4>0, <3>3
        <5> QED BY <5>4, <5>5, <5>6, <4>2
      <4> QED BY <4>1, <4>2
    <3>8. Sane(edges, ids, t)
      BY <3>3, <3>7 DEF Sane, Finished
    <3>9. Visit(edges, below, s, n) = t
      BY <2>13, <2>15, <3>1
    <3> QED BY <3>3, <3>6, <3>8, <3>9, <1>4 DEF Went, Kept
  <2> QED BY <2>14, <2>15
<1> QED BY <1>0, <1>1, <1>2, <1>3, <1>4


\* The visits of every depth up to n, each defined from those of the one below.
Visits(edges, ids, n, v) ==
    v = [depth \in 0 .. n |->
            [p \in Search(ids) \X ids |->
                IF depth = 0 THEN p[1] ELSE Visit(edges, v[depth - 1], p[1], p[2])]]

\* There are such visits.
LEMMA VisitsExist ==
    ASSUME NEW edges, edges \in Seq(ToSet(edges)), NEW ids, Joins(edges, ids), NEW n \in Nat
    PROVE  \E v : Visits(edges, ids, n, v)
<1> DEFINE W == [Search(ids) \X ids -> Search(ids)]
           base == [p \in Search(ids) \X ids |-> p[1]]
           G == [f \in W |-> [p \in Search(ids) \X ids |-> Visit(edges, f, p[1], p[2])]]
<1>1. base \in W
  OBVIOUS
<1>2. ASSUME NEW f \in W, NEW p \in Search(ids) \X ids PROVE Visit(edges, f, p[1], p[2]) \in Search(ids)
  <2>1. SearchIn(ids, f) /\ p[1] \in Search(ids) /\ p[2] \in ids
    BY DEF SearchIn
  <2> QED BY <2>1, VisitIn
<1>3. G \in [W -> W]
  BY <1>2
<1>4. PICK g \in [0 .. n -> W] : Iterates(g, n, base, G)
  <2> HIDE DEF W, base, G
  <2> QED BY <1>1, <1>3, Iteration
<1>5. ASSUME NEW depth \in 0 .. n
      PROVE  g[depth] = [p \in Search(ids) \X ids |->
                            IF depth = 0 THEN p[1] ELSE Visit(edges, g[depth - 1], p[1], p[2])]
  <2>1. g[depth] = IF depth = 0 THEN base ELSE G[g[depth - 1]]
    BY <1>4 DEF Iterates
  <2>2. CASE depth = 0
    BY <2>1, <2>2
  <2>3. CASE depth # 0
    <3>1. depth - 1 \in 0 .. n
      BY <2>3
    <3>2. g[depth - 1] \in W
      BY <3>1
    <3>3. g[depth] = [p \in Search(ids) \X ids |-> Visit(edges, g[depth - 1], p[1], p[2])]
      BY <2>1, <2>3, <3>2
    <3> QED BY <3>3, <2>3
  <2> QED BY <2>2, <2>3
<1>6. Visits(edges, ids, n, g)
  BY <1>5 DEF Visits
<1> QED BY <1>6

\* They are right at every depth.
LEMMA VisitsRight ==
    ASSUME NEW edges, edges \in Seq(ToSet(edges)), NEW ids, IsFiniteSet(ids), Joins(edges, ids),
           NEW n \in Nat, NEW v, Visits(edges, ids, n, v)
    PROVE  VisitsWell(edges, ids, v[n], n)
<1> DEFINE K == {d \in 0 .. n : VisitsWell(edges, ids, v[d], d)}
<1>1. VisitsWell(edges, ids, v[0], 0)
  <2>1. v[0] = [p \in Search(ids) \X ids |-> p[1]]
    <3>1. 0 \in 0 .. n
      OBVIOUS
    <3> QED BY <3>1 DEF Visits
  <2>2. SearchIn(ids, v[0]) /\ \A s \in Search(ids), x \in ids : v[0][<<s, x>>] = s
    BY <2>1 DEF SearchIn
  <2>3. ASSUME NEW s \in Search(ids), NEW x \in ids, MayVisit(edges, ids, s, x, 0) PROVE s.found
    <3>1. IsFiniteSet(With(ids, s, 0))
      BY FS_Subset DEF With
    <3>2. Cardinality(With(ids, s, 0)) \in Nat
      BY <3>1, FS_CardinalityType
    <3> QED BY <2>3, <3>2 DEF MayVisit
  <2> QED BY <2>2, <2>3 DEF VisitsWell, Went, Kept
<1>2. ASSUME NEW d \in 1 .. n, VisitsWell(edges, ids, v[d - 1], d - 1)
      PROVE  VisitsWell(edges, ids, v[d], d)
  <2>0. PICK k, below : k \in Nat /\ k = d - 1 /\ d = k + 1 /\ below = v[d - 1]
    <3>1. d - 1 \in Nat /\ d = (d - 1) + 1
      OBVIOUS
    <3> QED BY <3>1
  <2>1. v[d] = [p \in Search(ids) \X ids |-> Visit(edges, below, p[1], p[2])]
    <3>1. d \in 0 .. n /\ d # 0
      OBVIOUS
    <3>2. v[d] = [p \in Search(ids) \X ids |->
                    IF d = 0 THEN p[1] ELSE Visit(edges, v[d - 1], p[1], p[2])]
      BY <3>1 DEF Visits
    <3> QED BY <3>1, <3>2, <2>0
  <2>2. VisitsWell(edges, ids, below, k)
    BY <2>0, <1>2
  <2>3. SearchIn(ids, v[d])
    <3>1. SearchIn(ids, below)
      BY <2>2 DEF VisitsWell
    <3>2. \A p \in Search(ids) \X ids : Visit(edges, below, p[1], p[2]) \in Search(ids)
      <4> TAKE p \in Search(ids) \X ids
      <4>1. p[1] \in Search(ids) /\ p[2] \in ids
        OBVIOUS
      <4> QED BY <4>1, <3>1, VisitIn
    <3> QED BY <2>1, <3>2 DEF SearchIn
  <2>4. ASSUME NEW s \in Search(ids), NEW x \in ids,
               Sane(edges, ids, s), MayVisit(edges, ids, s, x, d)
        PROVE  Went(edges, ids, s, x, v[d][<<s, x>>])
    <3>1. v[d][<<s, x>>] = Visit(edges, below, s, x)
      BY <2>1
    <3>2. MayVisit(edges, ids, s, x, k + 1)
      BY <2>0, <2>4
    <3> QED BY <3>1, <3>2, <2>0, <2>2, <2>4, VisitWell
  <2> QED BY <2>3, <2>4 DEF VisitsWell
<1>3. 0 \in K /\ \A d \in 1 .. n : d - 1 \in K => d \in K
  <2>1. 0 \in 0 .. n /\ \A d \in 1 .. n : d \in 0 .. n
    OBVIOUS
  <2> QED BY <2>1, <1>1, <1>2
<1>4. n \in K
  <2> HIDE DEF K
  <2> QED BY <1>3, UpTo
<1> QED BY <1>4

\* The table of the loop over the stages.
StartTable(nodes, below) ==
    [p \in Search(Ids(nodes)) \X ToSet(nodes) |->
        IF p[1].mark[p[2].id] = 0 THEN below[<<p[1], p[2].id>>] ELSE p[1]]

\* Its values are states of the search.
LEMMA StartTableIs ==
    ASSUME NEW nodes, NEW below, SearchIn(Ids(nodes), below)
    PROVE  LET T == StartTable(nodes, below)
           IN  /\ Folds(T, Search(Ids(nodes)), ToSet(nodes))
               /\ \A v \in Search(Ids(nodes)), e \in ToSet(nodes) :
                     /\ T[<<v, e>>] = IF v.mark[e.id] = 0 THEN below[<<v, e.id>>] ELSE v
                     /\ T[<<v, e>>] \in Search(Ids(nodes))
<1> DEFINE T == StartTable(nodes, below)
<1>1. \A v \in Search(Ids(nodes)), e \in ToSet(nodes) :
          T[<<v, e>>] = IF v.mark[e.id] = 0 THEN below[<<v, e.id>>] ELSE v
  BY DEF StartTable
<1>2. \A v \in Search(Ids(nodes)), e \in ToSet(nodes) :
          (IF v.mark[e.id] = 0 THEN below[<<v, e.id>>] ELSE v) \in Search(Ids(nodes))
  <2>1. \A e \in ToSet(nodes) : e.id \in Ids(nodes)
    BY DEF Ids, ToSet
  <2> QED BY <2>1 DEF SearchIn
<1>3. Folds(T, Search(Ids(nodes)), ToSet(nodes))
  BY <1>2 DEF Folds, StartTable
<1> QED BY <1>1, <1>2, <1>3

\* The loop is the fold of that table.
LEMMA StartFold ==
    ASSUME NEW nodes, nodes \in Seq(ToSet(nodes)), NEW below, SearchIn(Ids(nodes), below),
           NEW base \in Search(Ids(nodes))
    PROVE  FoldLeft(LAMBDA s, e : IF s.mark[e.id] = 0 THEN below[<<s, e.id>>] ELSE s, base, nodes) = Fold(StartTable(nodes, below), base, nodes)
<1> DEFINE S == DOMAIN nodes
           W == Search(Ids(nodes))
           T == StartTable(nodes, below)
           A(h) == h = [s \in SUBSET S |-> IF s = {} THEN base
                                           ELSE IF h[s \ {Max(s)}].mark[nodes[Max(s)].id] = 0 THEN below[<<h[s \ {Max(s)}], nodes[Max(s)].id>>] ELSE h[s \ {Max(s)}]]
           B(h) == h = [s \in SUBSET S |-> IF s = {} THEN base
                                           ELSE T[<<h[s \ {Max(s)}], nodes[Max(s)]>>]]
<1>1. IsFiniteSet(S) /\ S = 1 .. Len(nodes) /\ Len(nodes) \in Nat
  BY FS_Interval
<1>2. \A s \in SUBSET S : s # {} => Max(s) \in s /\ nodes[Max(s)] \in ToSet(nodes)
  <2>1. \A s \in SUBSET S : s # {} => Max(s) \in s
    BY <1>1, GreatestIndex
  <2> QED BY <2>1
<1>3. \A v \in W, e \in ToSet(nodes) : T[<<v, e>>] = (IF v.mark[e.id] = 0 THEN below[<<v, e.id>>] ELSE v) /\ T[<<v, e>>] \in W
  BY StartTableIs
<1> HIDE DEF T
<1>4. ASSUME NEW h, A(h) \/ B(h) PROVE \A s \in SUBSET S : h[s] \in W
  <2>1. h[{}] \in W
    <3>1. {} \in SUBSET S
      OBVIOUS
    <3> QED BY <3>1, <1>4
  <2>2. ASSUME NEW s \in SUBSET S, s # {}
        PROVE  \E x \in s : h[s \ {x}] \in W => h[s] \in W
    <3>1. Max(s) \in s /\ nodes[Max(s)] \in ToSet(nodes)
      BY <1>2, <2>2
    <3>2. ASSUME h[s \ {Max(s)}] \in W PROVE h[s] \in W
      <4>1. \/ h[s] = IF h[s \ {Max(s)}].mark[nodes[Max(s)].id] = 0 THEN below[<<h[s \ {Max(s)}], nodes[Max(s)].id>>] ELSE h[s \ {Max(s)}]
            \/ h[s] = T[<<h[s \ {Max(s)}], nodes[Max(s)]>>]
        BY <1>4, <2>2
      <4>2. PICK u \in W, e \in ToSet(nodes) : u = h[s \ {Max(s)}] /\ e = nodes[Max(s)]
        BY <3>1, <3>2
      <4>3. T[<<u, e>>] = (IF u.mark[e.id] = 0 THEN below[<<u, e.id>>] ELSE u) /\ T[<<u, e>>] \in W
        BY <1>3
      <4>4. h[s] = T[<<u, e>>]
        BY <4>1, <4>2, <4>3
      <4> HIDE DEF W
      <4> QED BY <4>3, <4>4
    <3> QED BY <3>1, <3>2
  <2> HIDE DEF S, A, B, W
  <2> QED BY <1>1, <2>1, <2>2, TableStays
<1>5. ASSUME NEW h, \A s \in SUBSET S : h[s] \in W PROVE A(h) <=> B(h)
  <2>1. \A s \in SUBSET S : s # {} =>
            (IF h[s \ {Max(s)}].mark[nodes[Max(s)].id] = 0 THEN below[<<h[s \ {Max(s)}], nodes[Max(s)].id>>] ELSE h[s \ {Max(s)}]) = T[<<h[s \ {Max(s)}], nodes[Max(s)]>>]
    <3> TAKE s \in SUBSET S
    <3> HAVE s # {}
    <3>1. s \ {Max(s)} \in SUBSET S /\ nodes[Max(s)] \in ToSet(nodes)
      BY <1>2
    <3>2. h[s \ {Max(s)}] \in W
      BY <3>1, <1>5
    <3> HIDE DEF W
    <3> QED BY <3>1, <3>2, <1>3
  <2>2. [s \in SUBSET S |-> IF s = {} THEN base
                            ELSE IF h[s \ {Max(s)}].mark[nodes[Max(s)].id] = 0 THEN below[<<h[s \ {Max(s)}], nodes[Max(s)].id>>] ELSE h[s \ {Max(s)}]]
        = [s \in SUBSET S |-> IF s = {} THEN base
                              ELSE T[<<h[s \ {Max(s)}], nodes[Max(s)]>>]]
    BY <2>1
  <2> QED BY <2>2
<1>6. (CHOOSE h : A(h)) = (CHOOSE h : B(h))
  <2>1. \A h : A(h) <=> B(h)
    BY <1>4, <1>5
  <2> HIDE DEF A, B
  <2> QED BY <2>1
<1>7. FoldLeft(LAMBDA s, e : IF s.mark[e.id] = 0 THEN below[<<s, e.id>>] ELSE s, base, nodes) = (CHOOSE h : A(h))[S]
  BY DEF FoldLeft, MapThenFoldSet
<1>8. Fold(StartTable(nodes, below), base, nodes) = (CHOOSE h : B(h))[S]
  BY DEF Fold, FoldLeft, MapThenFoldSet, T
<1> QED BY <1>6, <1>7, <1>8

\* There are at most as many ids as nodes.
LEMMA IdsFinite ==
    ASSUME NEW nodes, nodes \in Seq(ToSet(nodes))
    PROVE  /\ IsFiniteSet(Ids(nodes)) /\ Cardinality(Ids(nodes)) <= Len(nodes)
           /\ Cardinality(Ids(nodes)) \in Nat /\ Len(nodes) \in Nat
           /\ \A i \in 1 .. Len(nodes) : nodes[i].id \in Ids(nodes)
           /\ \A id \in Ids(nodes) : \E i \in 1 .. Len(nodes) : id = nodes[i].id
<1> DEFINE f == [i \in 1 .. Len(nodes) |-> nodes[i].id]
<1>1. Len(nodes) \in Nat /\ DOMAIN nodes = 1 .. Len(nodes)
  OBVIOUS
<1>2. f \in Surjection(1 .. Len(nodes), Ids(nodes))
  BY <1>1 DEF Ids, Surjection
<1>3. IsFiniteSet(1 .. Len(nodes)) /\ Cardinality(1 .. Len(nodes)) = Len(nodes)
  BY <1>1, FS_Interval
<1>4. IsFiniteSet(Ids(nodes)) /\ Cardinality(Ids(nodes)) <= Len(nodes)
  <2> HIDE DEF f
  <2> QED BY <1>2, <1>3, FS_Surjection
<1> QED BY <1>1, <1>4, FS_CardinalityType DEF Ids

\* The search finds a cycle exactly when some edge is part of one.
LEMMA CycleFound ==
    ASSUME NEW nodes, nodes \in Seq(ToSet(nodes)), NEW edges, edges \in Seq(ToSet(edges)),
           Joins(edges, Ids(nodes))
    PROVE  HasCycle(nodes, edges) <=> Back(edges, Ids(nodes))
<1> DEFINE ids == Ids(nodes)
           n == Len(nodes) + 1
           v == CHOOSE f : Visits(edges, ids, n, f)
           below == v[n]
           base == [found |-> FALSE, mark |-> [x \in ids |-> 0]]
<1>7. HasCycle(nodes, edges) =
        FoldLeft(LAMBDA s, e : IF s.mark[e.id] = 0 THEN below[<<s, e.id>>] ELSE s, base, nodes).found
  BY DEF HasCycle, Visits
<1>0. ids = Ids(nodes) /\ n = Len(nodes) + 1
  OBVIOUS
<1> HIDE DEF ids, n
<1>1. /\ IsFiniteSet(ids) /\ Cardinality(ids) < n /\ n \in Nat /\ Joins(edges, ids)
      /\ Len(nodes) \in Nat
      /\ \A i \in 1 .. Len(nodes) : nodes[i].id \in ids
      /\ \A id \in ids : \E i \in 1 .. Len(nodes) : id = nodes[i].id
  BY <1>0, IdsFinite
<1>2. Visits(edges, ids, n, v)
  BY <1>1, VisitsExist
<1> HIDE DEF v
<1>3. VisitsWell(edges, ids, below, n)
  BY <1>1, <1>2, VisitsRight
<1> HIDE DEF below
<1>4. SearchIn(ids, below)
  BY <1>3 DEF VisitsWell
<1>6. base \in Search(ids) /\ ~base.found /\ \A x \in ids : base.mark[x] = 0
  <2>1. [x \in ids |-> 0] \in [ids -> 0 .. 2]
    OBVIOUS
  <2> QED BY <2>1 DEF Search
<1> HIDE DEF base
<1> DEFINE T == StartTable(nodes, below)
<1>8. HasCycle(nodes, edges) = Fold(T, base, nodes).found
  BY <1>7, <1>0, <1>4, <1>6, StartFold
<1>9. /\ Folds(T, Search(ids), ToSet(nodes))
      /\ \A s \in Search(ids), e \in ToSet(nodes) :
            T[<<s, e>>] = IF s.mark[e.id] = 0 THEN below[<<s, e.id>>] ELSE s
  BY <1>0, <1>4, StartTableIs
<1>10. PICK h \in [0 .. Len(nodes) -> Search(ids)] :
          Through(h, T, base, nodes) /\ Fold(T, base, nodes) = h[Len(nodes)]
  <2> HIDE DEF T
  <2> QED BY <1>6, <1>9, FoldThrough
\* after i stages
<1> DEFINE Outer(i) ==
        /\ Sane(edges, ids, h[i])
        /\ ~h[i].found => With(ids, h[i], 1) = {} /\ \A j \in 1 .. i : h[i].mark[nodes[j].id] = 2
           K == {i \in 0 .. Len(nodes) : Outer(i)}
<1>11. Outer(0)
  <2>1. h[0] = base
    BY <1>10 DEF Through
  <2>2. Sane(edges, ids, base) /\ With(ids, base, 1) = {}
    BY <1>1, <1>6 DEF Sane, Finished, With, Joins
  <2> QED BY <2>1, <2>2
<1>12. ASSUME NEW i \in 1 .. Len(nodes), Outer(i - 1) PROVE Outer(i)
  <2>0. i - 1 \in 0 .. Len(nodes) /\ i \in 0 .. Len(nodes) /\ nodes[i] \in ToSet(nodes)
    BY <1>1 DEF ToSet
  <2>1. PICK s \in Search(ids), t \in Search(ids), x \in ids :
           s = h[i - 1] /\ t = h[i] /\ x = nodes[i].id
    BY <2>0, <1>1
  <2>2. t = IF s.mark[x] = 0 THEN below[<<s, x>>] ELSE s
    <3>1. t = T[<<s, nodes[i]>>]
      BY <2>1, <1>10 DEF Through
    <3> HIDE DEF T
    <3> QED BY <3>1, <2>0, <2>1, <1>9
  <2>3. Sane(edges, ids, s)
        /\ (~s.found => With(ids, s, 1) = {} /\ \A j \in 1 .. i - 1 : s.mark[nodes[j].id] = 2)
    BY <1>12, <2>1
  <2>4. CASE s.mark[x] = 0
    <3>1. MayVisit(edges, ids, s, x, n)
      <4>1. With(ids, s, 0) \subseteq ids
        BY DEF With
      <4>2. Cardinality(With(ids, s, 0)) <= Cardinality(ids) /\ Cardinality(With(ids, s, 0)) \in Nat
            /\ Cardinality(ids) \in Nat
        BY <4>1, <1>1, FS_Subset, FS_CardinalityType
      <4>3. Cardinality(With(ids, s, 0)) < n
        BY <4>2, <1>1
      <4> QED BY <4>3, <2>3 DEF MayVisit, OnPath
    <3>2. Went(edges, ids, s, x, t)
      BY <3>1, <2>2, <2>3, <2>4, <1>3 DEF VisitsWell
    <3>3. ASSUME ~t.found PROVE With(ids, t, 1) = {} /\ \A j \in 1 .. i : t.mark[nodes[j].id] = 2
      <4>1. ~s.found /\ With(ids, t, 1) = {} /\ With(ids, s, 2) \subseteq With(ids, t, 2) /\ t.mark[x] = 2
        BY <3>2, <3>3, <2>3 DEF Went, Kept
      <4>2. ASSUME NEW j \in 1 .. i, j # i PROVE t.mark[nodes[j].id] = 2
        <5>1. j \in 1 .. i - 1 /\ nodes[j].id \in ids
          BY <4>2, <1>1
        <5>2. nodes[j].id \in With(ids, s, 2)
          BY <5>1, <4>1, <2>3 DEF With
        <5> QED BY <5>2, <4>1 DEF With
      <4> QED BY <4>1, <4>2, <2>1
    <3>4. Sane(edges, ids, t)
      BY <3>2 DEF Went
    <3> QED BY <3>3, <3>4, <2>1
  <2>5. CASE s.mark[x] # 0
    <3>1. t = s
      BY <2>2, <2>5
    <3>2. ASSUME ~s.found PROVE s.mark[x] = 2
      <4>1. s.mark[x] \in 0 .. 2 /\ s.mark[x] # 1
        BY <3>2, <2>3 DEF With, Search
      <4> QED BY <4>1, <2>5
    <3>3. ASSUME ~s.found, NEW j \in 1 .. i PROVE s.mark[nodes[j].id] = 2
      <4>1. j = i \/ j \in 1 .. i - 1
        BY <2>0
      <4> QED BY <4>1, <3>2, <3>3, <2>1, <2>3
    <3> QED BY <3>1, <3>3, <2>1, <2>3
  <2> QED BY <2>4, <2>5
<1>13. Outer(Len(nodes))
  <2>1. 0 \in K /\ \A i \in 1 .. Len(nodes) : i - 1 \in K => i \in K
    <3>1. 0 \in 0 .. Len(nodes) /\ \A i \in 1 .. Len(nodes) : i \in 0 .. Len(nodes)
      BY <1>1
    <3> HIDE DEF Outer
    <3> QED BY <3>1, <1>11, <1>12
  <2>2. Len(nodes) \in K
    <3> HIDE DEF K
    <3> QED BY <1>1, <2>1, UpTo
  <2> QED BY <2>2
<1>14. PICK z : z = h[Len(nodes)]
  OBVIOUS
<1>15. CASE z.found
  BY <1>15, <1>13, <1>14, <1>8, <1>10, <1>0 DEF Sane
<1>16. CASE ~z.found
  <2>1. \A x \in ids : z.mark[x] = 2
    BY <1>16, <1>13, <1>14, <1>1
  <2>2. ~Back(edges, ids)
    BY <2>1, <1>16, <1>13, <1>14, <1>1 DEF Sane, Finished, Back, Joins
  <2> QED BY <2>2, <1>16, <1>14, <1>8, <1>10, <1>0
<1> QED BY <1>15, <1>16
-----------------------------------------------------------------------------
(* The order of the stages *)

At(ids) == [ready : Seq(ids), order : Seq(ids), degree : [ids -> Int]]

\* The stages in the order in which they became ready.
Line(at) == at.order \o at.ready

\* The edges that leave a stage taken.
Gone(edges, order) == {i \in 1 .. Len(edges) : edges[i].from \in ToSet(order)}

\* The edges into a stage that are not gone.
Due(edges, gone, n) == {i \in (1 .. Len(edges)) \ gone : edges[i].to = n}

\* When the edges `gone' have been taken: the degrees count the others, no other one leads
\* to a stage that is ready or taken, and each stage in line stands after those leading to it.
Lined(edges, ids, entry, at, gone) ==
    /\ at \in At(ids)
    /\ IsInjective(Line(at)) /\ Line(at) # <<>> /\ Line(at)[1] = entry
    /\ \A n \in ids : at.degree[n] = Cardinality(Due(edges, gone, n))
    /\ \A i \in (1 .. Len(edges)) \ gone : edges[i].to \notin ToSet(Line(at))
    /\ \A i \in gone : i \in 1 .. Len(edges) /\ edges[i].from \in ToSet(at.order)
    /\ \A i \in 1 .. Len(edges), y \in 1 .. Len(Line(at)) :
          Line(at)[y] = edges[i].to => \E x \in 1 .. y - 1 : Line(at)[x] = edges[i].from

\* Taking a stage from the ready ones leaves the line as it is,
LEMMA LineTaken ==
    ASSUME NEW ids, NEW order \in Seq(ids), NEW ready \in Seq(ids), ready # <<>>
    PROVE  Append(order, Head(ready)) \o Tail(ready) = order \o ready
<1>1. PICK x, rest : x = Head(ready) /\ rest = Tail(ready)
  OBVIOUS
<1>2. /\ x \in ids /\ rest \in Seq(ids) /\ Len(rest) = Len(ready) - 1 /\ ready[1] = x
      /\ \A i \in 1 .. Len(rest) : rest[i] = ready[i + 1]
      /\ Len(ready) \in Nat /\ Len(order) \in Nat /\ Len(rest) \in Nat
  BY <1>1, HeadTailProperties
<1>3. PICK more : more = Append(order, x)
  OBVIOUS
<1>4. /\ more \in Seq(ids) /\ Len(more) = Len(order) + 1 /\ more[Len(order) + 1] = x
      /\ \A i \in 1 .. Len(order) : more[i] = order[i]
  BY <1>2, <1>3, AppendProperties
<1>5. PICK s, t : s = more \o rest /\ t = order \o ready
  OBVIOUS
<1>6. /\ s \in Seq(ids) /\ Len(s) = Len(more) + Len(rest)
      /\ \A i \in 1 .. Len(s) : s[i] = IF i <= Len(more) THEN more[i] ELSE rest[i - Len(more)]
  <2>1. /\ s \in Seq(ids) /\ Len(s) = Len(more) + Len(rest)
        /\ \A i \in 1 .. Len(more) + Len(rest) :
              s[i] = IF i <= Len(more) THEN more[i] ELSE rest[i - Len(more)]
    BY <1>2, <1>4, <1>5, ConcatProperties
  <2> QED BY <2>1
<1>7. /\ t \in Seq(ids) /\ Len(t) = Len(order) + Len(ready)
      /\ \A i \in 1 .. Len(t) : t[i] = IF i <= Len(order) THEN order[i] ELSE ready[i - Len(order)]
  BY <1>5, ConcatProperties
<1>8. ASSUME NEW i \in 1 .. Len(s) PROVE s[i] = t[i]
  <2>0. i \in Nat /\ i \in 1 .. Len(t) /\ Len(s) = Len(t)
    BY <1>2, <1>4, <1>6, <1>7
  <2>1. CASE i <= Len(order)
    <3>1. i \in 1 .. Len(order) /\ i <= Len(more)
      BY <2>0, <2>1, <1>2, <1>4
    <3> QED BY <3>1, <2>0, <2>1, <1>4, <1>6, <1>7
  <2>2. CASE i = Len(order) + 1
    <3>1. i <= Len(more) /\ ~(i <= Len(order)) /\ i - Len(order) = 1
      BY <2>2, <1>2, <1>4
    <3> QED BY <3>1, <2>0, <2>2, <1>2, <1>4, <1>6, <1>7
  <2>3. CASE i > Len(order) + 1
    <3>1. /\ ~(i <= Len(more)) /\ ~(i <= Len(order)) /\ i - Len(more) \in 1 .. Len(rest)
          /\ (i - Len(more)) + 1 = i - Len(order)
      BY <2>0, <2>3, <1>2, <1>4, <1>6
    <3> QED BY <3>1, <2>0, <1>2, <1>6, <1>7
  <2>4. i <= Len(order) \/ i = Len(order) + 1 \/ i > Len(order) + 1
    <3>1. Len(order) \in Nat /\ i \in Nat
      BY <2>0, <1>2
    <3> QED BY ONLY <3>1
  <2> QED BY <2>1, <2>2, <2>3, <2>4
<1>9. Len(s) = Len(t)
  BY <1>2, <1>4, <1>6, <1>7
<1> QED BY <1>1, <1>3, <1>5, <1>6, <1>7, <1>8, <1>9, SeqEqual

\* and one that becomes ready goes to its end.
LEMMA LineFreed ==
    ASSUME NEW ids, NEW order \in Seq(ids), NEW ready \in Seq(ids), NEW x \in ids
    PROVE  order \o Append(ready, x) = Append(order \o ready, x)
<1>1. <<x>> \in Seq(ids)
  OBVIOUS
<1>2. (order \o ready) \o <<x>> = order \o (ready \o <<x>>)
  BY <1>1, ConcatAssociative
<1>3. Append(ready, x) = ready \o <<x>>
  BY AppendIsConcat
<1>4. order \o ready \in Seq(ids)
  BY ConcatProperties
<1>5. Append(order \o ready, x) = (order \o ready) \o <<x>>
  BY <1>4, AppendIsConcat
<1> QED BY <1>2, <1>3, <1>5

\* Taking an edge that is not gone, of a stage that is taken.
LEMMA FreedLined ==
    ASSUME NEW edges, edges \in Seq(ToSet(edges)), NEW ids, Joins(edges, ids), NEW entry,
           NEW at, NEW gone, Lined(edges, ids, entry, at, gone),
           NEW i \in 1 .. Len(edges), i \notin gone, edges[i].from \in ToSet(at.order)
    PROVE  /\ Lined(edges, ids, entry, Freed(at, edges[i].to), gone \cup {i})
           /\ Freed(at, edges[i].to).order = at.order
<1>0. Len(edges) \in Nat /\ edges[i] \in ToSet(edges)
  BY DEF ToSet
<1>1. PICK x, b : x \in ids /\ x = edges[i].to /\ b = Freed(at, x)
  BY <1>0 DEF Joins
<1> x \in ids
  BY <1>1
<1>2. PICK ready \in Seq(ids), order \in Seq(ids), degree \in [ids -> Int] :
        at = [ready |-> ready, order |-> order, degree |-> degree]
  BY DEF Lined, At
<1>3. PICK less : less = [degree EXCEPT ![x] = @ - 1]
  OBVIOUS
<1>4. less \in [ids -> Int] /\ less[x] = degree[x] - 1 /\ \A n \in ids : n # x => less[n] = degree[n]
  BY <1>3
<1>5. PICK line : line = order \o ready
  OBVIOUS
<1>6. line \in Seq(ids) /\ Len(line) = Len(order) + Len(ready) /\ Len(order) \in Nat
      /\ Len(ready) \in Nat /\ \A y \in 1 .. Len(order) : y \in 1 .. Len(line) /\ line[y] = order[y]
  BY <1>5, ConcatProperties
<1>7. Line(at) = line /\ at.order = order /\ at.degree = degree
  BY <1>2, <1>5 DEF Line
<1>8. PICK more : more = gone \cup {i}
  OBVIOUS
<1>9. \A n \in ids : less[n] = Cardinality(Due(edges, more, n)) /\ IsFiniteSet(Due(edges, more, n))
  <2> TAKE n \in ids
  <2>1. IsFiniteSet(Due(edges, gone, n)) /\ IsFiniteSet(Due(edges, more, n))
    <3>1. IsFiniteSet(1 .. Len(edges))
      BY <1>0, FS_Interval
    <3>2. Due(edges, gone, n) \subseteq 1 .. Len(edges) /\ Due(edges, more, n) \subseteq 1 .. Len(edges)
      BY DEF Due
    <3> QED BY <3>1, <3>2, FS_Subset
  <2>2. degree[n] = Cardinality(Due(edges, gone, n))
    BY <1>7 DEF Lined
  <2>3. CASE n = x
    <3>1. i \in Due(edges, gone, n) /\ Due(edges, more, n) = Due(edges, gone, n) \ {i}
      BY <2>3, <1>1, <1>8 DEF Due
    <3>2. Cardinality(Due(edges, more, n)) = Cardinality(Due(edges, gone, n)) - 1
      BY <2>1, <3>1, FS_RemoveElement
    <3> QED BY <3>2, <2>1, <2>2, <2>3, <1>4
  <2>4. CASE n # x
    <3>1. Due(edges, more, n) = Due(edges, gone, n)
      BY <2>4, <1>1, <1>8 DEF Due
    <3> QED BY <3>1, <2>1, <2>2, <2>4, <1>4
  <2> QED BY <2>3, <2>4
<1>10. /\ IsInjective(line) /\ line # <<>> /\ line[1] = entry
       /\ \A j \in (1 .. Len(edges)) \ gone : edges[j].to \notin ToSet(line)
       /\ \A j \in gone : j \in 1 .. Len(edges) /\ edges[j].from \in ToSet(order)
       /\ \A j \in 1 .. Len(edges), y \in 1 .. Len(line) :
             line[y] = edges[j].to => \E z \in 1 .. y - 1 : line[z] = edges[j].from
  BY <1>7 DEF Lined
<1>11. \A j \in more : j \in 1 .. Len(edges) /\ edges[j].from \in ToSet(order)
  BY <1>8, <1>10, <1>7
<1>12. CASE less[x] # 0
  <2>1. b = [ready |-> ready, order |-> order, degree |-> less]
    BY <1>1, <1>2, <1>3, <1>12 DEF Freed
  <2>2. b \in At(ids) /\ Line(b) = line /\ b.order = order /\ b.degree = less
    BY <2>1, <1>4, <1>5 DEF At, Line
  <2>3. \A j \in (1 .. Len(edges)) \ more : edges[j].to \notin ToSet(line)
    BY <1>8, <1>10
  <2>4. Lined(edges, ids, entry, b, more)
    BY <2>2, <2>3, <1>9, <1>10, <1>11 DEF Lined
  <2> QED BY <2>2, <2>4, <1>1, <1>7, <1>8
<1>13. CASE less[x] = 0
  <2>1. b = [ready |-> Append(ready, x), order |-> order, degree |-> less]
    BY <1>1, <1>2, <1>3, <1>13 DEF Freed
  <2>2. PICK tail : tail = Append(line, x)
    OBVIOUS
  <2>3. /\ tail \in Seq(ids) /\ Len(tail) = Len(line) + 1 /\ tail[Len(line) + 1] = x /\ tail # <<>>
        /\ \A y \in 1 .. Len(line) : tail[y] = line[y]
    <3>1. line \in Seq(ids) /\ x \in ids /\ Len(line) \in Nat
      BY <1>6
    <3>2. Len(tail) = Len(line) + 1
      BY <2>2, <3>1
    <3>3. tail # <<>>
      BY <3>1, <3>2
    <3> QED BY <2>2, <3>1, <3>2, <3>3
  <2>4. b \in At(ids) /\ Line(b) = tail /\ b.order = order /\ b.degree = less
    <3>1. Append(ready, x) \in Seq(ids)
      OBVIOUS
    <3>2. order \o Append(ready, x) = tail
      BY <2>2, <1>5, LineFreed
    <3> QED BY <2>1, <3>1, <3>2, <1>4 DEF At, Line
  <2>5. x \notin ToSet(line)
    BY <1>1, <1>10
  <2>6. /\ DOMAIN line = 1 .. Len(line) /\ DOMAIN tail = 1 .. Len(tail) /\ Len(line) \in Nat
        /\ Len(line) # 0
    BY <1>6, <2>3, <1>10
  <2>7. IsInjective(tail) /\ tail[1] = entry
    <3>1. \A y \in 1 .. Len(line) : line[y] # x
      BY <2>5, <2>6 DEF ToSet
    <3>2. \A y, z \in 1 .. Len(line) : line[y] = line[z] => y = z
      BY <1>10, <2>6 DEF IsInjective
    <3>3. \A y \in 1 .. Len(tail) : y \in 1 .. Len(line) \/ y = Len(line) + 1
      BY <2>3, <2>6
    <3>4. \A y, z \in 1 .. Len(tail) : tail[y] = tail[z] => y = z
      BY <3>1, <3>2, <3>3, <2>3
    <3>5. 1 \in 1 .. Len(line)
      BY <2>6
    <3> QED BY <3>4, <3>5, <2>3, <2>6, <1>10 DEF IsInjective
  <2>8. \A j \in (1 .. Len(edges)) \ more : edges[j].to # x
    <3>1. Cardinality(Due(edges, more, x)) = 0 /\ IsFiniteSet(Due(edges, more, x))
      BY <1>9, <1>13
    <3>2. Due(edges, more, x) = {}
      BY <3>1, FS_EmptySet
    <3> QED BY <3>2 DEF Due
  <2>9. \A j \in (1 .. Len(edges)) \ more : edges[j].to \notin ToSet(tail)
    <3>1. \A n \in ToSet(tail) : n = x \/ n \in ToSet(line)
      <4> TAKE n \in ToSet(tail)
      <4>1. PICK y \in 1 .. Len(tail) : n = tail[y]
        BY <2>6 DEF ToSet
      <4>2. y \in 1 .. Len(line) \/ y = Len(line) + 1
        BY <2>3, <2>6
      <4> QED BY <4>1, <4>2, <2>3, <2>6 DEF ToSet
    <3> QED BY <3>1, <2>8, <1>8, <1>10
  <2>10. ASSUME NEW j \in 1 .. Len(edges), NEW y \in 1 .. Len(tail), tail[y] = edges[j].to
         PROVE  \E z \in 1 .. y - 1 : tail[z] = edges[j].from
    <3>1. CASE y = Len(line) + 1
      <4>1. j \in more
        BY <3>1, <2>3, <2>8, <2>10
      <4>2. PICK z \in 1 .. Len(order) : order[z] = edges[j].from
        <5>1. DOMAIN order = 1 .. Len(order)
          OBVIOUS
        <5> QED BY <4>1, <5>1, <1>11 DEF ToSet
      <4>3. z \in 1 .. Len(line) /\ line[z] = order[z]
        BY <1>6
      <4>4. z \in 1 .. y - 1
        BY <4>3, <3>1, <2>6
      <4> QED BY <4>2, <4>3, <4>4, <2>3
    <3>2. CASE y # Len(line) + 1
      <4>1. y \in 1 .. Len(line) /\ line[y] = tail[y]
        BY <3>2, <2>3, <2>6
      <4>2. PICK z \in 1 .. y - 1 : line[z] = edges[j].from
        BY <4>1, <2>10, <1>10
      <4>3. z \in 1 .. Len(line)
        BY <4>1, <2>6
      <4> QED BY <4>2, <4>3, <2>3
    <3> QED BY <3>1, <3>2
  <2>11. Lined(edges, ids, entry, b, more)
    BY <2>3, <2>4, <2>7, <2>9, <2>10, <1>9, <1>11 DEF Lined
  <2> QED BY <2>4, <2>11, <1>1, <1>7, <1>8
<1> QED BY <1>12, <1>13

\* Freeing a stage leaves a state of the planner.
LEMMA FreedIn ==
    ASSUME NEW ids, NEW at \in At(ids), NEW x \in ids
    PROVE  Freed(at, x) \in At(ids)
<1>1. PICK ready \in Seq(ids), order \in Seq(ids), degree \in [ids -> Int] :
        at = [ready |-> ready, order |-> order, degree |-> degree]
  BY DEF At
<1>2. PICK less \in [ids -> Int] : less = [degree EXCEPT ![x] = @ - 1]
  <2>1. degree[x] - 1 \in Int
    OBVIOUS
  <2> QED BY <2>1
<1>3. Append(ready, x) \in Seq(ids)
  OBVIOUS
<1>4. \/ Freed(at, x) = [ready |-> ready, order |-> order, degree |-> less]
      \/ Freed(at, x) = [ready |-> Append(ready, x), order |-> order, degree |-> less]
  BY <1>1, <1>2 DEF Freed
<1>5. /\ [ready |-> ready, order |-> order, degree |-> less] \in At(ids)
      /\ [ready |-> Append(ready, x), order |-> order, degree |-> less] \in At(ids)
  BY <1>3 DEF At
<1> QED BY <1>4, <1>5

\* The table of the loop over the edges that leave n.
FreeTable(edges, ids, n) ==
    [p \in At(ids) \X ToSet(edges) |-> IF p[2].from = n THEN Freed(p[1], p[2].to) ELSE p[1]]

\* Its values are states of the planner.
LEMMA FreeTableIs ==
    ASSUME NEW edges, NEW ids, Joins(edges, ids), NEW n
    PROVE  LET T == FreeTable(edges, ids, n)
           IN  /\ Folds(T, At(ids), ToSet(edges))
               /\ \A v \in At(ids), e \in ToSet(edges) :
                     /\ T[<<v, e>>] = IF e.from = n THEN Freed(v, e.to) ELSE v
                     /\ T[<<v, e>>] \in At(ids)
<1> DEFINE T == FreeTable(edges, ids, n)
<1>1. \A v \in At(ids), e \in ToSet(edges) :
          T[<<v, e>>] = IF e.from = n THEN Freed(v, e.to) ELSE v
  BY DEF FreeTable
<1>2. \A v \in At(ids), e \in ToSet(edges) :
          (IF e.from = n THEN Freed(v, e.to) ELSE v) \in At(ids)
  BY FreedIn DEF Joins
<1>3. Folds(T, At(ids), ToSet(edges))
  BY <1>2 DEF Folds, FreeTable
<1> QED BY <1>1, <1>2, <1>3

\* The loop is the fold of that table.
LEMMA FreeFold ==
    ASSUME NEW edges, edges \in Seq(ToSet(edges)), NEW ids, Joins(edges, ids), NEW n,
           NEW base \in At(ids)
    PROVE  FoldLeft(LAMBDA a, e : IF e.from = n THEN Freed(a, e.to) ELSE a, base, edges) = Fold(FreeTable(edges, ids, n), base, edges)
<1> DEFINE S == DOMAIN edges
           W == At(ids)
           T == FreeTable(edges, ids, n)
           A(h) == h = [s \in SUBSET S |-> IF s = {} THEN base
                                           ELSE IF edges[Max(s)].from = n THEN Freed(h[s \ {Max(s)}], edges[Max(s)].to) ELSE h[s \ {Max(s)}]]
           B(h) == h = [s \in SUBSET S |-> IF s = {} THEN base
                                           ELSE T[<<h[s \ {Max(s)}], edges[Max(s)]>>]]
<1>1. IsFiniteSet(S) /\ S = 1 .. Len(edges) /\ Len(edges) \in Nat
  BY FS_Interval
<1>2. \A s \in SUBSET S : s # {} => Max(s) \in s /\ edges[Max(s)] \in ToSet(edges)
  <2>1. \A s \in SUBSET S : s # {} => Max(s) \in s
    BY <1>1, GreatestIndex
  <2> QED BY <2>1
<1>3. \A v \in W, e \in ToSet(edges) : T[<<v, e>>] = (IF e.from = n THEN Freed(v, e.to) ELSE v) /\ T[<<v, e>>] \in W
  BY FreeTableIs
<1> HIDE DEF T
<1>4. ASSUME NEW h, A(h) \/ B(h) PROVE \A s \in SUBSET S : h[s] \in W
  <2>1. h[{}] \in W
    <3>1. {} \in SUBSET S
      OBVIOUS
    <3> QED BY <3>1, <1>4
  <2>2. ASSUME NEW s \in SUBSET S, s # {}
        PROVE  \E x \in s : h[s \ {x}] \in W => h[s] \in W
    <3>1. Max(s) \in s /\ edges[Max(s)] \in ToSet(edges)
      BY <1>2, <2>2
    <3>2. ASSUME h[s \ {Max(s)}] \in W PROVE h[s] \in W
      <4>1. \/ h[s] = IF edges[Max(s)].from = n THEN Freed(h[s \ {Max(s)}], edges[Max(s)].to) ELSE h[s \ {Max(s)}]
            \/ h[s] = T[<<h[s \ {Max(s)}], edges[Max(s)]>>]
        BY <1>4, <2>2
      <4>2. PICK u \in W, e \in ToSet(edges) : u = h[s \ {Max(s)}] /\ e = edges[Max(s)]
        BY <3>1, <3>2
      <4>3. T[<<u, e>>] = (IF e.from = n THEN Freed(u, e.to) ELSE u) /\ T[<<u, e>>] \in W
        BY <1>3
      <4>4. h[s] = T[<<u, e>>]
        BY <4>1, <4>2, <4>3
      <4> HIDE DEF W
      <4> QED BY <4>3, <4>4
    <3> QED BY <3>1, <3>2
  <2> HIDE DEF S, A, B, W
  <2> QED BY <1>1, <2>1, <2>2, TableStays
<1>5. ASSUME NEW h, \A s \in SUBSET S : h[s] \in W PROVE A(h) <=> B(h)
  <2>1. \A s \in SUBSET S : s # {} =>
            (IF edges[Max(s)].from = n THEN Freed(h[s \ {Max(s)}], edges[Max(s)].to) ELSE h[s \ {Max(s)}]) = T[<<h[s \ {Max(s)}], edges[Max(s)]>>]
    <3> TAKE s \in SUBSET S
    <3> HAVE s # {}
    <3>1. s \ {Max(s)} \in SUBSET S /\ edges[Max(s)] \in ToSet(edges)
      BY <1>2
    <3>2. h[s \ {Max(s)}] \in W
      BY <3>1, <1>5
    <3> HIDE DEF W
    <3> QED BY <3>1, <3>2, <1>3
  <2>2. [s \in SUBSET S |-> IF s = {} THEN base
                            ELSE IF edges[Max(s)].from = n THEN Freed(h[s \ {Max(s)}], edges[Max(s)].to) ELSE h[s \ {Max(s)}]]
        = [s \in SUBSET S |-> IF s = {} THEN base
                              ELSE T[<<h[s \ {Max(s)}], edges[Max(s)]>>]]
    BY <2>1
  <2> QED BY <2>2
<1>6. (CHOOSE h : A(h)) = (CHOOSE h : B(h))
  <2>1. \A h : A(h) <=> B(h)
    BY <1>4, <1>5
  <2> HIDE DEF A, B
  <2> QED BY <2>1
<1>7. FoldLeft(LAMBDA a, e : IF e.from = n THEN Freed(a, e.to) ELSE a, base, edges) = (CHOOSE h : A(h))[S]
  BY DEF FoldLeft, MapThenFoldSet
<1>8. Fold(FreeTable(edges, ids, n), base, edges) = (CHOOSE h : B(h))[S]
  BY DEF Fold, FoldLeft, MapThenFoldSet, T
<1> QED BY <1>6, <1>7, <1>8

\* The state in which the loop over the edges of the first ready stage begins.
Begun(at) == [at EXCEPT !.ready = Tail(@), !.order = Append(@, Head(at.ready))]

\* It is a state of the planner whose line is the same.
LEMMA BegunIs ==
    ASSUME NEW ids, NEW at \in At(ids), at.ready # <<>>
    PROVE  /\ Begun(at) \in At(ids) /\ Line(Begun(at)) = Line(at) /\ Head(at.ready) \in ids
           /\ Begun(at).order = Append(at.order, Head(at.ready)) /\ Begun(at).degree = at.degree
<1>1. PICK ready \in Seq(ids), order \in Seq(ids), degree \in [ids -> Int] :
        at = [ready |-> ready, order |-> order, degree |-> degree]
  BY DEF At
<1>2. ready # <<>>
  BY <1>1
<1>3. Head(ready) \in ids /\ Tail(ready) \in Seq(ids)
  BY <1>2, HeadTailProperties
<1>4. Append(order, Head(ready)) \in Seq(ids)
  BY <1>3
<1>5. Begun(at) = [ready |-> Tail(ready), order |-> Append(order, Head(ready)), degree |-> degree]
  <2>1. at.ready = ready
    BY <1>1
  <2>2. Begun(at) = [at EXCEPT !.ready = Tail(@), !.order = Append(@, Head(ready))]
    BY <2>1 DEF Begun
  <2> QED BY <2>2, <1>1
<1>6. Append(order, Head(ready)) \o Tail(ready) = order \o ready
  BY <1>2, LineTaken
<1>7. PICK b : b = Begun(at)
  OBVIOUS
<1>8. b.ready = Tail(ready) /\ b.order = Append(order, Head(ready)) /\ b.degree = degree
      /\ b \in At(ids)
  BY <1>3, <1>4, <1>5, <1>7 DEF At
<1>9. at.ready = ready /\ at.order = order /\ at.degree = degree
  BY <1>1
<1> QED BY <1>3, <1>6, <1>7, <1>8, <1>9 DEF Line

\* What taking the first ready stage goes through, edge by edge.
LEMMA TakenThrough ==
    ASSUME NEW edges, edges \in Seq(ToSet(edges)), NEW ids, Joins(edges, ids),
           NEW at \in At(ids), at.ready # <<>>
    PROVE  \E h \in [0 .. Len(edges) -> At(ids)] :
              /\ h[0] = Begun(at)
              /\ \A i \in 1 .. Len(edges) :
                    h[i] = IF edges[i].from = Head(at.ready) THEN Freed(h[i - 1], edges[i].to)
                           ELSE h[i - 1]
              /\ Taken(edges, at, Head(at.ready)) = h[Len(edges)]
<1> DEFINE n == Head(at.ready)
           base == Begun(at)
           T == FreeTable(edges, ids, n)
<1>1. Taken(edges, at, n) = FoldLeft(LAMBDA a, e : IF e.from = n THEN Freed(a, e.to) ELSE a, base, edges)
  BY DEF Taken, Begun
<1>2. base \in At(ids)
  BY BegunIs
<1>3. Taken(edges, at, n) = Fold(T, base, edges)
  <2> HIDE DEF n, base
  <2> QED BY <1>1, <1>2, FreeFold
<1>4. /\ Folds(T, At(ids), ToSet(edges))
      /\ \A v \in At(ids), e \in ToSet(edges) :
            T[<<v, e>>] = IF e.from = n THEN Freed(v, e.to) ELSE v
  BY FreeTableIs
<1>5. PICK h \in [0 .. Len(edges) -> At(ids)] :
          Through(h, T, base, edges) /\ Fold(T, base, edges) = h[Len(edges)]
  <2> HIDE DEF T, base
  <2> QED BY <1>2, <1>4, FoldThrough
<1>6. ASSUME NEW i \in 1 .. Len(edges)
      PROVE  h[i] = IF edges[i].from = n THEN Freed(h[i - 1], edges[i].to) ELSE h[i - 1]
  <2>1. i - 1 \in 0 .. Len(edges) /\ edges[i] \in ToSet(edges)
    BY DEF ToSet
  <2>2. h[i - 1] \in At(ids)
    BY <2>1
  <2>3. h[i] = T[<<h[i - 1], edges[i]>>]
    BY <1>5 DEF Through
  <2> HIDE DEF T, n
  <2> QED BY <2>1, <2>2, <2>3, <1>4
<1>7. h[0] = base
  BY <1>5 DEF Through
<1> HIDE DEF n, base, T
<1>8. Taken(edges, at, n) = h[Len(edges)]
  BY <1>3, <1>5
<1> QED BY <1>6, <1>7, <1>8 DEF n, base

\* Taking a stage gives a state of the planner,
LEMMA TakenIn ==
    ASSUME NEW edges, edges \in Seq(ToSet(edges)), NEW ids, Joins(edges, ids),
           NEW at \in At(ids), at.ready # <<>>
    PROVE  Taken(edges, at, Head(at.ready)) \in At(ids)
<1>1. PICK h \in [0 .. Len(edges) -> At(ids)] :
        Taken(edges, at, Head(at.ready)) = h[Len(edges)]
  BY TakenThrough
<1>2. Len(edges) \in 0 .. Len(edges)
  OBVIOUS
<1> QED BY <1>1, <1>2

\* and what it was to be: all edges of that stage are gone, and no others.
LEMMA TakenLined ==
    ASSUME NEW edges, edges \in Seq(ToSet(edges)), NEW ids, Joins(edges, ids), NEW entry,
           NEW at, Lined(edges, ids, entry, at, Gone(edges, at.order)), at.ready # <<>>
    PROVE  LET b == Taken(edges, at, Head(at.ready))
           IN  Lined(edges, ids, entry, b, Gone(edges, b.order))
<1>0. at \in At(ids) /\ Len(edges) \in Nat
  BY DEF Lined
<1>1. PICK n, order, more : n = Head(at.ready) /\ order = at.order /\ more = Append(order, n)
  OBVIOUS
<1>2. PICK h \in [0 .. Len(edges) -> At(ids)] :
          /\ h[0] = Begun(at)
          /\ \A i \in 1 .. Len(edges) :
                h[i] = IF edges[i].from = n THEN Freed(h[i - 1], edges[i].to) ELSE h[i - 1]
          /\ Taken(edges, at, n) = h[Len(edges)]
  BY <1>0, <1>1, TakenThrough
<1>3. /\ h[0] \in At(ids) /\ Line(h[0]) = Line(at) /\ n \in ids /\ h[0].order = more
      /\ h[0].degree = at.degree
  BY <1>0, <1>1, <1>2, BegunIs
<1>4. order \in Seq(ids) /\ at.ready \in Seq(ids)
  BY <1>0, <1>1 DEF At
<1>5. /\ more \in Seq(ids) /\ Len(more) = Len(order) + 1 /\ more[Len(more)] = n
      /\ Len(order) \in Nat /\ Len(more) \in Nat
      /\ \A y \in 1 .. Len(order) : more[y] = order[y]
  <2>1. Len(order) \in Nat /\ more \in Seq(ids)
    BY <1>1, <1>3, <1>4
  <2> QED BY <2>1, <1>1, <1>3, <1>4, AppendProperties
<1>6. ToSet(more) = ToSet(order) \cup {n}
  <2>1. DOMAIN more = 1 .. Len(more) /\ DOMAIN order = 1 .. Len(order)
    BY <1>4, <1>5
  <2>2. \A y \in 1 .. Len(more) : y \in 1 .. Len(order) \/ y = Len(more)
    BY <1>5
  <2>3. Len(more) \in 1 .. Len(more) /\ \A y \in 1 .. Len(order) : y \in 1 .. Len(more)
    BY <1>5
  <2> QED BY <2>1, <2>2, <2>3, <1>5 DEF ToSet
<1>7. n \notin ToSet(order)
  <2>1. PICK line : line = Line(at)
    OBVIOUS
  <2>2. IsInjective(line)
    BY <2>1 DEF Lined
  <2>3. /\ line \in Seq(ids) /\ Len(line) = Len(order) + Len(at.ready)
        /\ \A i \in 1 .. Len(order) + Len(at.ready) :
              line[i] = IF i <= Len(order) THEN order[i] ELSE at.ready[i - Len(order)]
    BY <2>1, <1>1, <1>4, ConcatProperties DEF Line
  <2>4. Len(at.ready) \in Nat \ {0} /\ at.ready[1] = n
    BY <1>1, <1>4
  <2>5. /\ Len(order) + 1 \in 1 .. Len(line) /\ line[Len(order) + 1] = n
    BY <2>3, <2>4, <1>5
  <2>6. DOMAIN line = 1 .. Len(line)
    BY <2>3
  <2>7. ASSUME NEW y \in 1 .. Len(order), order[y] = n PROVE FALSE
    <3>1. y \in 1 .. Len(line) /\ line[y] = n /\ y # Len(order) + 1
      BY <2>3, <2>4, <2>7, <1>5
    <3> QED BY <3>1, <2>2, <2>5, <2>6 DEF IsInjective
  <2>8. DOMAIN order = 1 .. Len(order)
    BY <1>4
  <2> QED BY <2>7, <2>8 DEF ToSet
<1> DEFINE After(k) == {i \in 1 .. Len(edges) :
                          edges[i].from \in ToSet(more) /\ (edges[i].from # n \/ i <= k)}
           Inner(k) == Lined(edges, ids, entry, h[k], After(k)) /\ h[k].order = more
           K == {k \in 0 .. Len(edges) : Inner(k)}
<1>8. Inner(0)
  <2>1. After(0) = Gone(edges, order)
    BY <1>6, <1>7 DEF Gone
  <2>2. Lined(edges, ids, entry, h[0], Gone(edges, order))
    BY <1>1, <1>3, <1>6 DEF Lined
  <2> QED BY <2>1, <2>2, <1>3
<1>9. ASSUME NEW k \in 1 .. Len(edges), Inner(k - 1) PROVE Inner(k)
  <2>1. PICK a, gone : a = h[k - 1] /\ gone = After(k - 1)
    OBVIOUS
  <2>2. Lined(edges, ids, entry, a, gone) /\ a.order = more
    BY <2>1, <1>9
  <2>3. CASE edges[k].from = n
    <3>1. k \notin gone /\ edges[k].from \in ToSet(a.order)
      BY <2>1, <2>2, <2>3, <1>6
    <3>2. After(k) = gone \cup {k}
      BY <2>1, <2>3, <1>6
    <3>3. h[k] = Freed(a, edges[k].to)
      BY <2>1, <2>3, <1>2
    <3>4. Lined(edges, ids, entry, Freed(a, edges[k].to), gone \cup {k})
          /\ Freed(a, edges[k].to).order = a.order
      BY <2>2, <3>1, FreedLined
    <3> QED BY <3>2, <3>3, <3>4, <2>2
  <2>4. CASE edges[k].from # n
    <3>1. After(k) = gone
      BY <2>1, <2>4
    <3>2. h[k] = a
      BY <2>1, <2>4, <1>2
    <3> QED BY <3>1, <3>2, <2>2
  <2> QED BY <2>3, <2>4
<1>10. Inner(Len(edges))
  <2>1. 0 \in K /\ \A k \in 1 .. Len(edges) : k - 1 \in K => k \in K
    <3>1. 0 \in 0 .. Len(edges) /\ \A k \in 1 .. Len(edges) : k \in 0 .. Len(edges)
      BY <1>0
    <3> HIDE DEF Inner
    <3> QED BY <3>1, <1>8, <1>9
  <2>2. Len(edges) \in K
    <3> HIDE DEF K
    <3> QED BY <1>0, <2>1, UpTo
  <2> QED BY <2>2
<1>11. After(Len(edges)) = Gone(edges, more)
  BY <1>0 DEF Gone
<1> QED BY <1>1, <1>2, <1>10, <1>11

\* The table of the loop over the stages, which takes one while there is one that is ready.
TakeTable(nodes, edges) ==
    [p \in At(Ids(nodes)) \X ToSet(nodes) |->
        IF p[1].ready = <<>> THEN p[1] ELSE Taken(edges, p[1], Head(p[1].ready))]

\* Its values are states of the planner.
LEMMA TakeTableIs ==
    ASSUME NEW nodes, NEW edges, edges \in Seq(ToSet(edges)), Joins(edges, Ids(nodes))
    PROVE  LET T == TakeTable(nodes, edges)
           IN  /\ Folds(T, At(Ids(nodes)), ToSet(nodes))
               /\ \A v \in At(Ids(nodes)), e \in ToSet(nodes) :
                     /\ T[<<v, e>>] = IF v.ready = <<>> THEN v ELSE Taken(edges, v, Head(v.ready))
                     /\ T[<<v, e>>] \in At(Ids(nodes))
<1> DEFINE T == TakeTable(nodes, edges)
<1>1. \A v \in At(Ids(nodes)), e \in ToSet(nodes) :
          T[<<v, e>>] = IF v.ready = <<>> THEN v ELSE Taken(edges, v, Head(v.ready))
  BY DEF TakeTable
<1>2. \A v \in At(Ids(nodes)) :
          (IF v.ready = <<>> THEN v ELSE Taken(edges, v, Head(v.ready))) \in At(Ids(nodes))
  BY TakenIn
<1>3. Folds(T, At(Ids(nodes)), ToSet(nodes))
  BY <1>2 DEF Folds, TakeTable
<1> QED BY <1>1, <1>2, <1>3

\* The loop is the fold of that table.
LEMMA TakeFold ==
    ASSUME NEW nodes, nodes \in Seq(ToSet(nodes)), NEW edges, edges \in Seq(ToSet(edges)),
           Joins(edges, Ids(nodes)), NEW base \in At(Ids(nodes))
    PROVE  FoldLeft(LAMBDA at, node : IF at.ready = <<>> THEN at ELSE Taken(edges, at, Head(at.ready)), base, nodes) = Fold(TakeTable(nodes, edges), base, nodes)
<1> DEFINE S == DOMAIN nodes
           W == At(Ids(nodes))
           T == TakeTable(nodes, edges)
           A(h) == h = [s \in SUBSET S |-> IF s = {} THEN base
                                           ELSE IF h[s \ {Max(s)}].ready = <<>> THEN h[s \ {Max(s)}] ELSE Taken(edges, h[s \ {Max(s)}], Head(h[s \ {Max(s)}].ready))]
           B(h) == h = [s \in SUBSET S |-> IF s = {} THEN base
                                           ELSE T[<<h[s \ {Max(s)}], nodes[Max(s)]>>]]
<1>1. IsFiniteSet(S) /\ S = 1 .. Len(nodes) /\ Len(nodes) \in Nat
  BY FS_Interval
<1>2. \A s \in SUBSET S : s # {} => Max(s) \in s /\ nodes[Max(s)] \in ToSet(nodes)
  <2>1. \A s \in SUBSET S : s # {} => Max(s) \in s
    BY <1>1, GreatestIndex
  <2> QED BY <2>1
<1>3. \A v \in W, e \in ToSet(nodes) : T[<<v, e>>] = (IF v.ready = <<>> THEN v ELSE Taken(edges, v, Head(v.ready))) /\ T[<<v, e>>] \in W
  BY TakeTableIs
<1> HIDE DEF T
<1>4. ASSUME NEW h, A(h) \/ B(h) PROVE \A s \in SUBSET S : h[s] \in W
  <2>1. h[{}] \in W
    <3>1. {} \in SUBSET S
      OBVIOUS
    <3> QED BY <3>1, <1>4
  <2>2. ASSUME NEW s \in SUBSET S, s # {}
        PROVE  \E x \in s : h[s \ {x}] \in W => h[s] \in W
    <3>1. Max(s) \in s /\ nodes[Max(s)] \in ToSet(nodes)
      BY <1>2, <2>2
    <3>2. ASSUME h[s \ {Max(s)}] \in W PROVE h[s] \in W
      <4>1. \/ h[s] = IF h[s \ {Max(s)}].ready = <<>> THEN h[s \ {Max(s)}] ELSE Taken(edges, h[s \ {Max(s)}], Head(h[s \ {Max(s)}].ready))
            \/ h[s] = T[<<h[s \ {Max(s)}], nodes[Max(s)]>>]
        BY <1>4, <2>2
      <4> HIDE DEF W
      <4> QED BY <4>1, <3>1, <3>2, <1>3
    <3> QED BY <3>1, <3>2
  <2> HIDE DEF S, A, B, W
  <2> QED BY <1>1, <2>1, <2>2, TableStays
<1>5. ASSUME NEW h, \A s \in SUBSET S : h[s] \in W PROVE A(h) <=> B(h)
  <2>1. \A s \in SUBSET S : s # {} =>
            (IF h[s \ {Max(s)}].ready = <<>> THEN h[s \ {Max(s)}] ELSE Taken(edges, h[s \ {Max(s)}], Head(h[s \ {Max(s)}].ready))) = T[<<h[s \ {Max(s)}], nodes[Max(s)]>>]
    <3> TAKE s \in SUBSET S
    <3> HAVE s # {}
    <3>1. s \ {Max(s)} \in SUBSET S /\ nodes[Max(s)] \in ToSet(nodes)
      BY <1>2
    <3>2. h[s \ {Max(s)}] \in W
      BY <3>1, <1>5
    <3> HIDE DEF W
    <3> QED BY <3>1, <3>2, <1>3
  <2>2. [s \in SUBSET S |-> IF s = {} THEN base
                            ELSE IF h[s \ {Max(s)}].ready = <<>> THEN h[s \ {Max(s)}] ELSE Taken(edges, h[s \ {Max(s)}], Head(h[s \ {Max(s)}].ready))]
        = [s \in SUBSET S |-> IF s = {} THEN base
                              ELSE T[<<h[s \ {Max(s)}], nodes[Max(s)]>>]]
    BY <2>1
  <2> QED BY <2>2
<1>6. (CHOOSE h : A(h)) = (CHOOSE h : B(h))
  <2>1. \A h : A(h) <=> B(h)
    BY <1>4, <1>5
  <2> HIDE DEF A, B
  <2> QED BY <2>1
<1>7. FoldLeft(LAMBDA at, node : IF at.ready = <<>> THEN at ELSE Taken(edges, at, Head(at.ready)), base, nodes) = (CHOOSE h : A(h))[S]
  BY DEF FoldLeft, MapThenFoldSet
<1>8. Fold(TakeTable(nodes, edges), base, nodes) = (CHOOSE h : B(h))[S]
  BY DEF Fold, FoldLeft, MapThenFoldSet, T
<1> QED BY <1>6, <1>7, <1>8

\* The order of the stages: no stage twice, the entry first, and each after those leading to it.
LEMMA OrderStands ==
    ASSUME NEW nodes, nodes \in Seq(ToSet(nodes)), NEW edges, edges \in Seq(ToSet(edges)),
           Joins(edges, Ids(nodes)), NEW entry \in Ids(nodes), InDegree(edges, entry) = 0
    PROVE  LET order == StageOrder(nodes, edges, entry)
           IN  /\ order \in Seq(Ids(nodes)) /\ IsInjective(order)
               /\ order # <<>> => order[1] = entry
               /\ \A i \in 1 .. Len(edges), y \in 1 .. Len(order) :
                     order[y] = edges[i].to => \E x \in 1 .. y - 1 : order[x] = edges[i].from
<1> DEFINE ids == Ids(nodes)
           base == [ready |-> <<entry>>, order |-> <<>>,
                    degree |-> [n \in ids |-> InDegree(edges, n)]]
           T == TakeTable(nodes, edges)
<1>0. Len(edges) \in Nat /\ Len(nodes) \in Nat /\ DOMAIN edges = 1 .. Len(edges)
  OBVIOUS
<1>1. \A n \in ids : /\ InDegree(edges, n) = Cardinality(Due(edges, {}, n))
                     /\ IsFiniteSet(Due(edges, {}, n)) /\ InDegree(edges, n) \in Int
  <2> TAKE n \in ids
  <2>1. {i \in DOMAIN edges : edges[i].to = n} = Due(edges, {}, n)
    BY <1>0 DEF Due
  <2>2. IsFiniteSet(1 .. Len(edges)) /\ Due(edges, {}, n) \subseteq 1 .. Len(edges)
    BY <1>0, FS_Interval DEF Due
  <2> QED BY <2>1, <2>2, FS_Subset, FS_CardinalityType DEF InDegree
<1>2. base \in At(ids)
  <2>1. [n \in ids |-> InDegree(edges, n)] \in [ids -> Int]
    BY <1>1
  <2>2. <<entry>> \in Seq(ids) /\ <<>> \in Seq(ids)
    OBVIOUS
  <2> QED BY <2>1, <2>2 DEF At
<1>3. Lined(edges, ids, entry, base, Gone(edges, base.order))
  <2>1. Gone(edges, base.order) = {}
    BY DEF Gone, ToSet
  <2>2. Line(base) = <<entry>>
    <3>1. <<entry>> \in Seq(ids)
      OBVIOUS
    <3> QED BY <3>1, ConcatEmptySeq DEF Line
  <2>3. \A i \in 1 .. Len(edges) : edges[i].to # entry
    <3>1. Due(edges, {}, entry) = {}
      BY <1>1, FS_EmptySet
    <3> QED BY <3>1 DEF Due
  <2>4. PICK line : line = <<entry>>
    OBVIOUS
  <2>5. /\ DOMAIN line = {1} /\ Len(line) = 1 /\ line[1] = entry /\ line # <<>>
        /\ IsInjective(line) /\ ToSet(line) = {entry}
    BY <2>4 DEF IsInjective, ToSet
  <2>6. \A i \in 1 .. Len(edges), y \in 1 .. Len(line) :
            line[y] = edges[i].to => \E x \in 1 .. y - 1 : line[x] = edges[i].from
    BY <2>3, <2>5
  <2>7. \A n \in ids : base.degree[n] = Cardinality(Due(edges, {}, n))
    BY <1>1
  <2>8. PICK b, gone : b = base /\ gone = {}
    OBVIOUS
  <2>9. b \in At(ids) /\ Line(b) = line /\ \A n \in ids : b.degree[n] = Cardinality(Due(edges, gone, n))
    <3> HIDE DEF base
    <3> QED BY <2>2, <2>4, <2>7, <2>8, <1>2
  <2>10. \A i \in (1 .. Len(edges)) \ gone : edges[i].to \notin ToSet(line)
    BY <2>3, <2>5
  <2>11. \A i \in gone : i \in 1 .. Len(edges) /\ edges[i].from \in ToSet(b.order)
    BY <2>8
  <2>12. Lined(edges, ids, entry, b, gone)
    <3>1. IsInjective(Line(b)) /\ Line(b) # <<>> /\ Line(b)[1] = entry
      BY <2>5, <2>9
    <3>2. \A i \in (1 .. Len(edges)) \ gone : edges[i].to \notin ToSet(Line(b))
      BY <2>9, <2>10
    <3>3. \A i \in 1 .. Len(edges), y \in 1 .. Len(Line(b)) :
              Line(b)[y] = edges[i].to => \E x \in 1 .. y - 1 : Line(b)[x] = edges[i].from
      BY <2>6, <2>9
    <3> QED BY <2>9, <2>11, <3>1, <3>2, <3>3 DEF Lined
  <2> HIDE DEF base
  <2> QED BY <2>1, <2>8, <2>12
<1>4. StageOrder(nodes, edges, entry) = Fold(T, base, nodes).order
  <2>1. StageOrder(nodes, edges, entry) =
          FoldLeft(LAMBDA at, node : IF at.ready = <<>> THEN at ELSE Taken(edges, at, Head(at.ready)),
                   base, nodes).order
    BY DEF StageOrder
  <2> HIDE DEF base
  <2> QED BY <2>1, <1>2, TakeFold
<1> HIDE DEF base
<1>5. /\ Folds(T, At(ids), ToSet(nodes))
      /\ \A v \in At(ids), e \in ToSet(nodes) :
            T[<<v, e>>] = IF v.ready = <<>> THEN v ELSE Taken(edges, v, Head(v.ready))
  BY TakeTableIs
<1>6. PICK h \in [0 .. Len(nodes) -> At(ids)] :
          Through(h, T, base, nodes) /\ Fold(T, base, nodes) = h[Len(nodes)]
  <2> HIDE DEF T
  <2> QED BY <1>2, <1>5, FoldThrough
<1> DEFINE K == {i \in 0 .. Len(nodes) : Lined(edges, ids, entry, h[i], Gone(edges, h[i].order))}
<1>7. 0 \in K
  BY <1>0, <1>3, <1>6 DEF Through
<1>8. ASSUME NEW i \in 1 .. Len(nodes), i - 1 \in K PROVE i \in K
  <2>0. i - 1 \in 0 .. Len(nodes) /\ i \in 0 .. Len(nodes) /\ nodes[i] \in ToSet(nodes)
    BY <1>0 DEF ToSet
  <2>1. PICK a, b : a = h[i - 1] /\ b = h[i]
    OBVIOUS
  <2>2. Lined(edges, ids, entry, a, Gone(edges, a.order)) /\ a \in At(ids)
    BY <2>1, <1>8 DEF Lined
  <2>3. b = IF a.ready = <<>> THEN a ELSE Taken(edges, a, Head(a.ready))
    <3>1. b = T[<<a, nodes[i]>>]
      BY <2>1, <1>6 DEF Through
    <3> HIDE DEF T
    <3> QED BY <3>1, <2>0, <2>2, <1>5
  <2>4. Lined(edges, ids, entry, b, Gone(edges, b.order))
    <3>1. CASE a.ready = <<>>
      BY <3>1, <2>2, <2>3
    <3>2. CASE a.ready # <<>>
      BY <3>2, <2>2, <2>3, TakenLined
    <3> QED BY <3>1, <3>2
  <2> QED BY <2>0, <2>1, <2>4
<1>9. Len(nodes) \in K
  <2> HIDE DEF K
  <2> QED BY <1>0, <1>7, <1>8, UpTo
<1>10. PICK z : z = h[Len(nodes)] /\ Lined(edges, ids, entry, z, Gone(edges, z.order))
  BY <1>9
<1>11. PICK order, ready, line :
           /\ order \in Seq(ids) /\ ready \in Seq(ids)
           /\ order = z.order /\ ready = z.ready /\ line = Line(z)
  BY <1>10 DEF Lined, At
<1> order \in Seq(ids) /\ ready \in Seq(ids)
  BY <1>11
<1>12. /\ line \in Seq(ids) /\ Len(order) \in Nat /\ Len(line) \in Nat /\ Len(order) <= Len(line)
       /\ \A y \in 1 .. Len(order) : y \in 1 .. Len(line) /\ line[y] = order[y]
  <2>1. /\ line \in Seq(ids) /\ Len(line) = Len(order) + Len(ready)
        /\ \A i \in 1 .. Len(order) + Len(ready) :
              line[i] = IF i <= Len(order) THEN order[i] ELSE ready[i - Len(order)]
    BY <1>11, ConcatProperties DEF Line
  <2>2. Len(order) \in Nat /\ Len(ready) \in Nat
    OBVIOUS
  <2> QED BY <2>1, <2>2
<1>13. DOMAIN order = 1 .. Len(order) /\ DOMAIN line = 1 .. Len(line)
  BY <1>12
<1>14. IsInjective(order)
  <2>1. IsInjective(line)
    BY <1>10, <1>11 DEF Lined
  <2> QED BY <2>1, <1>12, <1>13 DEF IsInjective
<1>15. order # <<>> => order[1] = entry
  <2>1. line[1] = entry
    BY <1>10, <1>11 DEF Lined
  <2> QED BY <2>1, <1>12
<1>16. ASSUME NEW i \in 1 .. Len(edges), NEW y \in 1 .. Len(order), order[y] = edges[i].to
       PROVE  \E x \in 1 .. y - 1 : order[x] = edges[i].from
  <2>1. \A j \in 1 .. Len(edges), v \in 1 .. Len(line) :
            line[v] = edges[j].to => \E x \in 1 .. v - 1 : line[x] = edges[j].from
    BY <1>10, <1>11 DEF Lined
  <2>2. PICK x \in 1 .. y - 1 : line[x] = edges[i].from
    BY <2>1, <1>16, <1>12
  <2>3. x \in 1 .. Len(order)
    BY <1>12
  <2> QED BY <2>2, <2>3, <1>12
<1>17. order = StageOrder(nodes, edges, entry)
  BY <1>4, <1>6, <1>10, <1>11
<1> QED BY <1>14, <1>15, <1>16, <1>17

\* What PipelineRuns says of a definition.
Runnable(plan) ==
    LET place(n) == CHOOSE i \in DOMAIN plan.order : plan.order[i] = n
    IN  /\ ToSet(plan.order) = Ids(plan.graph.nodes)
        /\ IsInjective(plan.order)
        /\ plan.order # <<>> => plan.order[1] = plan.entry
        /\ \A n \in Ids(plan.graph.nodes) :
              \A port \in DOMAIN plan.transitions[n] :
                  place(n) < place(plan.transitions[n][port])
        /\ plan.order # <<>> =>
              ReachedFrom(plan.graph.edges, plan.entry, Ids(plan.graph.nodes))
                  = Ids(plan.graph.nodes)

\* An injective list as long as the set is has all of it.
LEMMA FullList ==
    ASSUME NEW S, IsFiniteSet(S), NEW list \in Seq(S), IsInjective(list), Len(list) = Cardinality(S)
    PROVE  ToSet(list) = S
<1>1. DOMAIN list = 1 .. Len(list) /\ Len(list) \in Nat /\ ToSet(list) \subseteq S
  BY DEF ToSet
<1>2. list \in Surjection(1 .. Len(list), ToSet(list)) /\ list \in Injection(1 .. Len(list), ToSet(list))
  BY <1>1 DEF ToSet, Surjection, Injection
<1>3. IsFiniteSet(1 .. Len(list)) /\ Cardinality(1 .. Len(list)) = Len(list)
  BY <1>1, FS_Interval
<1>4. Cardinality(ToSet(list)) = Len(list)
  BY <1>2, <1>3, FS_Surjection
<1> QED BY <1>1, <1>4, FS_Subset

\* A plan can be run.
LEMMA PlanRuns ==
    ASSUME NEW graph, graph.nodes \in Seq(ToSet(graph.nodes)),
           graph.edges \in Seq(ToSet(graph.edges)), Joins(graph.edges, Ids(graph.nodes)),
           NEW plan \in RouterPlan(graph)
    PROVE  Runnable(plan) /\ plan.graph = graph
<1> DEFINE nodes == graph.nodes
           edges == graph.edges
           ids == Ids(nodes)
           starts == {n \in ids : InDegree(edges, n) = 0}
           entry == CHOOSE n \in starts : TRUE
           order == StageOrder(nodes, edges, entry)
           leaving(n) == {e \in ToSet(edges) : e.from = n}
           moves == [n \in ids |-> [port \in {e.out : e \in leaving(n)} |->
                                      (CHOOSE e \in leaving(n) : e.out = port).to]]
<1>1. CASE ids = {}
  <2>1. plan = [graph |-> graph, entry |-> NoGraph, order |-> <<>>, transitions |-> <<>>]
    BY <1>1 DEF RouterPlan
  <2>2. plan.order = <<>> /\ plan.graph = graph /\ plan.graph.nodes = nodes
    BY <2>1
  <2> QED BY <2>2, <1>1 DEF Runnable, ToSet, IsInjective
<1>2. CASE ids # {}
  <2>1. /\ plan = [graph |-> graph, entry |-> entry, order |-> order, transitions |-> moves]
        /\ Cardinality(starts) = 1 /\ Connected(graph, entry) /\ Len(order) = Cardinality(ids)
    BY <1>2 DEF RouterPlan
  <2>2. entry \in ids /\ InDegree(edges, entry) = 0
    <3>1. starts # {}
      <4> HIDE DEF starts
      <4>1. Cardinality(starts) # Cardinality({})
        BY <2>1, FS_EmptySet
      <4> QED BY <4>1, Zenon
    <3> QED BY <3>1
  <2> HIDE DEF entry
  <2>3. /\ order \in Seq(ids) /\ IsInjective(order)
        /\ order # <<>> => order[1] = entry
        /\ \A i \in 1 .. Len(edges), y \in 1 .. Len(order) :
              order[y] = edges[i].to => \E x \in 1 .. y - 1 : order[x] = edges[i].from
    <3>1. /\ nodes \in Seq(ToSet(nodes)) /\ edges \in Seq(ToSet(edges)) /\ Joins(edges, Ids(nodes))
          /\ entry \in Ids(nodes) /\ InDegree(edges, entry) = 0
      BY <2>2
    <3> HIDE DEF nodes, edges
    <3> QED BY <3>1, OrderStands
  <2> HIDE DEF order
  <2>4. ToSet(order) = ids
    <3>1. IsFiniteSet(ids)
      BY IdsFinite
    <3> HIDE DEF ids
    <3> QED BY <3>1, <2>1, <2>3, FullList
  <2> DEFINE place(n) == CHOOSE i \in DOMAIN order : order[i] = n
  <2>5. DOMAIN order = 1 .. Len(order) /\ Len(order) \in Nat
    BY <2>3
  <2>6. \A i \in 1 .. Len(order) : place(order[i]) = i
    BY <2>3, <2>5 DEF IsInjective
  <2>7. ASSUME NEW n \in ids, NEW port \in DOMAIN moves[n]
        PROVE  place(n) < place(moves[n][port])
    <3>1. PICK e \in ToSet(edges) : e.from = n /\ moves[n][port] = e.to
      BY <2>7
    <3>2. PICK j \in 1 .. Len(edges) : e = edges[j]
      BY <3>1 DEF ToSet
    <3>3. e.to \in ids
      BY <3>1 DEF Joins
    <3>4. PICK y \in 1 .. Len(order) : order[y] = e.to
      BY <3>3, <2>4, <2>5 DEF ToSet
    <3>5. PICK x \in 1 .. y - 1 : order[x] = e.from
      BY <3>2, <3>4, <2>3
    <3>6. x \in 1 .. Len(order) /\ x < y
      BY <2>5
    <3>7. place(n) = x /\ place(e.to) = y
      BY <2>6, <3>1, <3>4, <3>5, <3>6
    <3> QED BY <3>1, <3>6, <3>7
  <2>8. plan.order = order /\ plan.graph = graph /\ plan.entry = entry /\ plan.transitions = moves
    BY <2>1
  <2> HIDE DEF moves
  <2>9. ReachedFrom(edges, entry, ids) = ids
    BY <2>1 DEF Connected
  <2>10. \A n \in Ids(plan.graph.nodes) : \A port \in DOMAIN plan.transitions[n] :
            (CHOOSE i \in DOMAIN plan.order : plan.order[i] = n)
               < (CHOOSE i \in DOMAIN plan.order : plan.order[i] = plan.transitions[n][port])
    <3> TAKE n \in Ids(plan.graph.nodes)
    <3> TAKE port \in DOMAIN plan.transitions[n]
    <3>1. n \in ids /\ port \in DOMAIN moves[n]
      BY <2>8
    <3>2. place(n) < place(moves[n][port])
      BY <3>1, <2>7
    <3>3. plan.order = order /\ plan.transitions[n][port] = moves[n][port]
      BY <2>8
    <3> HIDE DEF ids
    <3> QED BY <3>2, <3>3
  <2> QED BY <2>3, <2>4, <2>8, <2>9, <2>10 DEF Runnable
<1> QED BY <1>1, <1>2
-----------------------------------------------------------------------------
(* What is stored *)

\* A list is one of its own elements.
LEMMA OwnElements ==
    ASSUME NEW S, NEW list \in Seq(S)
    PROVE  list \in Seq(ToSet(list)) /\ ToSet(list) \subseteq S
<1>1. DOMAIN list = 1 .. Len(list) /\ Len(list) \in Nat /\ list \in [1 .. Len(list) -> S]
  OBVIOUS
<1>2. list \in [1 .. Len(list) -> ToSet(list)]
  BY <1>1 DEF ToSet
<1>3. list \in Seq(ToSet(list))
  BY <1>1, <1>2
<1>4. ToSet(list) \subseteq S
  BY <1>1 DEF ToSet
<1> QED BY <1>3, <1>4

\* A resolved edge joins what the drawn one joins, by ports that fit.
LEMMA ResolvedFits ==
    ASSUME NEW source, NEW target, NEW edge, NEW e \in Resolved(source, target, edge)
    PROVE  \E i \in DOMAIN source.out, j \in DOMAIN target.in :
              /\ Compatible(source.out[i].type, target.in[j].type)
              /\ e = [from |-> edge.from, out |-> source.out[i].id,
                      to |-> edge.to, in |-> target.in[j].id]
BY DEF Resolved, Offered

\* The edges of a normalised graph join its stages by ports that fit.
Fits(studio, nodes, e) ==
    \E i \in DOMAIN PortsAt(studio, nodes, e.from).out, j \in DOMAIN PortsAt(studio, nodes, e.to).in :
        /\ e.out = PortsAt(studio, nodes, e.from).out[i].id
        /\ e.in = PortsAt(studio, nodes, e.to).in[j].id
        /\ Compatible(PortsAt(studio, nodes, e.from).out[i].type,
                      PortsAt(studio, nodes, e.to).in[j].type)

\* An edge that is kept joins two different stages by ports that fit.
LEMMA CleanedFits ==
    ASSUME NEW studio, NEW nodes, NEW edge, NEW e \in Cleaned(studio, nodes, edge)
    PROVE  /\ e.from = edge.from /\ e.to = edge.to /\ e.from # e.to
           /\ e.from \in Ids(nodes) /\ e.to \in Ids(nodes) /\ Fits(studio, nodes, e)
<1>1. /\ {edge.from, edge.to} \subseteq Ids(nodes) /\ edge.from # edge.to
      /\ e \in Resolved(PortsAt(studio, nodes, edge.from), PortsAt(studio, nodes, edge.to), edge)
  BY DEF Cleaned
<1>2. PICK source, target : source = PortsAt(studio, nodes, edge.from)
                            /\ target = PortsAt(studio, nodes, edge.to)
  OBVIOUS
<1>3. PICK i \in DOMAIN source.out, j \in DOMAIN target.in :
        /\ Compatible(source.out[i].type, target.in[j].type)
        /\ e = [from |-> edge.from, out |-> source.out[i].id, to |-> edge.to, in |-> target.in[j].id]
  BY <1>1, <1>2, ResolvedFits
<1>4. e.from = edge.from /\ e.to = edge.to /\ e.out = source.out[i].id /\ e.in = target.in[j].id
  BY <1>3
<1> QED BY <1>1, <1>2, <1>3, <1>4 DEF Fits

\* What a normalised graph is.
LEMMA NormalizedIs ==
    ASSUME NEW studio, NEW nodes, NEW edges, edges \in Seq(ToSet(edges)),
           NEW g \in Normalized(studio, nodes, edges)
    PROVE  /\ g.nodes = nodes /\ Cardinality(Ids(nodes)) = Len(nodes)
           /\ g.edges \in Seq(ToSet(g.edges)) /\ Joins(g.edges, Ids(nodes))
           /\ IsInjective(g.edges)
           /\ \A i \in DOMAIN nodes : nodes[i].type \in DOMAIN PortTables[studio]
           /\ \A e \in ToSet(g.edges) : Fits(studio, nodes, e)
<1> DEFINE clean == [i \in DOMAIN edges |-> Cleaned(studio, nodes, edges[i])]
           chosen == [i \in DOMAIN edges |-> CHOOSE e \in clean[i] : TRUE]
<1>1. /\ g = [nodes |-> nodes, edges |-> chosen] /\ Cardinality(Ids(nodes)) = Len(nodes)
      /\ \A i \in DOMAIN nodes : nodes[i].type \in DOMAIN PortTables[studio]
      /\ \A i \in DOMAIN edges : clean[i] # {}
      /\ IsInjective(chosen)
  BY DEF Normalized, Distinct
<1>2. \A i \in DOMAIN edges : chosen[i] \in Cleaned(studio, nodes, edges[i])
  BY <1>1
<1>3. \A i \in DOMAIN edges : /\ chosen[i].from \in Ids(nodes) /\ chosen[i].to \in Ids(nodes)
                              /\ Fits(studio, nodes, chosen[i])
  BY <1>2, CleanedFits
<1>4. DOMAIN edges = 1 .. Len(edges) /\ Len(edges) \in Nat
  OBVIOUS
<1>5. chosen \in [1 .. Len(edges) -> ToSet(chosen)] /\ DOMAIN chosen = DOMAIN edges
  BY <1>4 DEF ToSet
<1>6. chosen \in Seq(ToSet(chosen))
  <2> HIDE DEF chosen
  <2> QED BY <1>4, <1>5
<1> HIDE DEF chosen
<1>7. \A e \in ToSet(chosen) : \E i \in DOMAIN edges : e = chosen[i]
  BY <1>5 DEF ToSet
<1>8. g.nodes = nodes /\ g.edges = chosen
  BY <1>1
<1> QED BY <1>1, <1>3, <1>6, <1>7, <1>8 DEF Joins

\* The ports by which knowledge and tools reach an agent.
Inlet(kind) == IF kind = "knowledge" THEN "context" ELSE "tools"

\* An edge of an agent graph from a resource enters the agent by its kind's port.
LEMMA InletIs ==
    ASSUME NEW nodes, NEW e, Fits("agent", nodes, e),
           NEW kind \in Kinds, NodeOf(nodes, e.from).type = kind, NodeOf(nodes, e.to).type = "agent"
    PROVE  e.in = Inlet(kind)
<1>1. PICK source, target : source = PortsAt("agent", nodes, e.from) /\ target = PortsAt("agent", nodes, e.to)
  OBVIOUS
<1>2. PortTables["agent"] = AgentPorts
  BY DEF PortTables
<1>3. source = AgentPorts[kind] /\ target = AgentPorts["agent"]
  BY <1>1, <1>2 DEF PortsAt
<1>4. target.in = <<Flow, Context, Tools>>
  BY <1>3 DEF AgentPorts, Ports
<1>5. source.out = <<IF kind = "knowledge" THEN Context ELSE Tools>>
  BY <1>3 DEF AgentPorts, Ports, Kinds
<1>6. PICK i \in DOMAIN source.out, j \in DOMAIN target.in :
        e.in = target.in[j].id /\ Compatible(source.out[i].type, target.in[j].type)
  BY <1>1 DEF Fits
<1>7. source.out[i] = IF kind = "knowledge" THEN Context ELSE Tools
  BY <1>5, <1>6
<1>8. target.in[j] \in {Flow, Context, Tools}
  BY <1>4, <1>6
<1>9. /\ Context.type = "knowledge" /\ Tools.type = "tool" /\ Flow.type = "flow"
      /\ Context.id = "context" /\ Tools.id = "tools"
  BY DEF Context, Tools, Flow, P
<1>10. /\ Sinks["knowledge"] = {"knowledge", "answer_or_knowledge"} /\ Sinks["tool"] = {"tool"}
  BY DEF Sinks
<1>11. CASE kind = "knowledge"
  <2>1. target.in[j].type \in {"knowledge", "answer_or_knowledge"}
    BY <1>6, <1>7, <1>9, <1>10, <1>11 DEF Compatible
  <2>2. target.in[j] = Context
    BY <2>1, <1>8, <1>9
  <2> QED BY <2>2, <1>6, <1>9, <1>11 DEF Inlet
<1>12. CASE kind # "knowledge"
  <2>1. target.in[j].type = "tool"
    BY <1>6, <1>7, <1>9, <1>10, <1>12 DEF Compatible
  <2>2. target.in[j] = Tools
    BY <2>1, <1>8, <1>9
  <2> QED BY <2>2, <1>6, <1>9, <1>12 DEF Inlet
<1> QED BY <1>11, <1>12

\* Where ids are distinct, an id names its node.
LEMMA NodeNamed ==
    ASSUME NEW nodes, nodes \in Seq(ToSet(nodes)), Cardinality(Ids(nodes)) = Len(nodes)
    PROVE  /\ \A node \in ToSet(nodes) : node.id \in Ids(nodes) /\ NodeOf(nodes, node.id) = node
           /\ \A id \in Ids(nodes) : NodeOf(nodes, id) \in ToSet(nodes) /\ NodeOf(nodes, id).id = id
<1> DEFINE f == [i \in 1 .. Len(nodes) |-> nodes[i].id]
<1>1. DOMAIN nodes = 1 .. Len(nodes) /\ Len(nodes) \in Nat
  OBVIOUS
<1>2. f \in Surjection(1 .. Len(nodes), Ids(nodes))
  BY <1>1 DEF Ids, Surjection
<1>3. IsFiniteSet(1 .. Len(nodes)) /\ Cardinality(1 .. Len(nodes)) = Len(nodes)
  <2>1. Len(nodes) \in Nat
    BY <1>1
  <2>2. \A n \in Nat : IsFiniteSet(1 .. n) /\ Cardinality(1 .. n) = n
    <3> TAKE n \in Nat
    <3>1. IsFiniteSet(1 .. n) /\ Cardinality(1 .. n) = IF 1 > n THEN 0 ELSE n - 1 + 1
      BY ONLY FS_Interval, n \in Nat
    <3> QED BY ONLY <3>1, n \in Nat
  <2> QED BY <2>1, <2>2
<1>4. f \in Injection(1 .. Len(nodes), Ids(nodes))
  <2> HIDE DEF f
  <2> QED BY <1>2, <1>3, FS_Surjection
<1>5. \A i, j \in 1 .. Len(nodes) : nodes[i].id = nodes[j].id => i = j
  BY <1>4 DEF Injection, IsInjective
<1>6. ASSUME NEW id \in Ids(nodes) PROVE NodeOf(nodes, id) \in ToSet(nodes) /\ NodeOf(nodes, id).id = id
  <2>1. \E node \in ToSet(nodes) : node.id = id
    BY <1>1 DEF Ids, ToSet
  <2> QED BY <2>1 DEF NodeOf
<1>7. ASSUME NEW node \in ToSet(nodes) PROVE node.id \in Ids(nodes) /\ NodeOf(nodes, node.id) = node
  <2>1. PICK i \in 1 .. Len(nodes) : node = nodes[i]
    BY <1>1 DEF ToSet
  <2>2. node.id \in Ids(nodes)
    BY <2>1, <1>1 DEF Ids
  <2>3. PICK j \in 1 .. Len(nodes) : NodeOf(nodes, node.id) = nodes[j] /\ nodes[j].id = node.id
    BY <2>2, <1>1, <1>6 DEF ToSet
  <2> QED BY <2>1, <2>2, <2>3, <1>5
<1> QED BY <1>6, <1>7

\* What ResourcesFeedTheAgent says of a graph.
Feeds(g) ==
    \A kind \in Kinds :
        ResourceIds(g)[kind] =
            {NodeOf(g.nodes, e.from).ref : e \in
                {f \in ToSet(g.edges) :
                    /\ NodeOf(g.nodes, f.to).type = "agent"
                    /\ f.in = IF kind = "knowledge" THEN "context" ELSE "tools"
                    /\ NodeOf(g.nodes, f.from).type = kind}}

\* The graph of an agent that passes the check feeds the agent its resources.
LEMMA AgentIsFed ==
    ASSUME NEW g, g.nodes \in Seq(ToSet(g.nodes)), Cardinality(Ids(g.nodes)) = Len(g.nodes),
           Joins(g.edges, Ids(g.nodes)), \A e \in ToSet(g.edges) : Fits("agent", g.nodes, e),
           NEW agent, AgentGraph(g, agent) # {}
    PROVE  Feeds(g)
<1>1. PICK nodes, edges : nodes = g.nodes /\ edges = g.edges
  OBVIOUS
<1>2. PICK one : one = CHOOSE node \in OfType(nodes, "agent") : TRUE
  OBVIOUS
<1>3. /\ Cardinality(OfType(nodes, "agent")) = 1
      /\ \A kind \in Kinds :
            /\ 0 \notin {node.ref : node \in OfType(nodes, kind)}
            /\ \A node \in OfType(nodes, kind) : Wired(g, node.id, one.id)
  BY <1>1, <1>2 DEF AgentGraph
<1>4. one \in OfType(nodes, "agent")
  <2>1. Cardinality(OfType(nodes, "agent")) # Cardinality({})
    BY <1>3, FS_EmptySet
  <2>2. OfType(nodes, "agent") # {}
    BY <2>1, Zenon
  <2> QED BY <2>2, <1>2
<1>5. /\ \A node \in ToSet(nodes) : node.id \in Ids(nodes) /\ NodeOf(nodes, node.id) = node
      /\ \A id \in Ids(nodes) : NodeOf(nodes, id) \in ToSet(nodes) /\ NodeOf(nodes, id).id = id
  BY <1>1, NodeNamed
<1>6. ASSUME NEW kind \in Kinds
      PROVE  ResourceIds(g)[kind] =
                {NodeOf(nodes, e.from).ref : e \in
                    {f \in ToSet(edges) :
                        /\ NodeOf(nodes, f.to).type = "agent"
                        /\ f.in = IF kind = "knowledge" THEN "context" ELSE "tools"
                        /\ NodeOf(nodes, f.from).type = kind}}
  <2> DEFINE Feeding == {f \in ToSet(edges) :
                            /\ NodeOf(nodes, f.to).type = "agent"
                            /\ f.in = IF kind = "knowledge" THEN "context" ELSE "tools"
                            /\ NodeOf(nodes, f.from).type = kind}
             Having == {n \in ToSet(nodes) : n.type = kind /\ n.ref # 0}
  <2>1. ResourceIds(g)[kind] = {node.ref : node \in Having}
    BY <1>1 DEF ResourceIds
  <2>2. ASSUME NEW node \in Having PROVE \E e \in Feeding : NodeOf(nodes, e.from).ref = node.ref
    <3>1. node \in OfType(nodes, kind)
      BY DEF OfType
    <3>2. PICK e \in ToSet(edges) : e.from = node.id /\ e.to = one.id
      BY <3>1, <1>1, <1>3 DEF Wired
    <3>3. NodeOf(nodes, e.from) = node /\ NodeOf(nodes, e.to) = one /\ one.type = "agent"
      BY <3>2, <1>4, <1>5 DEF OfType
    <3>4. e.in = Inlet(kind)
      BY <3>3, <1>1, InletIs
    <3> QED BY <3>3, <3>4 DEF Inlet
  <2>3. ASSUME NEW e \in Feeding PROVE NodeOf(nodes, e.from) \in Having
    <3>1. NodeOf(nodes, e.from) \in OfType(nodes, kind)
      BY <1>1, <1>5 DEF Joins, OfType
    <3>2. NodeOf(nodes, e.from).ref # 0
      BY <3>1, <1>3
    <3> QED BY <3>1, <3>2 DEF OfType
  <2>4. {node.ref : node \in Having} = {NodeOf(nodes, e.from).ref : e \in Feeding}
    <3> HIDE DEF Having, Feeding
    <3> QED BY <2>2, <2>3
  <2> QED BY <2>1, <2>4
<1> QED BY <1>1, <1>6 DEF Feeds
-----------------------------------------------------------------------------
(* The graph made for an agent *)

\* Resources by kind, none of them 0.
Given(resources) ==
    /\ resources = [kind \in Kinds |-> resources[kind]]
    /\ \A kind \in Kinds : IsFiniteSet(resources[kind]) /\ 0 \notin resources[kind]

Pieces(resources) == UNION {{Node(kind, ref) : ref \in resources[kind]} : kind \in Kinds}

\* A node is known by its type and what it refers to.
LEMMA NodeIs ==
    \A type, ref : /\ Node(type, ref).id = <<type, ref>> /\ Node(type, ref).type = type
                   /\ Node(type, ref).ref = ref
BY DEF Node

\* The list of the resources' nodes has each of them once.
LEMMA ResourcesAre ==
    ASSUME NEW resources, Given(resources)
    PROVE  LET given == Resources(resources)
           IN  /\ given \in Seq(Pieces(resources)) /\ IsInjective(given)
               /\ ToSet(given) = Pieces(resources)
<1>1. ASSUME NEW kind \in Kinds PROVE IsFiniteSet({Node(kind, ref) : ref \in resources[kind]})
  <2> DEFINE T == {Node(kind, ref) : ref \in resources[kind]}
             f == [ref \in resources[kind] |-> Node(kind, ref)]
  <2>1. f \in Surjection(resources[kind], T)
    BY DEF Surjection
  <2>2. IsFiniteSet(resources[kind])
    BY DEF Given
  <2> HIDE DEF f, T
  <2>3. IsFiniteSet(T)
    BY <2>1, <2>2, FS_Surjection
  <2> QED BY <2>3 DEF T
<1>2. IsFiniteSet(Pieces(resources))
  <2> DEFINE K(kind) == {Node(kind, ref) : ref \in resources[kind]}
  <2>1. Pieces(resources) = (K("knowledge") \cup K("skill")) \cup K("plugin")
    BY DEF Pieces, Kinds
  <2>2. IsFiniteSet(K("knowledge")) /\ IsFiniteSet(K("skill")) /\ IsFiniteSet(K("plugin"))
    BY <1>1 DEF Kinds
  <2> HIDE DEF K
  <2>3. IsFiniteSet(K("knowledge") \cup K("skill"))
    BY <2>2, FS_Union
  <2> QED BY <2>1, <2>2, <2>3, FS_Union
<1> DEFINE S == Pieces(resources)
           n == Cardinality(S)
<1>3. n \in Nat /\ ExistsBijection(1 .. n, S)
  <2>1. IsFiniteSet(S)
    BY <1>2
  <2> HIDE DEF S
  <2>2. PICK m \in Nat : ExistsBijection(1 .. m, S)
    BY <2>1, FS_NatBijection
  <2>3. m = n
    BY <2>2, FS_CountingElements
  <2> QED BY <2>2, <2>3
<1>4. \E f \in [1 .. n -> S] : IsInjective(f)
  BY <1>3 DEF ExistsBijection, Bijection, Injection
<1>5. PICK given : given = SetToSeq(S) /\ given \in [1 .. n -> S] /\ IsInjective(given)
  BY <1>4 DEF SetToSeq
<1>6. given \in Seq(S) /\ Len(given) = n
  <2> HIDE DEF S, n
  <2> QED BY <1>3, <1>5
<1>7. ToSet(given) = S
  <2>1. Len(given) = Cardinality(S)
    BY <1>6
  <2>2. IsFiniteSet(S)
    BY <1>2
  <2> HIDE DEF S
  <2> QED BY <1>5, <1>6, <2>1, <2>2, FullList
<1>8. given = Resources(resources)
  BY <1>5 DEF Resources, Pieces
<1> QED BY <1>5, <1>6, <1>7, <1>8

\* The i-th port is the one an edge names.
Only(ports, id, i) ==
    i \in Int /\ i \in DOMAIN ports /\ Offered(ports, id) = {i} /\ ports[i].id = id

\* Where each drawn port is one the stage has, and the two fit, the edge is as drawn.
LEMMA ResolvedOne ==
    ASSUME NEW source, NEW target, NEW edge, NEW i, NEW j,
           Only(source.out, edge.out, i), Only(target.in, edge.in, j),
           Compatible(source.out[i].type, target.in[j].type)
    PROVE  Resolved(source, target, edge) =
              {[from |-> edge.from, out |-> edge.out, to |-> edge.to, in |-> edge.in]}
<1> DEFINE fits == {p \in Offered(source.out, edge.out) \X Offered(target.in, edge.in) :
                      Compatible(source.out[p[1]].type, target.in[p[2]].type)}
           first(p) == \A q \in fits : IF p[1] = q[1] THEN Preferred(target.in, p[2], q[2])
                                       ELSE Preferred(source.out, p[1], q[1])
<1> USE DEF Only
<1>1. fits = {<<i, j>>}
  <2>1. \A p \in fits : p = <<i, j>>
    OBVIOUS
  <2>2. <<i, j>> \in fits
    OBVIOUS
  <2> HIDE DEF fits
  <2> QED BY <2>1, <2>2
<1>2. Preferred(target.in, j, j)
  BY DEF Preferred
<1>3. {q \in fits : first(q)} = {<<i, j>>}
  <2>1. first(<<i, j>>)
    BY <1>1, <1>2
  <2> QED BY <1>1, <2>1
<1>4. Resolved(source, target, edge) =
        {[from |-> edge.from, out |-> source.out[p[1]].id,
          to |-> edge.to, in |-> target.in[p[2]].id] : p \in {q \in fits : first(q)}}
  BY DEF Resolved
<1>5. Resolved(source, target, edge) = {[from |-> edge.from, out |-> source.out[i].id,
                                         to |-> edge.to, in |-> target.in[j].id]}
  <2>1. PICK C : C = {q \in fits : first(q)}
    OBVIOUS
  <2>2. \A p \in C : p[1] = i /\ p[2] = j
    BY <1>3, <2>1
  <2>3. C # {}
    BY <1>3, <2>1
  <2>4. Resolved(source, target, edge) =
          {[from |-> edge.from, out |-> source.out[p[1]].id,
            to |-> edge.to, in |-> target.in[p[2]].id] : p \in C}
    BY <1>4, <2>1
  <2> HIDE DEF fits, first
  <2> QED BY <2>2, <2>3, <2>4
<1> QED BY <1>5

\* The nodes of an agent's graph, each id once.
LEMMA DefaultNodesAre ==
    ASSUME NEW agent, NEW resources, Given(resources)
    PROVE  LET nodes == DefaultNodes(agent, resources)
               given == Resources(resources)
           IN  /\ nodes \in Seq(ToSet(nodes)) /\ Len(nodes) = 3 + Len(given) /\ Len(given) \in Nat
               /\ ToSet(nodes) = {Node("input", 0), Node("agent", agent), Node("output", 0)}
                                    \cup Pieces(resources)
               /\ Cardinality(Ids(nodes)) = Len(nodes)
<1>1. PICK given, S : given = Resources(resources) /\ S = Pieces(resources)
  OBVIOUS
<1>2. given \in Seq(S) /\ IsInjective(given) /\ ToSet(given) = S
  BY <1>1, ResourcesAre
<1>3. PICK first, all : /\ first = <<Node("input", 0), Node("agent", agent), Node("output", 0)>>
                        /\ all = S \cup {Node("input", 0), Node("agent", agent), Node("output", 0)}
  OBVIOUS
<1>4. first \in Seq(all) /\ given \in Seq(all) /\ Len(first) = 3
      /\ first[1] = Node("input", 0) /\ first[2] = Node("agent", agent) /\ first[3] = Node("output", 0)
  BY <1>2, <1>3
<1>5. PICK nodes : nodes = first \o given
  OBVIOUS
<1>6. nodes = DefaultNodes(agent, resources)
  BY <1>1, <1>3, <1>5 DEF DefaultNodes
<1>7. /\ nodes \in Seq(all) /\ Len(nodes) = 3 + Len(given) /\ Len(given) \in Nat
      /\ \A i \in 1 .. Len(nodes) : nodes[i] = IF i <= 3 THEN first[i] ELSE given[i - 3]
  <2>1. /\ nodes \in Seq(all) /\ Len(nodes) = Len(first) + Len(given)
        /\ \A i \in 1 .. Len(first) + Len(given) :
              nodes[i] = IF i <= Len(first) THEN first[i] ELSE given[i - Len(first)]
    BY <1>4, <1>5, ConcatProperties
  <2> QED BY <2>1, <1>4
<1>8. DOMAIN nodes = 1 .. Len(nodes) /\ DOMAIN given = 1 .. Len(given) /\ Len(nodes) \in Nat
  BY <1>4, <1>7
<1>9. /\ nodes[1] = Node("input", 0) /\ nodes[2] = Node("agent", agent) /\ nodes[3] = Node("output", 0)
      /\ \A i \in 1 .. Len(given) : i + 3 \in 1 .. Len(nodes) /\ nodes[i + 3] = given[i]
      /\ \A i \in 1 .. Len(nodes) : i \in {1, 2, 3} \/ (i - 3 \in 1 .. Len(given) /\ nodes[i] = given[i - 3])
  BY <1>4, <1>7
<1>10. ToSet(nodes) = all
  <2>1. \A x \in S : \E i \in 1 .. Len(given) : x = given[i]
    BY <1>2, <1>8 DEF ToSet
  <2>2. \A x \in S : x \in ToSet(nodes)
    BY <2>1, <1>8, <1>9 DEF ToSet
  <2>3. 1 \in 1 .. Len(nodes) /\ 2 \in 1 .. Len(nodes) /\ 3 \in 1 .. Len(nodes)
    BY <1>7
  <2>4. {Node("input", 0), Node("agent", agent), Node("output", 0)} \subseteq ToSet(nodes)
    BY <2>3, <1>8, <1>9 DEF ToSet
  <2>5. ToSet(nodes) \subseteq all
    BY <1>7, OwnElements
  <2> QED BY <2>2, <2>4, <2>5, <1>3
\* the nodes of two places differ, and so do their ids
<1>11. \A x \in S : \E kind, ref : kind \in Kinds /\ x = Node(kind, ref)
  BY <1>1 DEF Pieces
<1>12. ASSUME NEW i \in 1 .. Len(nodes), NEW j \in 1 .. Len(nodes), nodes[i].id = nodes[j].id PROVE i = j
  <2>0. PICK m, n : m = nodes[i] /\ n = nodes[j]
    OBVIOUS
  <2>1. \A x \in all : x = Node(x.type, x.ref) /\ x.id = <<x.type, x.ref>>
    BY <1>3, <1>11, NodeIs
  <2>2. m \in all /\ n \in all
    BY <2>0, <1>7
  <2>3. m.type = n.type /\ m.ref = n.ref
    BY <2>0, <2>1, <2>2, <1>12
  <2>4. m = n
    BY <2>1, <2>2, <2>3
  <2>5. \A k \in 1 .. Len(given) : given[k].type \in Kinds
    <3>1. \A k \in 1 .. Len(given) : given[k] \in S
      BY <1>2
    <3> QED BY <3>1, <1>11, NodeIs
  <2>6. /\ nodes[1].type = "input" /\ nodes[2].type = "agent" /\ nodes[3].type = "output"
        /\ "input" \notin Kinds /\ "agent" \notin Kinds /\ "output" \notin Kinds
    BY <1>9, NodeIs DEF Kinds
  <2>7. CASE i \in {1, 2, 3}
    <3>1. j \in {1, 2, 3}
      <4>1. m.type \notin Kinds
        BY <2>0, <2>6, <2>7
      <4>2. ASSUME j \notin {1, 2, 3} PROVE FALSE
        <5>1. j - 3 \in 1 .. Len(given) /\ n = given[j - 3]
          BY <4>2, <2>0, <1>9
        <5> QED BY <5>1, <4>1, <2>3, <2>5
      <4> QED BY <4>2
    <3> QED BY <3>1, <2>0, <2>3, <2>6, <2>7
  <2>8. CASE i \notin {1, 2, 3}
    <3>1. i - 3 \in 1 .. Len(given) /\ m = given[i - 3]
      BY <2>8, <2>0, <1>9
    <3>2. j \notin {1, 2, 3}
      BY <3>1, <2>0, <2>3, <2>5, <2>6
    <3>3. j - 3 \in 1 .. Len(given) /\ n = given[j - 3]
      BY <3>2, <2>0, <1>9
    <3>4. i - 3 = j - 3
      BY <3>1, <3>3, <2>4, <1>2, <1>8 DEF IsInjective
    <3> QED BY <3>4
  <2> QED BY <2>7, <2>8
<1>13. Cardinality(Ids(nodes)) = Len(nodes)
  <2> DEFINE f == [i \in 1 .. Len(nodes) |-> nodes[i].id]
  <2>1. f \in Surjection(1 .. Len(nodes), Ids(nodes))
    BY <1>8 DEF Ids, Surjection
  <2>2. f \in Injection(1 .. Len(nodes), Ids(nodes))
    BY <2>1, <1>12 DEF Surjection, Injection, IsInjective
  <2>3. \A n \in Nat : IsFiniteSet(1 .. n) /\ Cardinality(1 .. n) = n
    <3> TAKE n \in Nat
    <3>1. IsFiniteSet(1 .. n) /\ Cardinality(1 .. n) = IF 1 > n THEN 0 ELSE n - 1 + 1
      BY ONLY FS_Interval, n \in Nat
    <3> QED BY ONLY <3>1, n \in Nat
  <2>4. IsFiniteSet(1 .. Len(nodes)) /\ Cardinality(1 .. Len(nodes)) = Len(nodes)
    BY <2>3, <1>8
  <2> HIDE DEF f
  <2> QED BY <2>1, <2>2, <2>4, FS_Surjection
<1>14. nodes \in Seq(ToSet(nodes))
  BY <1>7, OwnElements
<1> QED BY <1>1, <1>3, <1>6, <1>7, <1>10, <1>13, <1>14

\* The edge that gives an agent a resource.
Gives(node, agent) == Edge(node.id, Inlet(node.type), <<"agent", agent>>, Inlet(node.type))

\* The edges of an agent's graph.
LEMMA DefaultEdgesAre ==
    ASSUME NEW agent, NEW resources, Given(resources)
    PROVE  LET edges == DefaultEdges(agent, resources)
               given == Resources(resources)
           IN  /\ edges \in Seq(ToSet(edges)) /\ Len(edges) = 2 + Len(given) /\ Len(given) \in Nat
               /\ edges[1] = Edge(<<"input", 0>>, "default", <<"agent", agent>>, "default")
               /\ edges[2] = Edge(<<"agent", agent>>, "result", <<"output", 0>>, "answer")
               /\ \A i \in 1 .. Len(given) :
                     i + 2 \in 1 .. Len(edges) /\ edges[i + 2] = Gives(given[i], agent)
               /\ \A i \in 1 .. Len(edges) :
                     i = 1 \/ i = 2 \/ (i - 2 \in 1 .. Len(given) /\ edges[i] = Gives(given[i - 2], agent))
<1>1. PICK given : given = Resources(resources)
  OBVIOUS
<1>2. given \in Seq(Pieces(resources))
  BY <1>1, ResourcesAre
<1>3. DOMAIN given = 1 .. Len(given) /\ Len(given) \in Nat
  BY <1>2
<1>4. PICK first, rest :
        /\ first = <<Edge(<<"input", 0>>, "default", <<"agent", agent>>, "default"),
                     Edge(<<"agent", agent>>, "result", <<"output", 0>>, "answer")>>
        /\ rest = [i \in DOMAIN given |-> Gives(given[i], agent)]
  OBVIOUS
<1>0. PICK all : all = {first[1], first[2]} \cup {rest[i] : i \in 1 .. Len(given)}
  OBVIOUS
<1>5. first \in Seq(all) /\ Len(first) = 2
  BY <1>0, <1>4
<1>6. rest \in Seq(all) /\ Len(rest) = Len(given)
  <2>1. rest \in [1 .. Len(given) -> all]
    BY <1>0, <1>3, <1>4
  <2> QED BY <2>1, <1>3
<1>7. PICK edges : edges = first \o rest
  OBVIOUS
<1>8. edges = DefaultEdges(agent, resources)
  <2>1. rest = [i \in DOMAIN given |->
                  Edge(given[i].id, IF given[i].type = "knowledge" THEN "context" ELSE "tools",
                       <<"agent", agent>>, IF given[i].type = "knowledge" THEN "context" ELSE "tools")]
    BY <1>4 DEF Gives, Inlet
  <2> QED BY <2>1, <1>1, <1>4, <1>7 DEF DefaultEdges
<1>9. /\ edges \in Seq(all) /\ Len(edges) = 2 + Len(given)
      /\ \A i \in 1 .. Len(edges) : edges[i] = IF i <= 2 THEN first[i] ELSE rest[i - 2]
  <2>1. /\ edges \in Seq(all) /\ Len(edges) = Len(first) + Len(rest)
        /\ \A i \in 1 .. Len(first) + Len(rest) :
              edges[i] = IF i <= Len(first) THEN first[i] ELSE rest[i - Len(first)]
    <3>1. first \in Seq(all) /\ rest \in Seq(all)
      BY <1>5, <1>6
    <3>2. PICK u, v : u = first /\ v = rest /\ u \in Seq(all) /\ v \in Seq(all)
      BY <3>1
    <3>3. /\ u \o v \in Seq(all) /\ Len(u \o v) = Len(u) + Len(v)
          /\ \A i \in 1 .. Len(u) + Len(v) : (u \o v)[i] = IF i <= Len(u) THEN u[i] ELSE v[i - Len(u)]
      BY <3>2, ConcatProperties
    <3> QED BY <3>2, <3>3, <1>7
  <2> QED BY <2>1, <1>5, <1>6
<1>10. edges \in Seq(ToSet(edges))
  BY <1>9, OwnElements
<1>11. edges[1] = first[1] /\ edges[2] = first[2]
  BY <1>3, <1>9
<1>12. ASSUME NEW i \in 1 .. Len(given)
       PROVE  i + 2 \in 1 .. Len(edges) /\ edges[i + 2] = Gives(given[i], agent)
  <2>1. i + 2 \in 1 .. Len(edges) /\ ~(i + 2 <= 2) /\ (i + 2) - 2 = i
    BY <1>3, <1>9
  <2> QED BY <2>1, <1>3, <1>4, <1>9
<1>13. ASSUME NEW i \in 1 .. Len(edges), i # 1, i # 2
       PROVE  i - 2 \in 1 .. Len(given) /\ edges[i] = Gives(given[i - 2], agent)
  <2>1. i - 2 \in 1 .. Len(given) /\ ~(i <= 2)
    BY <1>3, <1>9, <1>13
  <2> QED BY <2>1, <1>3, <1>4, <1>9
<1>14. first[1] = Edge(<<"input", 0>>, "default", <<"agent", agent>>, "default")
       /\ first[2] = Edge(<<"agent", agent>>, "result", <<"output", 0>>, "answer")
  BY <1>4
<1> QED BY <1>1, <1>3, <1>8, <1>9, <1>10, <1>11, <1>12, <1>13, <1>14

\* The parts of an edge.
LEMMA EdgeIs ==
    ASSUME NEW from, NEW out, NEW to, NEW in
    PROVE  LET e == Edge(from, out, to, in)
           IN  /\ e.from = from /\ e.out = out /\ e.to = to /\ e.in = in
               /\ e = [from |-> e.from, out |-> e.out, to |-> e.to, in |-> e.in]
BY DEF Edge

\* The ports of the stages of an agent's graph.
LEMMA AgentPortsAre ==
    /\ PortTables["agent"] = AgentPorts
    /\ AgentPorts["input"].out = <<Flow>> /\ AgentPorts["output"].in = <<P("answer", "answer")>>
    /\ AgentPorts["agent"].in = <<Flow, Context, Tools>> /\ AgentPorts["agent"].out = <<Answer>>
    /\ \A kind \in Kinds : AgentPorts[kind].out = <<IF kind = "knowledge" THEN Context ELSE Tools>>
    /\ {"input", "agent", "output"} \cup Kinds \subseteq DOMAIN AgentPorts
BY DEF PortTables, AgentPorts, Ports, Kinds

\* The ports of those stages, by id and type, and the types that fit.
LEMMA PortsAre ==
    /\ Flow.id = "default" /\ Flow.type = "flow" /\ Answer.id = "result" /\ Answer.type = "answer"
    /\ Tools.id = "tools" /\ Tools.type = "tool"
    /\ Context.id = "context" /\ Context.type = "knowledge"
    /\ P("answer", "answer").id = "answer" /\ P("answer", "answer").type = "answer"
    /\ Compatible("flow", "flow") /\ Compatible("answer", "answer")
    /\ Compatible("tool", "tool") /\ Compatible("knowledge", "knowledge")
BY DEF Flow, Answer, Tools, Context, P, Compatible, Sinks

\* Each drawn edge of an agent's graph is kept as it is.
LEMMA DefaultCleaned ==
    ASSUME NEW agent, NEW resources, Given(resources),
           NEW nodes, nodes = DefaultNodes(agent, resources),
           NEW edges, edges = DefaultEdges(agent, resources),
           NEW i \in 1 .. Len(edges)
    PROVE  /\ Cleaned("agent", nodes, edges[i]) = {edges[i]}
           /\ edges[i].from \in Ids(nodes) /\ edges[i].to \in Ids(nodes)
<1> DEFINE start == Node("input", 0)
           one == Node("agent", agent)
           end == Node("output", 0)
<1>1. /\ \A node \in ToSet(nodes) : node.id \in Ids(nodes) /\ NodeOf(nodes, node.id) = node
      /\ ToSet(nodes) = {start, one, end} \cup Pieces(resources)
  BY DefaultNodesAre, NodeNamed
<1>2. /\ start.id = <<"input", 0>> /\ one.id = <<"agent", agent>> /\ end.id = <<"output", 0>>
      /\ start.type = "input" /\ one.type = "agent" /\ end.type = "output"
      /\ start \in ToSet(nodes) /\ one \in ToSet(nodes) /\ end \in ToSet(nodes)
  BY <1>1, NodeIs
<1> HIDE DEF start, one, end
<1>3. PICK e : e = edges[i]
  OBVIOUS
\* from and to are different stages of known types, with one port each that fits
<1>4. \E m \in ToSet(nodes), n \in ToSet(nodes) :
         /\ e.from = m.id /\ e.to = n.id /\ m.id # n.id
         /\ e = [from |-> e.from, out |-> e.out, to |-> e.to, in |-> e.in]
         /\ \/ m.type = "input" /\ n.type = "agent" /\ e.out = "default" /\ e.in = "default"
            \/ m.type = "agent" /\ n.type = "output" /\ e.out = "result" /\ e.in = "answer"
            \/ m.type \in Kinds /\ n.type = "agent" /\ e.out = Inlet(m.type) /\ e.in = Inlet(m.type)
  <2>1. CASE i = 1
    <3>1. e = Edge(<<"input", 0>>, "default", <<"agent", agent>>, "default")
      BY <2>1, <1>3, DefaultEdgesAre
    <3>2. e.from = start.id /\ e.to = one.id /\ e.out = "default" /\ e.in = "default"
          /\ e = [from |-> e.from, out |-> e.out, to |-> e.to, in |-> e.in]
      BY <3>1, <1>2, EdgeIs
    <3>3. start.id # one.id
      BY <1>2
    <3> QED BY <3>2, <3>3, <1>2
  <2>2. CASE i = 2
    <3>1. e = Edge(<<"agent", agent>>, "result", <<"output", 0>>, "answer")
      BY <2>2, <1>3, DefaultEdgesAre
    <3>2. e.from = one.id /\ e.to = end.id /\ e.out = "result" /\ e.in = "answer"
          /\ e = [from |-> e.from, out |-> e.out, to |-> e.to, in |-> e.in]
      BY <3>1, <1>2, EdgeIs
    <3>3. one.id # end.id
      BY <1>2
    <3> QED BY <3>2, <3>3, <1>2
  <2>3. CASE i # 1 /\ i # 2
    <3>1. PICK given : given = Resources(resources)
      OBVIOUS
    <3>2. i - 2 \in 1 .. Len(given) /\ e = Gives(given[i - 2], agent)
      BY <2>3, <3>1, <1>3, DefaultEdgesAre
    <3>3. PICK m \in Pieces(resources) : m = given[i - 2]
      <4>1. given \in Seq(Pieces(resources))
        BY <3>1, ResourcesAre
      <4> QED BY <4>1, <3>2
    <3>4. PICK kind, ref : kind \in Kinds /\ m = Node(kind, ref)
      BY DEF Pieces
    <3> kind \in Kinds
      BY <3>4
    <3>5. m \in ToSet(nodes) /\ m.type = kind /\ m.id = <<kind, ref>>
      BY <3>4, <1>1, NodeIs
    <3>6. e = Edge(m.id, Inlet(m.type), one.id, Inlet(m.type))
      BY <3>2, <3>3, <1>2 DEF Gives
    <3>7. e.from = m.id /\ e.to = one.id /\ e.out = Inlet(m.type) /\ e.in = Inlet(m.type)
          /\ e = [from |-> e.from, out |-> e.out, to |-> e.to, in |-> e.in]
      BY <3>6, EdgeIs
    <3>8. m.id # one.id
      BY <3>5, <1>2 DEF Kinds
    <3> QED BY <3>5, <3>7, <3>8, <1>2
  <2> QED BY <2>1, <2>2, <2>3
<1>5. PICK m \in ToSet(nodes), n \in ToSet(nodes) :
         /\ e.from = m.id /\ e.to = n.id /\ m.id # n.id
         /\ e = [from |-> e.from, out |-> e.out, to |-> e.to, in |-> e.in]
         /\ \/ m.type = "input" /\ n.type = "agent" /\ e.out = "default" /\ e.in = "default"
            \/ m.type = "agent" /\ n.type = "output" /\ e.out = "result" /\ e.in = "answer"
            \/ m.type \in Kinds /\ n.type = "agent" /\ e.out = Inlet(m.type) /\ e.in = Inlet(m.type)
  BY <1>4
<1>6. PICK source, target : source = AgentPorts[m.type] /\ target = AgentPorts[n.type]
  OBVIOUS
<1>7. PortsAt("agent", nodes, e.from) = source /\ PortsAt("agent", nodes, e.to) = target
  BY <1>1, <1>5, <1>6, AgentPortsAre DEF PortsAt
<1>8. \E a, b : /\ Only(source.out, e.out, a) /\ Only(target.in, e.in, b)
                /\ Compatible(source.out[a].type, target.in[b].type)
  <2>1. CASE m.type = "input" /\ n.type = "agent" /\ e.out = "default" /\ e.in = "default"
    <3>1. source.out = <<Flow>> /\ target.in = <<Flow, Context, Tools>>
      BY <2>1, <1>6, AgentPortsAre
    <3>2. Offered(source.out, e.out) = {1} /\ Offered(target.in, e.in) = {1}
      BY <3>1, <2>1, PortsAre DEF Offered
    <3>3. 1 \in DOMAIN source.out /\ 1 \in DOMAIN target.in
          /\ source.out[1] = Flow /\ target.in[1] = Flow
      BY <3>1
    <3>4. Only(source.out, e.out, 1) /\ Only(target.in, e.in, 1)
          /\ Compatible(source.out[1].type, target.in[1].type)
      BY <3>2, <3>3, <2>1, PortsAre DEF Only
    <3> QED BY <3>4
  <2>2. CASE m.type = "agent" /\ n.type = "output" /\ e.out = "result" /\ e.in = "answer"
    <3>1. source.out = <<Answer>> /\ target.in = <<P("answer", "answer")>>
      BY <2>2, <1>6, AgentPortsAre
    <3>2. Offered(source.out, e.out) = {1} /\ Offered(target.in, e.in) = {1}
      BY <3>1, <2>2, PortsAre DEF Offered
    <3>3. 1 \in DOMAIN source.out /\ 1 \in DOMAIN target.in
          /\ source.out[1] = Answer /\ target.in[1] = P("answer", "answer")
      BY <3>1
    <3>4. Only(source.out, e.out, 1) /\ Only(target.in, e.in, 1)
          /\ Compatible(source.out[1].type, target.in[1].type)
      BY <3>2, <3>3, <2>2, PortsAre DEF Only
    <3> QED BY <3>4
  <2>3. CASE m.type \in Kinds /\ n.type = "agent" /\ e.out = Inlet(m.type) /\ e.in = Inlet(m.type)
    <3>1. source.out = <<IF m.type = "knowledge" THEN Context ELSE Tools>>
          /\ target.in = <<Flow, Context, Tools>>
      BY <2>3, <1>6, AgentPortsAre
    <3>2. CASE m.type = "knowledge"
      <4>1. Offered(source.out, e.out) = {1} /\ Offered(target.in, e.in) = {2}
        BY <3>1, <3>2, <2>3, PortsAre DEF Offered, Inlet
      <4>2. 1 \in DOMAIN source.out /\ 2 \in DOMAIN target.in
            /\ source.out[1] = Context /\ target.in[2] = Context
        BY <3>1, <3>2
      <4>3. Only(source.out, e.out, 1) /\ Only(target.in, e.in, 2)
            /\ Compatible(source.out[1].type, target.in[2].type)
        BY <4>1, <4>2, <3>2, <2>3, PortsAre DEF Inlet, Only
      <4> QED BY <4>3
    <3>3. CASE m.type # "knowledge"
      <4>1. Offered(source.out, e.out) = {1} /\ Offered(target.in, e.in) = {3}
        BY <3>1, <3>3, <2>3, PortsAre DEF Offered, Inlet
      <4>2. 1 \in DOMAIN source.out /\ 3 \in DOMAIN target.in
            /\ source.out[1] = Tools /\ target.in[3] = Tools
        BY <3>1, <3>3
      <4>3. Only(source.out, e.out, 1) /\ Only(target.in, e.in, 3)
            /\ Compatible(source.out[1].type, target.in[3].type)
        BY <4>1, <4>2, <3>3, <2>3, PortsAre DEF Inlet, Only
      <4> QED BY <4>3
    <3> QED BY <3>2, <3>3
  <2> QED BY <2>1, <2>2, <2>3, <1>5
<1>9. Resolved(source, target, e) = {e}
  <2>1. PICK a, b : /\ Only(source.out, e.out, a) /\ Only(target.in, e.in, b)
                /\ Compatible(source.out[a].type, target.in[b].type)
    BY <1>8
  <2>3. e = [from |-> e.from, out |-> e.out, to |-> e.to, in |-> e.in]
    BY <1>5
  <2>2. Resolved(source, target, e) =
          {[from |-> e.from, out |-> e.out, to |-> e.to, in |-> e.in]}
    BY <2>1, ResolvedOne
  <2> QED BY <2>2, <2>3
<1>10. {e.from, e.to} \subseteq Ids(nodes) /\ e.from # e.to
  BY <1>1, <1>5
<1> QED BY <1>3, <1>7, <1>9, <1>10 DEF Cleaned

\* The edges of an agent's graph are on no cycle: what the agent leads to is the output,
\* which leads nowhere.
LEMMA DefaultAcyclic ==
    ASSUME NEW agent, NEW resources, Given(resources)
    PROVE  ~Back(DefaultEdges(agent, resources), Ids(DefaultNodes(agent, resources)))
<1>1. PICK nodes, edges, ids : /\ nodes = DefaultNodes(agent, resources)
                               /\ edges = DefaultEdges(agent, resources) /\ ids = Ids(nodes)
  OBVIOUS
<1>2. PICK given : given = Resources(resources)
  OBVIOUS
<1>3. Joins(edges, ids) /\ \A e \in ToSet(edges) : \E i \in 1 .. Len(edges) : e = edges[i]
  <2>1. \A e \in ToSet(edges) : \E i \in 1 .. Len(edges) : e = edges[i]
    <3>1. edges \in Seq(ToSet(edges))
      BY <1>1, DefaultEdgesAre
    <3>2. DOMAIN edges = 1 .. Len(edges)
      BY <3>1
    <3> QED BY <3>2 DEF ToSet
  <2> QED BY <2>1, <1>1, DefaultCleaned DEF Joins
<1>4. IsFiniteSet(ids)
  BY <1>1, DefaultNodesAre, IdsFinite
<1>5. PICK start, one, end : start = <<"input", 0>> /\ one = <<"agent", agent>> /\ end = <<"output", 0>>
  OBVIOUS
<1>6. start # one /\ start # end /\ one # end
  BY <1>5
\* the three ways of an edge
<1>7. ASSUME NEW e \in ToSet(edges)
      PROVE  \/ e.from = one /\ e.to = end
             \/ e.from # one /\ e.from # end /\ e.to = one
  <2>1. PICK i \in 1 .. Len(edges) : e = edges[i]
    BY <1>3
  <2>2. CASE i = 1
    <3>1. e = Edge(start, "default", one, "default")
      BY <2>1, <2>2, <1>1, <1>5, DefaultEdgesAre
    <3> QED BY <3>1, <1>6, EdgeIs
  <2>3. CASE i = 2
    <3>1. e = Edge(one, "result", end, "answer")
      BY <2>1, <2>3, <1>1, <1>5, DefaultEdgesAre
    <3> QED BY <3>1, EdgeIs
  <2>4. CASE i # 1 /\ i # 2
    <3>1. i - 2 \in 1 .. Len(given) /\ e = Gives(given[i - 2], agent)
      BY <2>1, <2>4, <1>1, <1>2, DefaultEdgesAre
    <3>2. PICK m \in Pieces(resources) : m = given[i - 2]
      <4>1. given \in Seq(Pieces(resources))
        BY <1>2, ResourcesAre
      <4> QED BY <4>1, <3>1
    <3>3. PICK kind, ref : kind \in Kinds /\ m = Node(kind, ref)
      BY DEF Pieces
    <3> kind \in Kinds
      BY <3>3
    <3>4. m.id = <<kind, ref>>
      BY <3>3, NodeIs
    <3>5. m.id # one /\ m.id # end
      BY <3>4, <1>5 DEF Kinds
    <3>6. e = Edge(m.id, Inlet(m.type), one, Inlet(m.type))
      BY <3>1, <3>2, <1>5 DEF Gives
    <3> QED BY <3>5, <3>6, EdgeIs
  <2> QED BY <2>2, <2>3, <2>4
<1>8. ASSUME NEW e \in ToSet(edges) PROVE e.from \notin ReachedFrom(edges, e.to, ids)
  <2> DEFINE R == ReachedFrom(edges, e.to, ids)
  <2>1. \A C : e.to \in C /\ Closed(edges, C) => R \subseteq C
    <3>1. e.to \in ids
      BY <1>3 DEF Joins
    <3> QED BY <3>1, <1>3, <1>4, ReachedIs
  <2>2. Closed(edges, {end}) /\ Closed(edges, {one, end})
    BY <1>6, <1>7 DEF Closed
  <2>3. CASE e.from = one /\ e.to = end
    <3>1. R \subseteq {end}
      BY <2>1, <2>2, <2>3
    <3> QED BY <3>1, <2>3, <1>6
  <2>4. CASE e.from # one /\ e.from # end /\ e.to = one
    <3>1. R \subseteq {one, end}
      BY <2>1, <2>2, <2>4
    <3> QED BY <3>1, <2>4
  <2> QED BY <2>3, <2>4, <1>7
<1> QED BY <1>1, <1>8 DEF Back

\* No edge of it is drawn twice: they start from different stages.
LEMMA DefaultInjective ==
    ASSUME NEW agent, NEW resources, Given(resources)
    PROVE  IsInjective(DefaultEdges(agent, resources))
<1>1. PICK edges, given, S : /\ edges = DefaultEdges(agent, resources)
                             /\ given = Resources(resources) /\ S = Pieces(resources)
  OBVIOUS
<1>2. /\ edges \in Seq(ToSet(edges)) /\ Len(edges) = 2 + Len(given) /\ Len(given) \in Nat
      /\ edges[1] = Edge(<<"input", 0>>, "default", <<"agent", agent>>, "default")
      /\ edges[2] = Edge(<<"agent", agent>>, "result", <<"output", 0>>, "answer")
      /\ \A i \in 1 .. Len(edges) :
            i = 1 \/ i = 2 \/ (i - 2 \in 1 .. Len(given) /\ edges[i] = Gives(given[i - 2], agent))
  BY <1>1, DefaultEdgesAre
<1>3. given \in Seq(S) /\ IsInjective(given) /\ DOMAIN given = 1 .. Len(given)
  <2>1. given \in Seq(S) /\ IsInjective(given)
    BY <1>1, ResourcesAre
  <2> QED BY <2>1
<1>4. \A x \in S : x = Node(x.type, x.ref) /\ x.id = <<x.type, x.ref>> /\ x.type \in Kinds
  <2>1. \A x \in S : \E kind, ref : kind \in Kinds /\ x = Node(kind, ref)
    BY <1>1 DEF Pieces
  <2> QED BY <2>1, NodeIs
<1>5. edges[1].from = <<"input", 0>> /\ edges[2].from = <<"agent", agent>>
  BY <1>2, EdgeIs
<1>6. ASSUME NEW i \in 1 .. Len(edges), i # 1, i # 2
      PROVE  /\ i - 2 \in 1 .. Len(given) /\ given[i - 2] \in S /\ edges[i].from = given[i - 2].id
             /\ edges[i].from # <<"input", 0>> /\ edges[i].from # <<"agent", agent>>
  <2>1. i - 2 \in 1 .. Len(given) /\ edges[i] = Gives(given[i - 2], agent)
    BY <1>2, <1>6
  <2>2. PICK x \in S : x = given[i - 2]
    BY <2>1, <1>3
  <2>3. edges[i].from = x.id
    BY <2>1, <2>2, EdgeIs DEF Gives
  <2>4. x.id = <<x.type, x.ref>> /\ x.type \in Kinds
    BY <1>4
  <2>5. x.id # <<"input", 0>> /\ x.id # <<"agent", agent>>
    BY <2>4 DEF Kinds
  <2> QED BY <2>1, <2>2, <2>3, <2>5
<1>7. ASSUME NEW i \in 1 .. Len(edges), NEW j \in 1 .. Len(edges), edges[i] = edges[j] PROVE i = j
  <2>0. <<"input", 0>> # <<"agent", agent>>
    OBVIOUS
  <2>1. CASE i \in {1, 2}
    <3>1. j \in {1, 2}
      BY <2>1, <1>5, <1>6, <1>7
    <3> QED BY <3>1, <2>0, <2>1, <1>5, <1>7
  <2>2. CASE i \notin {1, 2}
    <3>1. j \notin {1, 2}
      BY <2>2, <1>5, <1>6, <1>7
    <3>2. PICK x \in S, y \in S : x = given[i - 2] /\ y = given[j - 2] /\ x.id = y.id
      BY <2>2, <3>1, <1>6, <1>7
    <3>3. x = y
      <4>1. x.type = y.type /\ x.ref = y.ref
        BY <3>2, <1>4
      <4> QED BY <4>1, <1>4
    <3>4. i - 2 \in 1 .. Len(given) /\ j - 2 \in 1 .. Len(given)
      BY <2>2, <3>1, <1>6
    <3>5. i - 2 = j - 2
      BY <3>2, <3>3, <3>4, <1>3 DEF IsInjective
    <3> QED BY <3>5
  <2> QED BY <2>1, <2>2
<1>8. DOMAIN edges = 1 .. Len(edges)
  BY <1>2
<1> QED BY <1>1, <1>7, <1>8 DEF IsInjective

\* The graph made for an agent is normal as it is.
LEMMA DefaultNormal ==
    ASSUME NEW agent, NEW resources, Given(resources),
           Len(DefaultEdges(agent, resources)) <= MaxGraphEdges
    PROVE  [nodes |-> DefaultNodes(agent, resources), edges |-> DefaultEdges(agent, resources)]
              \in Normalized("agent", DefaultNodes(agent, resources), DefaultEdges(agent, resources))
<1> DEFINE nodes == DefaultNodes(agent, resources)
           edges == DefaultEdges(agent, resources)
           clean == [i \in DOMAIN edges |-> Cleaned("agent", nodes, edges[i])]
           chosen == [i \in DOMAIN edges |-> CHOOSE e \in clean[i] : TRUE]
<1>1. edges \in Seq(ToSet(edges)) /\ DOMAIN edges = 1 .. Len(edges)
  <2>1. edges \in Seq(ToSet(edges))
    BY DefaultEdgesAre
  <2> HIDE DEF edges
  <2> QED BY <2>1
<1>2. \A i \in 1 .. Len(edges) : Cleaned("agent", nodes, edges[i]) = {edges[i]}
                                 /\ edges[i].from \in Ids(nodes) /\ edges[i].to \in Ids(nodes)
  BY DefaultCleaned
<1>3. /\ nodes \in Seq(ToSet(nodes)) /\ Cardinality(Ids(nodes)) = Len(nodes)
      /\ ToSet(nodes) = {Node("input", 0), Node("agent", agent), Node("output", 0)} \cup Pieces(resources)
  BY DefaultNodesAre
<1>4. \A i \in DOMAIN nodes : nodes[i].type \in DOMAIN PortTables["agent"]
  <2>1. \A x \in ToSet(nodes) : x.type \in {"input", "agent", "output"} \cup Kinds
    <3>1. \A x \in Pieces(resources) : x.type \in Kinds
      BY NodeIs DEF Pieces
    <3> HIDE DEF nodes
    <3> QED BY <3>1, <1>3, NodeIs
  <2>2. \A i \in DOMAIN nodes : nodes[i] \in ToSet(nodes)
    BY DEF ToSet
  <2> HIDE DEF nodes
  <2> QED BY <2>1, <2>2, AgentPortsAre
<1>5. ~HasCycle(nodes, edges)
  <2>1. Joins(edges, Ids(nodes))
    <3> HIDE DEF nodes, edges
    <3> QED BY <1>1, <1>2 DEF Joins, ToSet
  <2>2. ~Back(edges, Ids(nodes))
    BY DefaultAcyclic
  <2> HIDE DEF nodes, edges
  <2> QED BY <2>1, <2>2, <1>1, <1>3, CycleFound
<1>6. IsInjective(edges)
  BY DefaultInjective
<1> HIDE DEF nodes, edges
<1>7. chosen = edges /\ \A i \in DOMAIN edges : clean[i] # {}
  <2>1. \A i \in DOMAIN edges : clean[i] = {edges[i]}
    BY <1>1, <1>2
  <2>2. \A i \in DOMAIN edges : (CHOOSE e \in clean[i] : TRUE) = edges[i]
    BY <2>1
  <2>3. edges = [i \in DOMAIN edges |-> edges[i]]
    BY <1>1
  <2> HIDE DEF clean
  <2> QED BY <2>1, <2>2, <2>3
<1>8. Len(edges) <= MaxGraphEdges
  BY DEF edges
<1>9. IsInjective(chosen) /\ ~HasCycle(nodes, chosen)
  BY <1>5, <1>6, <1>7
<1>10. Normalized("agent", nodes, edges) = {[nodes |-> nodes, edges |-> chosen]}
  <2> HIDE DEF clean
  <2>1. Normalized("agent", nodes, edges) =
          IF /\ Len(edges) <= MaxGraphEdges /\ Cardinality(Ids(nodes)) = Len(nodes)
             /\ \A i \in DOMAIN nodes : nodes[i].type \in DOMAIN PortTables["agent"]
             /\ \A i \in DOMAIN edges : clean[i] # {}
             /\ IsInjective(chosen) /\ ~HasCycle(nodes, chosen)
          THEN {[nodes |-> nodes, edges |-> chosen]} ELSE {}
    BY DEF Normalized, Distinct, clean
  <2> HIDE DEF chosen
  <2> QED BY <2>1, <1>3, <1>4, <1>7, <1>8, <1>9
<1> QED BY <1>7, <1>10 DEF nodes, edges

\* The graph made for an agent passes the check, with the resources it was made from.
LEMMA DefaultPasses ==
    ASSUME NEW agent, NEW resources, Given(resources), NEW g,
           g = [nodes |-> DefaultNodes(agent, resources), edges |-> DefaultEdges(agent, resources)]
    PROVE  AgentGraph(g, agent) = {g} /\ ResourceIds(g) = resources
<1>1. PICK nodes, edges, S, given :
        /\ nodes = DefaultNodes(agent, resources) /\ edges = DefaultEdges(agent, resources)
        /\ S = Pieces(resources) /\ given = Resources(resources)
  OBVIOUS
<1>2. g.nodes = nodes /\ g.edges = edges
  BY <1>1
<1>3. PICK start, one, end :
        start = Node("input", 0) /\ one = Node("agent", agent) /\ end = Node("output", 0)
  OBVIOUS
<1>4. /\ start.id = <<"input", 0>> /\ one.id = <<"agent", agent>> /\ end.id = <<"output", 0>>
      /\ start.type = "input" /\ one.type = "agent" /\ end.type = "output" /\ one.ref = agent
  BY <1>3, NodeIs
<1>5. ToSet(nodes) = {start, one, end} \cup S
  BY <1>1, <1>3, DefaultNodesAre
<1>6. \A x \in S : x = Node(x.type, x.ref) /\ x.type \in Kinds /\ x.ref \in resources[x.type]
  <2>1. \A x \in S : \E kind \in Kinds : \E ref \in resources[kind] : x = Node(kind, ref)
    BY <1>1 DEF Pieces
  <2> QED BY <2>1, NodeIs
<1>7. \A kind \in Kinds : \A ref \in resources[kind] : Node(kind, ref) \in S
  BY <1>1 DEF Pieces
<1>8. \A kind \in Kinds : IsFiniteSet(resources[kind]) /\ 0 \notin resources[kind]
  BY DEF Given
\* the nodes of a type
<1>9. /\ OfType(nodes, "input") = {start} /\ OfType(nodes, "agent") = {one}
      /\ OfType(nodes, "output") = {end}
  BY <1>4, <1>5, <1>6 DEF OfType, Kinds
<1>10. \A kind \in Kinds : OfType(nodes, kind) = {Node(kind, ref) : ref \in resources[kind]}
  <2> TAKE kind \in Kinds
  <2>1. kind \notin {"input", "agent", "output"}
    BY DEF Kinds
  <2>2. ASSUME NEW x \in OfType(nodes, kind) PROVE \E ref \in resources[kind] : x = Node(kind, ref)
    <3>1. x \in S /\ x.type = kind
      BY <2>1, <1>4, <1>5 DEF OfType
    <3> QED BY <3>1, <1>6
  <2>3. ASSUME NEW ref \in resources[kind] PROVE Node(kind, ref) \in OfType(nodes, kind)
    BY <1>5, <1>7, NodeIs DEF OfType
  <2> QED BY <2>2, <2>3
<1>11. ASSUME NEW kind \in Kinds
       PROVE  /\ {node.ref : node \in OfType(nodes, kind)} = resources[kind]
              /\ Cardinality(resources[kind]) = Cardinality(OfType(nodes, kind))
  <2>1. \A ref \in resources[kind] : Node(kind, ref) \in OfType(nodes, kind) /\ Node(kind, ref).ref = ref
    BY <1>10, NodeIs
  <2>2. \A x \in OfType(nodes, kind) : x.ref \in resources[kind] /\ x = Node(kind, x.ref)
    BY <1>10, NodeIs
  <2>3. {node.ref : node \in OfType(nodes, kind)} = resources[kind]
    BY <2>1, <2>2
  <2>4. PICK T : T = OfType(nodes, kind)
    OBVIOUS
  <2> DEFINE f == [ref \in resources[kind] |-> Node(kind, ref)]
  <2>5. f \in Surjection(resources[kind], T)
    BY <2>1, <2>2, <2>4 DEF Surjection
  <2>6. f \in Injection(resources[kind], T)
    BY <2>1, <2>4 DEF Injection, IsInjective
  <2> HIDE DEF f
  <2>7. Cardinality(T) = Cardinality(resources[kind])
    BY <2>5, <2>6, <1>8, FS_Surjection
  <2> QED BY <2>3, <2>4, <2>7
<1>12. ResourceIds(g) = resources
  <2>1. ASSUME NEW kind \in Kinds
        PROVE  {node.ref : node \in {n \in ToSet(nodes) : n.type = kind /\ n.ref # 0}} = resources[kind]
    <3>1. \A x \in OfType(nodes, kind) : x.ref # 0
      BY <1>8, <1>11
    <3>2. {n \in ToSet(nodes) : n.type = kind /\ n.ref # 0} = OfType(nodes, kind)
      BY <3>1 DEF OfType
    <3> QED BY <3>2, <1>11
  <2>2. ResourceIds(g) = [kind \in Kinds |-> resources[kind]]
    BY <2>1, <1>2 DEF ResourceIds
  <2> QED BY <2>2 DEF Given
\* the edges asked for
<1>13. /\ edges \in Seq(ToSet(edges)) /\ Len(edges) = 2 + Len(given) /\ Len(given) \in Nat
       /\ edges[1] = Edge(start.id, "default", one.id, "default")
       /\ edges[2] = Edge(one.id, "result", end.id, "answer")
       /\ \A i \in 1 .. Len(given) : i + 2 \in 1 .. Len(edges) /\ edges[i + 2] = Gives(given[i], agent)
  BY <1>1, <1>4, DefaultEdgesAre
<1>14. DOMAIN edges = 1 .. Len(edges) /\ 1 \in 1 .. Len(edges) /\ 2 \in 1 .. Len(edges)
  BY <1>13
<1>15. /\ Edge(start.id, "default", one.id, "default") \in ToSet(edges)
       /\ Edge(one.id, "result", end.id, "answer") \in ToSet(edges)
  BY <1>13, <1>14 DEF ToSet
<1>16. ASSUME NEW kind \in Kinds, NEW node \in OfType(nodes, kind)
       PROVE  Wired(g, node.id, one.id)
  <2>1. node \in S
    BY <1>7, <1>10
  <2>2. given \in Seq(S) /\ ToSet(given) = S
    BY <1>1, ResourcesAre
  <2>3. PICK i \in 1 .. Len(given) : node = given[i]
    BY <2>1, <2>2 DEF ToSet
  <2>4. i + 2 \in 1 .. Len(edges) /\ edges[i + 2] = Edge(node.id, Inlet(node.type), one.id, Inlet(node.type))
    BY <2>3, <1>4, <1>13 DEF Gives
  <2>5. edges[i + 2] \in ToSet(edges) /\ edges[i + 2].from = node.id /\ edges[i + 2].to = one.id
    BY <2>4, <1>14, EdgeIs DEF ToSet
  <2> QED BY <2>5, <1>2 DEF Wired
\* so the check passes
<1> DEFINE only(type) == CHOOSE node \in OfType(nodes, type) : TRUE
           refs(kind) == {node.ref : node \in OfType(nodes, kind)}
<1>17. only("input") = start /\ only("agent") = one /\ only("output") = end
  BY <1>9
<1>18. \A type \in {"input", "agent", "output"} : Cardinality(OfType(nodes, type)) = 1
  BY <1>9, FS_Singleton
<1>19. AgentGraph(g, agent) =
         IF /\ \A type \in {"input", "agent", "output"} : Cardinality(OfType(nodes, type)) = 1
            /\ only("agent").ref = agent
            /\ Edge(only("input").id, "default", only("agent").id, "default") \in ToSet(edges)
            /\ Edge(only("agent").id, "result", only("output").id, "answer") \in ToSet(edges)
            /\ \A kind \in Kinds :
                  /\ 0 \notin refs(kind)
                  /\ Cardinality(refs(kind)) = Cardinality(OfType(nodes, kind))
                  /\ \A node \in OfType(nodes, kind) : Wired(g, node.id, only("agent").id)
         THEN {g} ELSE {}
  BY <1>2 DEF AgentGraph
<1>20. \A kind \in Kinds :
         /\ 0 \notin refs(kind)
         /\ Cardinality(refs(kind)) = Cardinality(OfType(nodes, kind))
         /\ \A node \in OfType(nodes, kind) : Wired(g, node.id, only("agent").id)
  <2> TAKE kind \in Kinds
  <2>1. refs(kind) = resources[kind]
    BY <1>11
  <2> QED BY <2>1, <1>8, <1>11, <1>16, <1>17
<1> HIDE DEF only, refs
<1>21. AgentGraph(g, agent) = {g}
  BY <1>4, <1>15, <1>17, <1>18, <1>19, <1>20
<1> QED BY <1>12, <1>21

-----------------------------------------------------------------------------
(* The drawings and what is stored of them *)

\* A drawing that was begun, and what was stored of the same drawing at some time.
GraphIInv ==
    /\ \E d \in Drafts : draft = Drawing(d, draft.edges)
    /\ draft.edges \in Seq(draft.palette)
    /\ saved # NoGraph =>
          \E edges \in Seq(draft.palette) : saved \in Definition(Drawing(draft, edges))

\* The parts of a drawing.
LEMMA DrawingIs ==
    \A d, edges : LET r == Drawing(d, edges)
                  IN  /\ r.studio = d.studio /\ r.agent = d.agent /\ r.nodes = d.nodes
                      /\ r.palette = d.palette /\ r.edges = edges
                      /\ \A more : Drawing(r, more) = Drawing(d, more)
                                   /\ [r EXCEPT !.edges = more] = Drawing(d, more)
BY DEF Drawing

\* The invariant holds at first and is kept by every step.
LEMMA GraphInvariant == GraphSpec => []GraphIInv
<1>1. GraphInit => GraphIInv
  <2> SUFFICES ASSUME GraphInit PROVE GraphIInv
    OBVIOUS
  <2>1. PICK d \in Drafts : draft = Drawing(d, <<>>) /\ saved = NoGraph
    BY DEF GraphInit
  <2>2. draft.edges = <<>>
    BY <2>1, DrawingIs
  <2>3. <<>> \in Seq(draft.palette)
    BY EmptySeq
  <2> QED BY <2>1, <2>2, <2>3 DEF GraphIInv
<1>2. GraphIInv /\ [GraphNext]_graphVars => GraphIInv'
  <2> SUFFICES ASSUME GraphIInv, [GraphNext]_graphVars PROVE GraphIInv'
    OBVIOUS
  <2>1. PICK d \in Drafts : draft = Drawing(d, draft.edges)
    BY DEF GraphIInv
  <2>2. draft = Drawing(draft, draft.edges)
    BY <2>1, DrawingIs
  <2>3. CASE Draw
    <3>1. PICK edge \in draft.palette : draft' = [draft EXCEPT !.edges = Append(@, edge)]
      BY <2>3 DEF Draw
    <3>2. PICK more : more = Append(draft.edges, edge)
      OBVIOUS
    <3>3. draft' = Drawing(d, more)
      <4>1. draft' = [draft EXCEPT !.edges = more]
        BY <3>1, <3>2
      <4> QED BY <4>1, <2>1, DrawingIs
    <3>4. draft'.edges = more /\ draft'.palette = draft.palette
          /\ \A edges : Drawing(draft', edges) = Drawing(draft, edges)
      BY <3>3, <2>1, DrawingIs
    <3>5. more \in Seq(draft.palette)
      <4>1. draft.edges \in Seq(draft.palette) /\ edge \in draft.palette
        BY DEF GraphIInv
      <4> QED BY <3>2, <4>1, AppendProperties
    <3>6. saved' # NoGraph =>
             \E edges \in Seq(draft'.palette) : saved' \in Definition(Drawing(draft', edges))
      BY <2>3, <3>4 DEF Draw, GraphIInv
    <3> QED BY <3>3, <3>4, <3>5, <3>6 DEF GraphIInv
  <2>4. CASE Store
    <3>1. draft' = draft /\ saved' \in Definition(Drawing(draft, draft.edges))
      BY <2>2, <2>4 DEF Store
    <3> QED BY <3>1 DEF GraphIInv
  <2>5. CASE Discard
    BY <2>5 DEF Discard, GraphIInv
  <2>6. CASE UNCHANGED graphVars
    BY <2>6 DEF graphVars, GraphIInv
  <2> QED BY <2>3, <2>4, <2>5, <2>6 DEF GraphNext
<1> QED BY <1>1, <1>2, PTL DEF GraphSpec

\* What was stored is a normalised graph of the drawing's stages, which the studio's check
\* let pass.
LEMMA StoredIs ==
    ASSUME GraphIInv, saved # NoGraph
    PROVE  \E g : /\ g.nodes = draft.nodes /\ GraphOf(saved) = g
                  /\ g.nodes \in Seq(ToSet(g.nodes)) /\ Cardinality(Ids(g.nodes)) = Len(g.nodes)
                  /\ g.edges \in Seq(ToSet(g.edges)) /\ Joins(g.edges, Ids(g.nodes))
                  /\ IsInjective(g.edges)
                  /\ \A e \in ToSet(g.edges) : Fits(draft.studio, g.nodes, e)
                  /\ draft.studio = "router" => saved \in RouterPlan(g)
                  /\ draft.studio = "agent" => saved = g /\ AgentGraph(g, draft.agent) # {}
<1>1. PICK d \in Drafts : draft = Drawing(d, draft.edges)
  BY DEF GraphIInv
<1>2. draft.nodes \in Seq(ToSet(draft.nodes))
  BY <1>1, DrawingIs, DraftsAssumption
<1>3. PICK edges \in Seq(draft.palette) : saved \in Definition(Drawing(draft, edges))
  BY DEF GraphIInv
<1>4. edges \in Seq(ToSet(edges))
  BY <1>3, OwnElements
<1> DEFINE graphs == Normalized(draft.studio, draft.nodes, edges)
<1>5. saved \in CASE draft.studio = "router" -> UNION {RouterPlan(g) : g \in graphs}
                  [] draft.studio = "agent" -> UNION {AgentGraph(g, draft.agent) : g \in graphs}
                  [] OTHER -> graphs
  BY <1>3, DrawingIs DEF Definition
<1>6. ASSUME NEW g \in graphs
      PROVE  /\ g.nodes = draft.nodes
             /\ g.nodes \in Seq(ToSet(g.nodes)) /\ Cardinality(Ids(g.nodes)) = Len(g.nodes)
             /\ g.edges \in Seq(ToSet(g.edges)) /\ Joins(g.edges, Ids(g.nodes))
             /\ IsInjective(g.edges)
             /\ \A e \in ToSet(g.edges) : Fits(draft.studio, g.nodes, e)
  BY <1>2, <1>4, NormalizedIs
<1>7. CASE draft.studio = "router"
  <2>1. PICK g \in graphs : saved \in RouterPlan(g)
    BY <1>5, <1>7
  <2>2. saved.graph = g
    BY <2>1, <1>6, PlanRuns
  <2> QED BY <2>1, <2>2, <1>6, <1>7 DEF GraphOf
<1>8. CASE draft.studio = "agent"
  <2>1. PICK g \in graphs : saved \in AgentGraph(g, draft.agent)
    BY <1>5, <1>8
  <2>2. saved = g /\ AgentGraph(g, draft.agent) # {}
    BY <2>1 DEF AgentGraph
  <2> QED BY <2>2, <1>6, <1>8 DEF GraphOf
<1>9. CASE draft.studio \notin {"router", "agent"}
  <2>1. saved \in graphs
    BY <1>5, <1>9
  <2> QED BY <2>1, <1>6, <1>9 DEF GraphOf
<1> QED BY <1>7, <1>8, <1>9

\* What is stored of a drawing is sound: its edges join ports that fit, cycles are found, the
\* stages of a router pipeline are in an order in which it can be run, and an agent's graph
\* gives the agent its resources and can be made again from them (graph_v59.py and the
\* handlers of the studios).
THEOREM GraphsStand == GraphSpec => []GraphInv
<1>1. GraphIInv => GraphInv
  <2> SUFFICES ASSUME GraphIInv PROVE GraphInv
    OBVIOUS
  <2>1. PICK d \in Drafts : draft = Drawing(d, draft.edges)
    BY DEF GraphIInv
  <2>2. /\ draft.nodes = d.nodes /\ draft.studio = d.studio /\ draft.agent = d.agent
        /\ draft.nodes \in Seq(ToSet(draft.nodes)) /\ draft.edges \in Seq(ToSet(draft.edges))
    BY <2>1, DrawingIs, DraftsAssumption, OwnElements DEF GraphIInv
  <2>3. GraphTypeOK
    <3> SUFFICES ASSUME saved # NoGraph
                 PROVE  /\ IsInjective(GraphOf(saved).edges)
                        /\ \A e \in ToSet(GraphOf(saved).edges) :
                              /\ \E p \in ToSet(PortsAt(draft.studio, GraphOf(saved).nodes, e.from).out) : p.id = e.out
                              /\ \E p \in ToSet(PortsAt(draft.studio, GraphOf(saved).nodes, e.to).in) : p.id = e.in
      BY DEF GraphTypeOK
    <3>1. PICK g : GraphOf(saved) = g /\ IsInjective(g.edges)
                   /\ \A e \in ToSet(g.edges) : Fits(draft.studio, g.nodes, e)
      BY StoredIs
    <3>2. ASSUME NEW e \in ToSet(g.edges)
          PROVE  /\ \E p \in ToSet(PortsAt(draft.studio, g.nodes, e.from).out) : p.id = e.out
                 /\ \E p \in ToSet(PortsAt(draft.studio, g.nodes, e.to).in) : p.id = e.in
      <4>1. PICK out, in : out = PortsAt(draft.studio, g.nodes, e.from).out
                           /\ in = PortsAt(draft.studio, g.nodes, e.to).in
        OBVIOUS
      <4>2. \E i \in DOMAIN out, j \in DOMAIN in : e.out = out[i].id /\ e.in = in[j].id
        BY <3>1, <4>1 DEF Fits
      <4> QED BY <4>1, <4>2 DEF ToSet
    <3> QED BY <3>1, <3>2
  <2>4. CyclesAreFound
    <3>1. ASSUME \A e \in ToSet(draft.edges) : {e.from, e.to} \subseteq Ids(draft.nodes)
          PROVE  HasCycle(draft.nodes, draft.edges) <=>
                    \E e \in ToSet(draft.edges) :
                        e.from \in ReachedFrom(draft.edges, e.to, Ids(draft.nodes))
      <4>1. Joins(draft.edges, Ids(draft.nodes))
        BY <3>1 DEF Joins
      <4>2. HasCycle(draft.nodes, draft.edges) <=> Back(draft.edges, Ids(draft.nodes))
        BY <4>1, <2>2, CycleFound
      <4> QED BY <4>2 DEF Back
    <3> QED BY <3>1 DEF CyclesAreFound
  <2>5. PipelineRuns
    <3>1. ASSUME saved # NoGraph, draft.studio = "router" PROVE Runnable(saved)
      <4>1. PICK g : /\ g.nodes \in Seq(ToSet(g.nodes)) /\ g.edges \in Seq(ToSet(g.edges))
                     /\ Joins(g.edges, Ids(g.nodes)) /\ saved \in RouterPlan(g)
        BY <3>1, StoredIs
      <4> QED BY <4>1, PlanRuns
    <3> QED BY <3>1 DEF PipelineRuns, Runnable
  <2>6. DefaultGraphStands
    <3> SUFFICES ASSUME draft.studio = "agent"
                 PROVE  \E g \in Normalized("agent", DefaultNodes(draft.agent, ResourceIds(draft)),
                                            DefaultEdges(draft.agent, ResourceIds(draft))) :
                           /\ AgentGraph(g, draft.agent) = {g}
                           /\ ResourceIds(g) = ResourceIds(draft)
      BY DEF DefaultGraphStands
    <3>1. PICK agent, resources : agent = draft.agent /\ resources = ResourceIds(draft)
      OBVIOUS
    <3>2. Len(DefaultEdges(agent, resources)) <= MaxGraphEdges
      <4>1. ResourceIds(draft) = ResourceIds(d)
        BY <2>2 DEF ResourceIds
      <4> QED BY <4>1, <3>1, <2>2, DraftsAssumption
    <3>3. Given(resources)
      <4>1. ASSUME NEW kind \in Kinds
            PROVE  IsFiniteSet({node.ref : node \in {n \in ToSet(draft.nodes) : n.type = kind /\ n.ref # 0}})
        <5> DEFINE refs == {node.ref : node \in {n \in ToSet(draft.nodes) : n.type = kind /\ n.ref # 0}}
                   at == {i \in 1 .. Len(draft.nodes) : draft.nodes[i].type = kind /\ draft.nodes[i].ref # 0}
                   f == [i \in at |-> draft.nodes[i].ref]
        <5>1. DOMAIN draft.nodes = 1 .. Len(draft.nodes) /\ Len(draft.nodes) \in Nat
          BY <2>2
        <5>2. f \in Surjection(at, refs)
          BY <5>1 DEF Surjection, ToSet
        <5>3. IsFiniteSet(at)
          <6>1. IsFiniteSet(1 .. Len(draft.nodes))
            BY <5>1, FS_Interval
          <6> QED BY <6>1, FS_Subset
        <5>4. IsFiniteSet(refs)
          <6> HIDE DEF f, at, refs
          <6> QED BY <5>2, <5>3, FS_Surjection
        <5> QED BY <5>4
      <4>2. \A kind \in Kinds : 0 \notin ResourceIds(draft)[kind] /\ IsFiniteSet(ResourceIds(draft)[kind])
        BY <4>1 DEF ResourceIds
      <4>3. ResourceIds(draft) = [kind \in Kinds |-> ResourceIds(draft)[kind]]
        BY DEF ResourceIds
      <4> QED BY <4>2, <4>3, <3>1 DEF Given
    <3>4. PICK g : g = [nodes |-> DefaultNodes(agent, resources), edges |-> DefaultEdges(agent, resources)]
      OBVIOUS
    <3>5. g \in Normalized("agent", DefaultNodes(agent, resources), DefaultEdges(agent, resources))
      BY <3>2, <3>3, <3>4, DefaultNormal
    <3>6. AgentGraph(g, agent) = {g} /\ ResourceIds(g) = resources
      BY <3>3, <3>4, DefaultPasses
    <3> QED BY <3>1, <3>5, <3>6
  <2>7. ResourcesFeedTheAgent
    <3>1. ASSUME saved # NoGraph, draft.studio = "agent" PROVE Feeds(saved)
      <4>1. PICK g : /\ g.nodes \in Seq(ToSet(g.nodes)) /\ Cardinality(Ids(g.nodes)) = Len(g.nodes)
                     /\ Joins(g.edges, Ids(g.nodes))
                     /\ \A e \in ToSet(g.edges) : Fits("agent", g.nodes, e)
                     /\ saved = g /\ AgentGraph(g, draft.agent) # {}
        BY <3>1, StoredIs
      <4> QED BY <4>1, AgentIsFed
    <3> QED BY <3>1 DEF ResourcesFeedTheAgent, Feeds
  <2> QED BY <2>3, <2>4, <2>5, <2>6, <2>7 DEF GraphInv
<1> QED BY <1>1, GraphInvariant, PTL
=============================================================================
