---------------------------- MODULE UsageProofs ----------------------------
(***************************************************************************)
(* Usage for any events, limits and number of requests. Ingestions:        *)
(* whoever has written an aggregate holds its key, alone, until its        *)
(* transaction ends; so what it wrote is still one event more than what is *)
(* committed, and its commit is an atomic ingestion. The day is only taken *)
(* after the hour, so waits end. Reports: an aggregate is the sum of its   *)
(* events, and a query adds up aggregates that have no event in common.    *)
(***************************************************************************)
EXTENDS UsageReports, TLAPS, FiniteSetTheorems, WellFoundedInduction

-----------------------------------------------------------------------------
(* Finite sums. What a fold computes would be an induction over its set;   *)
(* here it is that no smallest part of a set is a counterexample.          *)

Least(s) == CHOOSE x \in s : TRUE

\* h gives the sum of g over every part of S.
Sums(h, g, S) ==
  h = [s \in SUBSET S |-> IF s = {} THEN 0 ELSE g[Least(s)] + h[s \ {Least(s)}]]

SumOf(g, S) == SumFunctionOnSet(g, S)

\* Any set of parts of a finite set has a smallest member.
LEMMA Smallest ==
  ASSUME NEW S, IsFiniteSet(S), NEW C \in SUBSET (SUBSET S), C # {}
  PROVE  \E T \in C : \A U \in C : U \subseteq T => U = T
<1> DEFINE R == StrictSubsetOrdering(S)
<1>1. IsWellFoundedOn(R, SUBSET S)
  BY FS_StrictSubsetOrderingWellFounded, FS_FiniteSubsetsOfFinite
<1>2. \E T \in C : \A U \in C : ~(<<U, T>> \in R)
  <2> HIDE DEF R
  <2> QED
    BY <1>1, WFMin
<1> QED
  BY <1>2 DEF StrictSubsetOrdering

LEMMA LeastIn ==
  ASSUME NEW s, s # {}
  PROVE  Least(s) \in s
BY DEF Least

LEMMA SumsOf ==
  ASSUME NEW h, NEW g, NEW S, Sums(h, g, S), NEW s \in SUBSET S
  PROVE  h[s] = IF s = {} THEN 0 ELSE g[Least(s)] + h[s \ {Least(s)}]
BY DEF Sums

\* Two such functions agree where their summands do.
LEMMA SumsAgree ==
  ASSUME NEW h, NEW g, NEW A, Sums(h, g, A),
         NEW k, NEW f, NEW B, Sums(k, f, B),
         NEW s \in SUBSET (A \cap B), IsFiniteSet(s), \A x \in s : g[x] = f[x]
  PROVE  h[s] = k[s]
<1> DEFINE C == {u \in SUBSET s : h[u] # k[u]}
<1> SUFFICES ASSUME C # {} PROVE FALSE
  OBVIOUS
<1>1. PICK u \in C : \A v \in C : v \subseteq u => v = u
  <2>1. C \in SUBSET (SUBSET s)
    OBVIOUS
  <2> HIDE DEF C
  <2> QED
    BY <2>1, Smallest
<1>2. u \in SUBSET A /\ u \in SUBSET B /\ u \subseteq s /\ h[u] # k[u]
  <2>1. u \in SUBSET s /\ h[u] # k[u]
    OBVIOUS
  <2> QED
    BY <2>1
<1>3. u # {}
  BY <1>2, SumsOf
<1> DEFINE x == Least(u)
           v == u \ {x}
<1>4. x \in u /\ v \subseteq u /\ v # u
  BY <1>3, LeastIn
<1>5. h[v] = k[v]
  BY <1>1, <1>2, <1>4
<1>6. g[x] = f[x]
  BY <1>2, <1>4
<1>7. h[u] = g[x] + h[v]
  BY <1>2, <1>3, SumsOf
<1>8. k[u] = f[x] + k[v]
  BY <1>2, <1>3, SumsOf
<1> QED
  BY <1>2, <1>5, <1>6, <1>7, <1>8

\* There is such a function for every finite set, so SumOf is what it gives.
LEMMA SumsExist ==
  ASSUME NEW g, NEW S, IsFiniteSet(S)
  PROVE  \E h : Sums(h, g, S)
<1> DEFINE C == {T \in SUBSET S : ~(\E h : Sums(h, g, T))}
<1> SUFFICES ASSUME C # {} PROVE FALSE
  OBVIOUS
<1>1. PICK T \in C : \A U \in C : U \subseteq T => U = T
  <2>1. C \in SUBSET (SUBSET S)
    OBVIOUS
  <2> HIDE DEF C
  <2> QED
    BY <2>1, Smallest
<1> DEFINE sol(U) == CHOOSE h : Sums(h, g, U)
           less(u) == u \ {Least(u)}
           F == [u \in SUBSET T |-> IF u = {} THEN 0
                                    ELSE g[Least(u)] + sol(less(u))[less(u)]]
<1>2. ASSUME NEW U \in SUBSET T, U # T PROVE Sums(sol(U), g, U)
  BY <1>1, <1>2
<1>3. ASSUME NEW u \in SUBSET T, u # T
      PROVE  F[u] = sol(u)[u]
  <2>1. Sums(sol(u), g, u)
    BY <1>2, <1>3
  <2>2. CASE u = {}
    BY <2>1, <2>2, SumsOf
  <2>3. CASE u # {}
    <3>1. /\ Least(u) \in u /\ less(u) \subseteq u
          /\ less(u) \in SUBSET T /\ less(u) # T
      BY <2>3, LeastIn
    <3>2. Sums(sol(less(u)), g, less(u))
      BY <1>2, <3>1
    <3>3. sol(u)[u] = g[Least(u)] + sol(u)[less(u)]
      <4> HIDE DEF sol
      <4> QED BY <2>1, <2>3, SumsOf
    <3>4. IsFiniteSet(less(u))
      BY <3>1, FS_Subset
    <3>5. sol(u)[less(u)] = sol(less(u))[less(u)]
      <4> HIDE DEF sol, less
      <4> QED BY <2>1, <3>1, <3>2, <3>4, SumsAgree
    <3> QED
      BY <2>3, <3>3, <3>5
  <2> QED
    BY <2>2, <2>3
<1>4. \A u \in SUBSET T : u # {} => less(u) \in SUBSET T /\ less(u) # T
  BY LeastIn
<1>5. F = [u \in SUBSET T |-> IF u = {} THEN 0 ELSE g[Least(u)] + F[less(u)]]
  <2>1. \A u \in SUBSET T : u # {} => F[less(u)] = sol(less(u))[less(u)]
    BY <1>3, <1>4
  <2> HIDE DEF sol, less
  <2> QED BY <2>1
<1>6. Sums(F, g, T)
  BY <1>5 DEF Sums
<1> QED
  BY <1>1, <1>6

LEMMA SumIs ==
  ASSUME NEW g, NEW S, IsFiniteSet(S), NEW h, Sums(h, g, S)
  PROVE  SumOf(g, S) = h[S]
<1> DEFINE k == CHOOSE i : Sums(i, g, S)
<1>1. Sums(k, g, S)
  OBVIOUS
<1> HIDE DEF k
<1>2. h[S] = k[S]
  BY <1>1, SumsAgree
<1> QED
  BY <1>2 DEF SumOf, SumFunctionOnSet, FoldFunctionOnSet, MapThenFoldSet,
               Sums, Least, k

LEMMA SumEmpty ==
  ASSUME NEW g
  PROVE  SumOf(g, {}) = 0
<1>1. IsFiniteSet({})
  BY FS_EmptySet
<1>2. PICK h : Sums(h, g, {})
  BY <1>1, SumsExist
<1>3. h[{}] = 0
  BY <1>2, SumsOf
<1> QED
  BY <1>1, <1>2, <1>3, SumIs

\* The steps of the fold.
LEMMA SumLeast ==
  ASSUME NEW g, NEW S, IsFiniteSet(S), S # {}
  PROVE  SumOf(g, S) = g[Least(S)] + SumOf(g, S \ {Least(S)})
<1> DEFINE R == S \ {Least(S)}
<1>1. IsFiniteSet(R)
  BY FS_Subset
<1>2. PICK h : Sums(h, g, S)
  BY SumsExist
<1>3. PICK k : Sums(k, g, R)
  BY <1>1, SumsExist
<1>4. h[R] = k[R]
  BY <1>1, <1>2, <1>3, SumsAgree
<1>5. h[S] = g[Least(S)] + h[R]
  BY <1>2, SumsOf
<1> QED
  BY <1>1, <1>2, <1>3, <1>4, <1>5, SumIs

\* How a finite sum changes with one summand, and with its range.
LEMMA SumPick ==
  ASSUME NEW g, NEW S, IsFiniteSet(S), \A y \in S : g[y] \in Nat, NEW x \in S
  PROVE  /\ SumOf(g, S) \in Nat
         /\ SumOf(g, S) = g[x] + SumOf(g, S \ {x})
<1> DEFINE C == {T \in SUBSET S :
                   ~(/\ SumOf(g, T) \in Nat
                     /\ \A y \in T : SumOf(g, T) = g[y] + SumOf(g, T \ {y}))}
<1>1. C = {}
  <2> SUFFICES ASSUME C # {} PROVE FALSE
    OBVIOUS
  <2>1. PICK T \in C : \A U \in C : U \subseteq T => U = T
    <3>1. C \in SUBSET (SUBSET S)
      OBVIOUS
    <3> HIDE DEF C
    <3> QED
      BY <3>1, Smallest
  <2>2. \A U \in SUBSET T : U # T =>
          /\ SumOf(g, U) \in Nat
          /\ \A y \in U : SumOf(g, U) = g[y] + SumOf(g, U \ {y})
    BY <2>1
  <2>3. T \in SUBSET S /\ IsFiniteSet(T)
    BY FS_Subset
  <2>4. CASE T = {}
    <3>1. SumOf(g, T) = 0
      BY <2>4, SumEmpty
    <3> QED
      BY <2>4, <3>1
  <2>5. CASE T # {}
    <3> DEFINE z == Least(T)
    <3>1. z \in T /\ g[z] \in Nat /\ SumOf(g, T) = g[z] + SumOf(g, T \ {z})
      BY <2>3, <2>5, LeastIn, SumLeast
    <3> HIDE DEF z
    <3>2. SumOf(g, T \ {z}) \in Nat
      BY <2>2, <3>1
    <3>3. SumOf(g, T) \in Nat
      BY <3>1, <3>2
    <3>4. ASSUME NEW y \in T
          PROVE  SumOf(g, T) = g[y] + SumOf(g, T \ {y})
      <4>1. CASE y = z
        BY <4>1, <3>1
      <4>2. CASE y # z
        <5> DEFINE U == T \ {y}
                   V == T \ {z}
                   W == U \ {z}
        <5>1. U \in SUBSET T /\ U # T /\ V \in SUBSET T /\ V # T
              /\ z \in U /\ y \in V /\ W = V \ {y} /\ W \in SUBSET T /\ W # T
          BY <3>1, <4>2
        <5> HIDE DEF U, V, W
        <5>2. SumOf(g, U) = g[z] + SumOf(g, W)
          BY <2>2, <5>1 DEF W
        <5>3. SumOf(g, V) = g[y] + SumOf(g, W)
          BY <2>2, <5>1
        <5>4. SumOf(g, W) \in Nat /\ g[y] \in Nat
          BY <2>2, <2>3, <5>1
        <5>5. SumOf(g, T) = g[z] + SumOf(g, V)
          BY <3>1 DEF V
        <5>6. SumOf(g, T) = g[y] + SumOf(g, U)
          BY <5>2, <5>3, <5>4, <5>5, <3>1
        <5> QED
          BY <5>6 DEF U
      <4> QED
        BY <4>1, <4>2
    <3>5. T \notin C
      BY <3>3, <3>4
    <3> QED
      BY <2>1, <3>5
  <2> QED
    BY <2>4, <2>5
<1> QED
  BY <1>1

LEMMA SumNat ==
  ASSUME NEW g, NEW S, IsFiniteSet(S), \A y \in S : g[y] \in Nat
  PROVE  SumOf(g, S) \in Nat
<1>1. CASE S = {}
  BY <1>1, SumEmpty
<1>2. CASE S # {}
  <2>1. PICK x : x \in S
    BY <1>2
  <2> QED
    BY <2>1, SumPick
<1> QED
  BY <1>1, <1>2

LEMMA SumSame ==
  ASSUME NEW g, NEW f, NEW S, IsFiniteSet(S), \A y \in S : g[y] = f[y]
  PROVE  SumOf(g, S) = SumOf(f, S)
<1>1. PICK h : Sums(h, g, S)
  BY SumsExist
<1>2. PICK k : Sums(k, f, S)
  BY SumsExist
<1>3. h[S] = k[S]
  BY <1>1, <1>2, SumsAgree
<1> QED
  BY <1>1, <1>2, <1>3, SumIs

LEMMA SumChange ==
  ASSUME NEW g, NEW f, NEW S, IsFiniteSet(S), NEW x \in S, NEW d \in Nat,
         \A y \in S : g[y] \in Nat,
         \A y \in S : f[y] = IF y = x THEN g[y] + d ELSE g[y]
  PROVE  SumOf(f, S) = SumOf(g, S) + d
<1> DEFINE R == S \ {x}
<1>1. IsFiniteSet(R)
  BY FS_Subset
<1>2. SumOf(f, R) = SumOf(g, R)
  BY <1>1, SumSame
<1>3. SumOf(g, S) = g[x] + SumOf(g, R)
  BY SumPick
<1>4. SumOf(f, S) = f[x] + SumOf(f, R)
  <2>1. \A y \in S : f[y] \in Nat
    OBVIOUS
  <2> QED
    BY <2>1, SumPick
<1>5. SumOf(g, R) \in Nat /\ g[x] \in Nat
  BY <1>1, SumNat
<1> QED
  BY <1>2, <1>3, <1>4, <1>5

LEMMA SumZero ==
  ASSUME NEW g, NEW S, IsFiniteSet(S), \A y \in S : g[y] \in Nat
  PROVE  SumOf(g, S) = 0 <=> \A y \in S : g[y] = 0
<1>1. ASSUME SumOf(g, S) = 0, NEW y \in S
      PROVE  g[y] = 0
  <2>1. SumOf(g, S) = g[y] + SumOf(g, S \ {y})
    BY SumPick
  <2>2. SumOf(g, S \ {y}) \in Nat
    BY FS_Subset, SumNat
  <2> QED
    BY <1>1, <2>1, <2>2
<1>2. ASSUME \A y \in S : g[y] = 0
      PROVE  SumOf(g, S) = 0
  <2> DEFINE C == {T \in SUBSET S : SumOf(g, T) # 0}
  <2>1. C = {}
    <3> SUFFICES ASSUME C # {} PROVE FALSE
      OBVIOUS
    <3>1. PICK T \in C : \A U \in C : U \subseteq T => U = T
      <4>1. C \in SUBSET (SUBSET S)
        OBVIOUS
      <4> HIDE DEF C
      <4> QED
        BY <4>1, Smallest
    <3>2. T \in SUBSET S /\ SumOf(g, T) # 0 /\ IsFiniteSet(T)
      BY FS_Subset
    <3>3. PICK y : y \in T
      BY <3>2, SumEmpty
    <3>4. SumOf(g, T) = g[y] + SumOf(g, T \ {y})
      BY <3>2, <3>3, SumPick
    <3>5. SumOf(g, T \ {y}) = 0
      BY <3>1, <3>3
    <3> QED
      BY <1>2, <3>2, <3>3, <3>4, <3>5
  <2> QED
    BY <2>1
<1> QED
  BY <1>1, <1>2

\* A sum over disjoint parts is the sum of the sums over the parts.
LEMMA SumUnion ==
  ASSUME NEW g, NEW A, NEW B, IsFiniteSet(A), IsFiniteSet(B), A \cap B = {},
         \A y \in A \cup B : g[y] \in Nat
  PROVE  SumOf(g, A \cup B) = SumOf(g, A) + SumOf(g, B)
<1> DEFINE C == {T \in SUBSET B :
                   SumOf(g, A \cup T) # SumOf(g, A) + SumOf(g, T)}
<1> SUFFICES ASSUME C # {} PROVE FALSE
  OBVIOUS
<1>1. PICK T \in C : \A U \in C : U \subseteq T => U = T
  <2>1. C \in SUBSET (SUBSET B)
    OBVIOUS
  <2> HIDE DEF C
  <2> QED
    BY <2>1, Smallest
<1>2. T \in SUBSET B /\ SumOf(g, A \cup T) # SumOf(g, A) + SumOf(g, T)
  BY <1>1
<1>3. IsFiniteSet(T) /\ IsFiniteSet(A \cup T)
  BY <1>2, FS_Subset, FS_Union
<1>4. SumOf(g, A) \in Nat
  BY SumNat
<1>5. PICK x : x \in T
  <2>1. SumOf(g, {}) = 0
    BY SumEmpty
  <2>2. A \cup {} = A
    OBVIOUS
  <2> QED
    BY <1>2, <1>4, <2>1, <2>2
<1> DEFINE U == T \ {x}
<1>6. SumOf(g, A \cup U) = SumOf(g, A) + SumOf(g, U)
  BY <1>1, <1>2, <1>5
<1>7. SumOf(g, T) = g[x] + SumOf(g, U)
  BY <1>2, <1>3, <1>5, SumPick
<1>8. SumOf(g, A \cup T) = g[x] + SumOf(g, A \cup U)
  <2>1. (A \cup T) \ {x} = A \cup U
    BY <1>2, <1>5
  <2>2. x \in A \cup T /\ \A y \in A \cup T : g[y] \in Nat
    BY <1>2, <1>5
  <2>3. SumOf(g, A \cup T) = g[x] + SumOf(g, (A \cup T) \ {x})
    BY <1>3, <2>2, SumPick
  <2> QED
    BY <2>1, <2>3
<1>9. SumOf(g, U) \in Nat /\ g[x] \in Nat
  <2>1. IsFiniteSet(U)
    BY <1>3, FS_Subset
  <2> QED
    BY <1>2, <1>5, <2>1, SumNat
<1> QED
  BY <1>2, <1>4, <1>6, <1>7, <1>8, <1>9

LEMMA SumParts ==
  ASSUME NEW g, NEW S, IsFiniteSet(S), \A y \in S : g[y] \in Nat,
         NEW R, IsFiniteSet(R), NEW M \in [R -> SUBSET S],
         \A b, c \in R : b # c => M[b] \cap M[c] = {},
         NEW f, \A b \in R : f[b] = SumOf(g, M[b])
  PROVE  SumOf(f, R) = SumOf(g, UNION {M[b] : b \in R})
<1> DEFINE All(T) == UNION {M[b] : b \in T}
           C == {T \in SUBSET R : SumOf(f, T) # SumOf(g, All(T))}
<1> SUFFICES ASSUME C # {} PROVE FALSE
  OBVIOUS
<1>1. PICK T \in C : \A U \in C : U \subseteq T => U = T
  <2>1. C \in SUBSET (SUBSET R)
    OBVIOUS
  <2> HIDE DEF C
  <2> QED
    BY <2>1, Smallest
<1>2. T \in SUBSET R /\ SumOf(f, T) # SumOf(g, All(T))
  BY <1>1
<1>3. PICK x : x \in T
  <2>1. All({}) = {}
    OBVIOUS
  <2> HIDE DEF All
  <2> QED
    BY <1>2, <2>1, SumEmpty
<1> DEFINE U == T \ {x}
<1>4. SumOf(f, U) = SumOf(g, All(U))
  <2>1. U \in SUBSET R /\ U \subseteq T /\ U # T
    BY <1>2, <1>3
  <2>2. U \notin C
    BY <1>1, <2>1
  <2> QED
    BY <2>1, <2>2
<1>5. SumOf(f, T) = f[x] + SumOf(f, U)
  <2>1. \A b \in T : f[b] \in Nat
    BY <1>2, FS_Subset, SumNat
  <2>2. IsFiniteSet(T)
    BY <1>2, FS_Subset
  <2> QED
    BY <2>1, <2>2, <1>3, SumPick
<1>6. /\ All(T) = M[x] \cup All(U)
      /\ M[x] \cap All(U) = {}
      /\ All(U) \in SUBSET S /\ M[x] \in SUBSET S
  BY <1>2, <1>3
<1>7. SumOf(g, M[x] \cup All(U)) = SumOf(g, M[x]) + SumOf(g, All(U))
  <2> DEFINE A == M[x]
             B == All(U)
  <2>1. A \in SUBSET S /\ B \in SUBSET S /\ A \cap B = {}
    BY <1>6
  <2> HIDE DEF A, B
  <2>2. IsFiniteSet(A) /\ IsFiniteSet(B) /\ \A y \in A \cup B : g[y] \in Nat
    BY <2>1, FS_Subset
  <2>3. SumOf(g, A \cup B) = SumOf(g, A) + SumOf(g, B)
    BY <2>1, <2>2, SumUnion
  <2> QED
    BY <2>3 DEF A, B
<1> QED
  BY <1>2, <1>3, <1>4, <1>5, <1>6, <1>7

-----------------------------------------------------------------------------
(* Ingestions *)

USE UsageAssumption DEF Grains

Wrote(q, g) == Step(q, "open") /\ job[q].row[g] # Absent

HourFirst == \A q \in Requests : Wrote(q, "day") => Wrote(q, "hour")

\* No two transactions hold one key.
Exclusive ==
  \A q, r \in Requests, b \in Buckets : Holds(q, b) /\ Holds(r, b) => q = r

\* What a transaction has written is the committed row and its event.
Current ==
  \A q \in Requests, g \in Grains :
    Wrote(q, g) =>
      /\ job[q].row[g] = Plus(aggregate[Bucket(g, job[q].event)], job[q].event)
      /\ Fits(job[q].row[g])

IInv == TypeOK /\ HourFirst /\ Exclusive /\ Current

\* The instance's operators on buckets are those of this module.
LEMMA SameBuckets ==
  /\ Totals!Grains = Grains
  /\ \A g \in Grains, e \in Offered : Totals!Bucket(g, e) = Bucket(g, e)
  /\ Totals!Buckets = Buckets
  /\ \A row, e : Totals!Plus(row, e) = Plus(row, e)
  /\ \A row : Totals!Fits(row) = Fits(row)
<1>1. Totals!Grains = Grains
  BY DEF Totals!Grains
<1>2. \A g \in Grains, e \in Offered : Totals!Bucket(g, e) = Bucket(g, e)
  BY DEF Totals!Bucket, Bucket, Totals!Truncated, Truncated
<1>3. Totals!Buckets = Buckets
  BY <1>1, <1>2 DEF Totals!Buckets, Buckets
<1> QED
  BY <1>1, <1>2, <1>3 DEF Totals!Plus, Plus, Totals!Fits, Fits

LEMMA JobTypes ==
  ASSUME TypeOK, NEW q \in Requests, Step(q, "open")
  PROVE  /\ job[q] = [at |-> "open", event |-> job[q].event, row |-> job[q].row]
         /\ job[q].event \in Offered
         /\ job[q].row \in [Grains -> Written]
BY DEF TypeOK, Job, Transaction, Idle, Step

LEMMA BucketTypes ==
  ASSUME NEW e \in Offered, NEW g \in Grains
  PROVE  /\ Bucket(g, e) \in Buckets
         /\ Bucket(g, e).grain = g
         /\ e \in Event
<1>1. Bucket(g, e) \in Buckets
  BY DEF Buckets
<1>2. Bucket(g, e).grain = g
  BY DEF Bucket
<1>3. e \in Event
  OBVIOUS
<1> QED
  BY <1>1, <1>2, <1>3

LEMMA PlusTypes ==
  ASSUME NEW e \in Offered, NEW row \in Written
  PROVE  Plus(row, e) \in Row /\ Plus(row, e) # Absent
<1>1. e.quantity \in Nat /\ e \in Event
  BY DEF Event
<1>2. Plus(row, e) \in Row
  BY <1>1 DEF Plus, Row, Written
<1> QED
  BY <1>2 DEF Row

LEMMA InitIInv == Init => IInv
<1> SUFFICES ASSUME Init PROVE IInv
  OBVIOUS
<1>1. \A q \in Requests : job[q] = Idle /\ ~Step(q, "open")
  BY DEF Init, Step, Idle
<1>2. TypeOK
  BY DEF Init, TypeOK, Job
<1> QED
  BY <1>1, <1>2 DEF IInv, HourFirst, Exclusive, Current, Wrote, Holds

\* A step of q that only ends its transaction, or begins one, leaves every
\* part of the invariant as it was: what others wrote is untouched.
LEMMA ReleaseKeepsIInv ==
  ASSUME IInv, NEW q \in Requests, NEW j \in Job,
         job' = [job EXCEPT ![q] = j],
         j.at = "open" => \A g \in Grains : j.row[g] = Absent,
         UNCHANGED <<stored, aggregate>>
  PROVE  IInv'
<1>1. TypeOK'
  BY DEF IInv, TypeOK
<1>2. \A r \in Requests : job'[r] = IF r = q THEN j ELSE job[r]
  BY DEF IInv, TypeOK
<1>3. \A r \in Requests, g \in Grains :
        Wrote(r, g)' => Wrote(r, g) /\ job'[r] = job[r]
  BY <1>2 DEF Wrote, Step
<1>4. \A r \in Requests, b \in Buckets : Holds(r, b)' => Holds(r, b)
  BY <1>2 DEF Holds, Step
<1>5. HourFirst'
  BY <1>2, <1>3 DEF IInv, HourFirst, Wrote, Step
<1>6. Exclusive'
  BY <1>4 DEF IInv, Exclusive
<1>7. Current'
  BY <1>3 DEF IInv, Current
<1> QED
  BY <1>1, <1>5, <1>6, <1>7 DEF IInv

LEMMA UpsertKeepsIInv ==
  ASSUME IInv, NEW q \in Requests, Upsert(q)
  PROVE  IInv'
<1> DEFINE e == job[q].event
           g == NextGrain(q)
           b == Bucket(g, e)
           written == Plus(aggregate[b], e)
<1>1. /\ Step(q, "open") /\ g \in Grains /\ e \in Offered /\ b \in Buckets
      /\ job[q].row[g] = Absent
      /\ job[q].row \in [Grains -> Written]
      /\ job[q] = [at |-> "open", event |-> e, row |-> job[q].row]
  BY JobTypes, BucketTypes DEF Upsert, Unwritten, NextGrain, IInv
<1>2. /\ Free(q, b) /\ Fits(written)
      /\ job' = [job EXCEPT ![q] = [job[q] EXCEPT !.row[g] = written]]
      /\ UNCHANGED <<stored, aggregate>>
  BY DEF Upsert, Become, Needed
<1>3. aggregate[b] \in Written
  BY <1>1 DEF IInv, TypeOK, Written, Row
<1>4. written \in Row /\ written # Absent
  BY <1>1, <1>3, PlusTypes
<1>5. job'[q] = [at |-> "open", event |-> e,
                 row |-> [job[q].row EXCEPT ![g] = written]]
  BY <1>1, <1>2 DEF IInv, TypeOK
<1>6. job'[q] \in Transaction
  BY <1>1, <1>4, <1>5 DEF Transaction, Written
<1>7. \A r \in Requests \ {q} : job'[r] = job[r]
  BY <1>2 DEF IInv, TypeOK
<1>8. TypeOK'
  BY <1>2, <1>6, <1>7 DEF IInv, TypeOK, Job
<1>9. \A h \in Grains : job'[q].row[h] = IF h = g THEN written ELSE job[q].row[h]
  BY <1>1, <1>5
<1>10. HourFirst'
  BY <1>1, <1>4, <1>5, <1>7, <1>9 DEF IInv, HourFirst, Wrote, Step, NextGrain
<1>11. \A c \in Buckets : Holds(q, c)' => Holds(q, c) \/ c = b
  BY <1>1, <1>5, <1>9 DEF Holds, Step
<1>12. \A r \in Requests \ {q}, c \in Buckets : Holds(r, c)' => Holds(r, c)
  BY <1>7 DEF Holds, Step
<1>13. Exclusive'
  BY <1>1, <1>2, <1>11, <1>12 DEF IInv, Exclusive, Free
<1>14. Current'
  <2>1. ASSUME NEW r \in Requests \ {q}, NEW h \in Grains, Wrote(r, h)'
        PROVE  /\ job'[r].row[h]
                    = Plus(aggregate'[Bucket(h, job'[r].event)], job'[r].event)
               /\ Fits(job'[r].row[h])
    BY <2>1, <1>2, <1>7 DEF IInv, Current, Wrote, Step
  <2>2. ASSUME NEW h \in Grains, Wrote(q, h)'
        PROVE  /\ job'[q].row[h]
                    = Plus(aggregate'[Bucket(h, job'[q].event)], job'[q].event)
               /\ Fits(job'[q].row[h])
    <3>1. CASE h = g
      BY <3>1, <1>2, <1>5, <1>9
    <3>2. CASE h # g
      BY <2>2, <3>2, <1>1, <1>2, <1>5, <1>9 DEF IInv, Current, Wrote, Step
    <3> QED
      BY <3>1, <3>2
  <2> QED
    BY <2>1, <2>2 DEF Current
<1> QED
  BY <1>8, <1>10, <1>13, <1>14 DEF IInv

LEMMA IngestedIs ==
  ASSUME NEW e \in Offered
  PROVE  Totals!Ingested(e) =
           [b \in Buckets |->
              IF b \in {Bucket("hour", e), Bucket("day", e)}
              THEN Plus(aggregate[b], e) ELSE aggregate[b]]
<1>1. {Totals!Bucket(g, e) : g \in Totals!Grains}
        = {Bucket("hour", e), Bucket("day", e)}
  BY SameBuckets
<1> QED
  BY <1>1, SameBuckets DEF Totals!Ingested

\* A commit writes both aggregates, each one event more than it was.
LEMMA CommitIsIngestion ==
  ASSUME IInv, NEW q \in Requests, Commit(q)
  PROVE  /\ job[q].event \in Offered
         /\ Totals!Ingest(job[q].event)
<1> DEFINE e == job[q].event
           hour == Bucket("hour", e)
           day == Bucket("day", e)
<1>1. /\ Step(q, "open") /\ e \in Offered
      /\ Wrote(q, "hour") /\ Wrote(q, "day")
  BY JobTypes DEF Commit, Unwritten, NextGrain, Wrote, IInv
<1>2. hour \in Buckets /\ day \in Buckets /\ hour # day
  BY <1>1, BucketTypes
<1>3. /\ job[q].row["hour"] = Plus(aggregate[hour], e)
      /\ job[q].row["day"] = Plus(aggregate[day], e)
      /\ Fits(job[q].row["hour"]) /\ Fits(job[q].row["day"])
  BY <1>1 DEF IInv, Current
<1>4. /\ stored' = [stored EXCEPT ![e] = @ + 1]
      /\ aggregate' = [aggregate EXCEPT ![hour] = Plus(aggregate[hour], e),
                                        ![day] = Plus(aggregate[day], e)]
  BY <1>3 DEF Commit
<1>5. Totals!Ingested(e) =
        [b \in Buckets |-> IF b \in {hour, day} THEN Plus(aggregate[b], e)
                           ELSE aggregate[b]]
  BY <1>1, IngestedIs
<1>6. aggregate' = Totals!Ingested(e)
  BY <1>2, <1>4, <1>5 DEF IInv, TypeOK
<1>7. \A g \in Totals!Grains :
        Totals!Fits(Totals!Ingested(e)[Totals!Bucket(g, e)])
  <2>1. Fits(Totals!Ingested(e)[hour]) /\ Fits(Totals!Ingested(e)[day])
    BY <1>2, <1>3, <1>5
  <2> QED
    BY <2>1, <1>1, SameBuckets
<1> QED
  BY <1>1, <1>4, <1>6, <1>7 DEF Totals!Ingest

LEMMA CommitKeepsIInv ==
  ASSUME IInv, NEW q \in Requests, Commit(q)
  PROVE  IInv'
<1> DEFINE e == job[q].event
           hour == Bucket("hour", e)
           day == Bucket("day", e)
<1>1. /\ Step(q, "open") /\ e \in Offered
      /\ Wrote(q, "hour") /\ Wrote(q, "day")
      /\ job[q].row \in [Grains -> Written]
  BY JobTypes DEF Commit, Unwritten, NextGrain, Wrote, IInv
<1>2. hour \in Buckets /\ day \in Buckets
  BY <1>1, BucketTypes
<1>3. \A g \in Grains :
        /\ job[q].row[g] \in Row /\ Fits(job[q].row[g])
        /\ job[q].row[g] \in [total : 0..MaxInt, count : 0..MaxInt]
  BY <1>1 DEF IInv, Current, Wrote, Written, Row, Fits
<1>4. /\ stored' = [stored EXCEPT ![e] = @ + 1]
      /\ aggregate' = [aggregate EXCEPT ![hour] = job[q].row["hour"],
                                        ![day] = job[q].row["day"]]
      /\ job' = [job EXCEPT ![q] = [at |-> "committed", event |-> e]]
  BY DEF Commit, Become
<1>5. TypeOK'
  <2>1. stored' \in [Offered -> Nat]
    BY <1>4, <1>1 DEF IInv, TypeOK
  <2>2. aggregate' \in
          [Buckets -> [total : 0..MaxInt, count : 0..MaxInt] \cup {Absent}]
    BY <1>2, <1>3, <1>4 DEF IInv, TypeOK
  <2>3. job' \in [Requests -> Job]
    BY <1>1, <1>4 DEF IInv, TypeOK, Job
  <2> QED
    BY <2>1, <2>2, <2>3 DEF TypeOK
<1>6. /\ \A r \in Requests \ {q} : job'[r] = job[r]
      /\ ~Step(q, "open")'
  BY <1>4 DEF IInv, TypeOK, Step
<1>7. HourFirst' /\ Exclusive'
  BY <1>6 DEF IInv, HourFirst, Exclusive, Wrote, Holds, Step
<1>8. ASSUME NEW r \in Requests \ {q}, NEW g \in Grains, Wrote(r, g)
      PROVE  aggregate'[Bucket(g, job[r].event)]
               = aggregate[Bucket(g, job[r].event)]
  <2>1. Step(r, "open") /\ job[r].event \in Offered
    BY <1>8, JobTypes DEF IInv, Wrote
  <2>2. Bucket(g, job[r].event) \in Buckets
    BY <2>1, BucketTypes
  <2>3. Holds(r, Bucket(g, job[r].event))
    BY <1>8 DEF Holds, Wrote
  <2>4. Holds(q, hour) /\ Holds(q, day)
    BY <1>1 DEF Holds, Wrote
  <2>5. Bucket(g, job[r].event) # hour /\ Bucket(g, job[r].event) # day
    BY <2>2, <2>3, <2>4 DEF IInv, Exclusive
  <2> QED
    BY <2>2, <2>5, <1>4 DEF IInv, TypeOK
<1>9. Current'
  BY <1>6, <1>8 DEF IInv, Current, Wrote, Step
<1> QED
  BY <1>5, <1>7, <1>9 DEF IInv

LEMMA NextIInv == IInv /\ [Next]_vars => IInv'
<1> SUFFICES ASSUME IInv, [Next]_vars PROVE IInv'
  OBVIOUS
<1>1. ASSUME NEW q \in Requests, NEW e \in Offered, Insert(q, e)
      PROVE  IInv'
  <2> DEFINE j == [at |-> "open", event |-> e, row |-> [g \in Grains |-> Absent]]
  <2>1. j \in Job
    BY DEF Job, Transaction, Written
  <2> QED
    BY <1>1, <2>1, ReleaseKeepsIInv DEF Insert, Become
<1>2. ASSUME NEW q \in Requests, Overflow(q) \/ Answer(q) \/ Fail(q)
      PROVE  IInv'
  <2>1. Idle \in Job /\ Idle.at # "open"
    BY DEF Job, Idle
  <2> QED
    BY <1>2, <2>1, ReleaseKeepsIInv DEF Overflow, Answer, Fail, Become
<1>3. CASE UNCHANGED vars
  BY <1>3 DEF vars, IInv, TypeOK, HourFirst, Exclusive, Current, Wrote, Holds,
              Step
<1> QED
  BY <1>1, <1>2, <1>3, UpsertKeepsIInv, CommitKeepsIInv DEF Next, Proceed

\* Every reachable state is well typed, and no committed aggregate exceeds its
\* column.
THEOREM TypeCorrect == Spec => []TypeOK
<1>1. IInv => TypeOK
  BY DEF IInv
<1> QED
  BY InitIInv, NextIInv, <1>1, PTL DEF Spec

\* Among transactions that each still have an aggregate to write, one waits
\* for none of them: somebody who has the hour, or anybody if nobody has.
LEMMA SomebodyGoesOn == IInv => NoWaitCycle
<1> SUFFICES ASSUME IInv, NEW S \in (SUBSET Requests) \ {{}}
             PROVE  \E q \in S : \A r \in S : ~WaitsFor(q, r)
  BY DEF NoWaitCycle
<1>1. CASE \E q \in S : ~Unwritten(q)
  BY <1>1 DEF WaitsFor
<1>2. CASE \A q \in S : Unwritten(q)
  <2>1. \A q \in S : ~Wrote(q, "day")
    BY <1>2 DEF IInv, HourFirst, Wrote, Unwritten, NextGrain
  <2>2. \A q \in S : Step(q, "open") /\ job[q].event \in Offered
    BY <1>2, JobTypes DEF Unwritten, IInv
  <2>3. \A r \in S, e \in Offered : ~Holds(r, Bucket("day", e))
    <3> SUFFICES ASSUME NEW r \in S, NEW e \in Offered,
                        Holds(r, Bucket("day", e))
                 PROVE  FALSE
      OBVIOUS
    <3>1. PICK g \in Grains : /\ job[r].row[g] # Absent
                              /\ Bucket("day", e) = Bucket(g, job[r].event)
      BY DEF Holds
    <3>2. g = "day"
      BY <3>1, <2>2, BucketTypes
    <3> QED
      BY <3>1, <3>2, <2>1, <2>2 DEF Wrote
  <2>4. CASE \E q \in S : Wrote(q, "hour")
    <3>1. PICK q \in S : Wrote(q, "hour")
      BY <2>4
    <3>2. Needed(q) = Bucket("day", job[q].event)
      BY <3>1 DEF Needed, NextGrain, Wrote
    <3> QED
      BY <3>2, <2>2, <2>3 DEF WaitsFor
  <2>5. CASE \A q \in S : ~Wrote(q, "hour")
    <3>1. \A q, r \in S : ~WaitsFor(q, r)
      BY <2>1, <2>5 DEF WaitsFor, Holds, Wrote
    <3> QED
      BY <3>1
  <2> QED
    BY <2>4, <2>5
<1> QED
  BY <1>1, <1>2

\* Ingestions never wait in a circle, however many run at once.
THEOREM WaitsEnd == Spec => []NoWaitCycle
BY InitIInv, NextIInv, SomebodyGoesOn, PTL DEF Spec

LEMMA StepRefines ==
  IInv /\ [Next]_vars => [Totals!Next]_<<stored, aggregate>>
<1> SUFFICES ASSUME IInv, [Next]_vars
             PROVE  Totals!Next \/ UNCHANGED <<stored, aggregate>>
  OBVIOUS
<1>1. ASSUME NEW q \in Requests, Commit(q)
      PROVE  Totals!Next
  BY <1>1, CommitIsIngestion DEF Totals!Next
<1> QED
  BY <1>1 DEF Next, vars, Insert, Proceed, Upsert, Overflow, Answer, Fail

\* Concurrent ingestions implement atomic ones: an event and its two aggregates
\* are never seen apart.
THEOREM Refinement == Spec => ImplementsTotals
<1>1. Init => Totals!Init
  BY SameBuckets DEF Init, Totals!Init
<1> QED
  BY InitIInv, NextIInv, StepRefines, <1>1, PTL
  DEF Spec, ImplementsTotals, Totals!Spec

-----------------------------------------------------------------------------
(* Aggregates and reports *)

Mine(b) == {e \in Offered : Bucket(b.grain, e) = b}

LEMMA OfferedFinite == IsFiniteSet(Offered)
BY ReportsAssumption

LEMMA MineIsFinite ==
  ASSUME NEW b
  PROVE  Mine(b) \in SUBSET Offered /\ IsFiniteSet(Mine(b))
BY OfferedFinite, FS_Subset DEF Mine

LEMMA Amounts ==
  ASSUME TypeOK, NEW e \in Offered
  PROVE  /\ stored[e] \in Nat /\ e.quantity \in Nat
         /\ Consumption[e] = stored[e] * e.quantity
         /\ Consumption[e] \in Nat
         /\ stored[e] = 0 => Consumption[e] = 0
<1>1. stored[e] \in Nat
  BY DEF TypeOK
<1>2. e.quantity \in Nat
  BY DEF Event
<1>3. Consumption[e] = stored[e] * e.quantity
  BY DEF Consumption
<1> QED
  BY <1>1, <1>2, <1>3

\* What AggregatesMatchEvents says of one aggregate.
Matches(b) ==
  aggregate[b] = IF SumOf(stored, Mine(b)) = 0 THEN Absent
                 ELSE [total |-> SumOf(Consumption, Mine(b)),
                       count |-> SumOf(stored, Mine(b))]

LEMMA MatchesIs == AggregatesMatchEvents <=> \A b \in Buckets : Matches(b)
BY DEF AggregatesMatchEvents, Matches, SumOf, Mine

\* No event has been stored that an aggregate without a row would count.
LEMMA AbsentIsEmpty ==
  ASSUME TypeOK, NEW b \in Buckets, Matches(b)
  PROVE  aggregate[b] = Absent => \A e \in Mine(b) : stored[e] = 0
<1>1. \A e \in Mine(b) : stored[e] \in Nat /\ Consumption[e] \in Nat
  BY Amounts DEF Mine
<1>2. SumOf(stored, Mine(b)) \in Nat /\ SumOf(Consumption, Mine(b)) \in Nat
  BY <1>1, MineIsFinite, SumNat
<1>3. aggregate[b] = Absent => SumOf(stored, Mine(b)) = 0
  BY <1>2 DEF Matches
<1> QED
  BY <1>1, <1>3, MineIsFinite, SumZero

LEMMA CommitMatches ==
  ASSUME IInv, NEW q \in Requests, Commit(q), NEW b \in Buckets, Matches(b)
  PROVE  Matches(b)'
<1> DEFINE e == job[q].event
           counts == SumOf(stored, Mine(b))
           totals == SumOf(Consumption, Mine(b))
<1>1. /\ e \in Offered
      /\ stored' = [stored EXCEPT ![e] = @ + 1]
      /\ aggregate'[b] = IF b \in {Bucket("hour", e), Bucket("day", e)}
                         THEN Plus(aggregate[b], e) ELSE aggregate[b]
  BY CommitIsIngestion, IngestedIs DEF Totals!Ingest
<1>2. TypeOK
  BY DEF IInv
<1> HIDE DEF e
<1>3. \A y \in Offered :
        /\ stored'[y] = IF y = e THEN stored[y] + 1 ELSE stored[y]
        /\ Consumption'[y] = IF y = e THEN Consumption[y] + e.quantity
                             ELSE Consumption[y]
  <2> SUFFICES ASSUME NEW y \in Offered
               PROVE  /\ stored'[y] = IF y = e THEN stored[y] + 1 ELSE stored[y]
                      /\ Consumption'[y] =
                           IF y = e THEN Consumption[y] + e.quantity
                           ELSE Consumption[y]
    OBVIOUS
  <2>1. stored'[y] = IF y = e THEN stored[y] + 1 ELSE stored[y]
    BY <1>1, <1>2 DEF TypeOK
  <2>2. Consumption'[y] = stored'[y] * y.quantity
    BY DEF Consumption
  <2>3. (stored[y] + 1) * y.quantity = stored[y] * y.quantity + y.quantity
    BY <1>2, Amounts
  <2> QED
    BY <1>2, <2>1, <2>2, <2>3, Amounts
<1>4. \A y \in Mine(b) : y \in Offered /\ stored[y] \in Nat /\ Consumption[y] \in Nat
  BY <1>2, MineIsFinite, Amounts
<1>5. IsFiniteSet(Mine(b))
  BY MineIsFinite
<1>6. counts \in Nat /\ totals \in Nat
  BY <1>4, <1>5, SumNat
<1>7. CASE e \in Mine(b)
  <2>1. SumOf(stored', Mine(b)) = counts + 1
    BY <1>3, <1>4, <1>5, <1>7, SumChange
  <2>2. SumOf(Consumption', Mine(b)) = totals + e.quantity
    <3>1. e.quantity \in Nat
      BY <1>1, <1>2, Amounts
    <3> QED
      BY <1>3, <1>4, <1>5, <1>7, <3>1, SumChange
  <2>3. aggregate'[b] = Plus(aggregate[b], e)
    <3>1. b.grain \in Grains
      BY BucketTypes DEF Buckets
    <3> QED
      BY <1>1, <1>7, <3>1 DEF Mine
  <2>4. aggregate'[b] = [total |-> totals + e.quantity, count |-> counts + 1]
    <3>1. CASE counts = 0
      <4>1. aggregate[b] = Absent
        BY <3>1 DEF Matches
      <4>2. \A y \in Mine(b) : stored[y] = 0
        BY <4>1, <1>2, AbsentIsEmpty
      <4>3. totals = 0
        BY <4>2, <1>2, <1>4, <1>5, Amounts, SumZero
      <4>4. e.quantity \in Nat
        BY <1>1, <1>2, Amounts
      <4> QED
        BY <2>3, <3>1, <4>1, <4>3, <4>4 DEF Plus
    <3>2. CASE counts # 0
      <4>1. aggregate[b] = [total |-> totals, count |-> counts]
        BY <3>2 DEF Matches
      <4>2. aggregate[b] # Absent
        BY <4>1, <1>6
      <4> QED
        BY <2>3, <4>1, <4>2 DEF Plus
    <3> QED
      BY <3>1, <3>2
  <2> QED
    BY <1>6, <2>1, <2>2, <2>4 DEF Matches, Mine
<1>8. CASE e \notin Mine(b)
  <2>1. SumOf(stored', Mine(b)) = counts
    BY <1>3, <1>4, <1>5, <1>8, SumSame
  <2>2. SumOf(Consumption', Mine(b)) = totals
    BY <1>3, <1>4, <1>5, <1>8, SumSame
  <2>3. aggregate'[b] = aggregate[b]
    BY <1>1, <1>8, BucketTypes DEF Mine
  <2> QED
    BY <2>1, <2>2, <2>3 DEF Matches, Mine
<1> QED
  BY <1>7, <1>8

\* An aggregate is the sum of its events, however many ingestions overlap,
\* fail or overflow.
THEOREM AggregatesAreSums == Spec => []AggregatesMatchEvents
<1>1. Init => AggregatesMatchEvents
  <2> SUFFICES ASSUME Init, NEW b \in Buckets PROVE Matches(b)
    BY MatchesIs
  <2>1. \A e \in Mine(b) : stored[e] = 0
    BY DEF Mine, Init
  <2>2. SumOf(stored, Mine(b)) = 0
    BY <2>1, MineIsFinite, SumZero
  <2> QED
    BY <2>2 DEF Init, Matches
<1>2. IInv /\ AggregatesMatchEvents /\ [Next]_vars => AggregatesMatchEvents'
  <2> SUFFICES ASSUME IInv, AggregatesMatchEvents, [Next]_vars
               PROVE  AggregatesMatchEvents'
    OBVIOUS
  <2>1. \A b \in Buckets : Matches(b)
    BY MatchesIs
  <2>2. ASSUME NEW q \in Requests, Commit(q)
        PROVE  AggregatesMatchEvents'
    <3>1. \A b \in Buckets : Matches(b)'
      BY <2>1, <2>2, CommitMatches
    <3> QED
      BY <3>1 DEF AggregatesMatchEvents, Matches, SumOf, Mine
  <2>3. CASE UNCHANGED <<stored, aggregate>>
    BY <2>3 DEF AggregatesMatchEvents, Consumption
  <2> QED
    BY <2>2, <2>3 DEF Next, vars, Insert, Proceed, Upsert, Overflow, Answer, Fail
<1> QED
  BY <1>1, <1>2, InitIInv, NextIInv, PTL DEF Spec

\* The rest of a sum, of which every summand is zero, adds nothing.
LEMMA SumRest ==
  ASSUME NEW g, NEW B, IsFiniteSet(B), \A y \in B : g[y] \in Nat,
         NEW A \in SUBSET B, \A y \in B \ A : g[y] = 0
  PROVE  SumOf(g, B) = SumOf(g, A)
<1> DEFINE R == B \ A
<1>1. /\ IsFiniteSet(A) /\ IsFiniteSet(R)
      /\ A \cap R = {} /\ A \cup R = B
  BY FS_Subset
<1>2. SumOf(g, R) = 0
  BY <1>1, SumZero
<1>3. SumOf(g, A) \in Nat
  BY <1>1, SumNat
<1> HIDE DEF R
<1>4. SumOf(g, A \cup R) = SumOf(g, A) + SumOf(g, R)
  BY <1>1, SumUnion
<1>5. SumOf(g, B) = SumOf(g, A) + SumOf(g, R)
  BY <1>1, <1>4
<1> QED
  BY <1>2, <1>3, <1>5

LEMMA BucketsFinite == IsFiniteSet(Buckets)
<1> DEFINE P == Grains \X Offered
           f == [p \in P |-> Bucket(p[1], p[2])]
<1>1. IsFiniteSet(Grains)
  <2>1. IsFiniteSet({"hour"}) /\ Grains = {"hour"} \cup {"day"}
    BY FS_Singleton
  <2> QED
    BY <2>1, FS_AddElement
<1>2. IsFiniteSet(P)
  BY <1>1, OfferedFinite, FS_Product
<1>3. f \in Surjection(P, Buckets)
  <2>1. f \in [P -> Buckets]
    BY DEF Buckets
  <2>2. ASSUME NEW b \in Buckets PROVE \E p \in P : f[p] = b
    <3>1. PICK g \in Grains, e \in Offered : b = Bucket(g, e)
      BY DEF Buckets
    <3>2. <<g, e>> \in P /\ f[<<g, e>>] = b
      BY <3>1
    <3> QED
      BY <3>2
  <2> QED
    BY <2>1, <2>2 DEF Surjection
<1> QED
  BY <1>2, <1>3, FS_Surjection

LEMMA EventsFinite ==
  ASSUME NEW grain, NEW orgs, NEW metric, NEW ticks
  PROVE  /\ Events(grain, orgs, metric, ticks) \in SUBSET Offered
         /\ IsFiniteSet(Events(grain, orgs, metric, ticks))
BY OfferedFinite, FS_Subset DEF Events

LEMMA RowsFinite ==
  ASSUME NEW grain, NEW orgs, NEW metric, NEW ticks
  PROVE  /\ Rows(grain, orgs, metric, ticks) \in SUBSET Buckets
         /\ IsFiniteSet(Rows(grain, orgs, metric, ticks))
BY BucketsFinite, FS_Subset DEF Rows

\* An event that was stored is in a row that its query finds.
LEMMA StoredIsInRows ==
  ASSUME TypeOK, AggregatesMatchEvents,
         NEW grain \in Grains, NEW orgs, NEW metric, NEW ticks,
         NEW e \in Events(grain, orgs, metric, ticks), stored[e] # 0
  PROVE  Bucket(grain, e) \in Rows(grain, orgs, metric, ticks)
<1> DEFINE b == Bucket(grain, e)
<1>1. e \in Offered /\ b \in Buckets
  BY BucketTypes DEF Events
<1>2. e \in Mine(b)
  BY <1>1 DEF Mine, Bucket
<1>3. Matches(b)
  BY <1>1, MatchesIs
<1> HIDE DEF b
<1>4. aggregate[b] # Absent
  BY <1>1, <1>2, <1>3, AbsentIsEmpty
<1>5. b.grain = grain /\ b.org = e.org /\ b.metric = e.metric
      /\ b.start = Truncated(grain, e.at)
  BY DEF b, Bucket
<1> QED
  BY <1>1, <1>4, <1>5 DEF Rows, Events, b

\* What a query of the aggregates adds up is what the events report.
LEMMA RowsAddUp ==
  ASSUME TypeOK, AggregatesMatchEvents,
         NEW grain \in Grains, NEW orgs, NEW metric, NEW ticks
  PROVE  Total(Rows(grain, orgs, metric, ticks))
           = Consumed(grain, orgs, metric, ticks)
<1> DEFINE R == Rows(grain, orgs, metric, ticks)
           E == Events(grain, orgs, metric, ticks)
           f == [b \in R |-> aggregate[b].total]
           M == [b \in R |-> Mine(b)]
           U == UNION {M[b] : b \in R}
<1>1. R \in SUBSET Buckets /\ IsFiniteSet(R)
  BY RowsFinite
<1>2. E \in SUBSET Offered /\ IsFiniteSet(E)
  BY EventsFinite
<1>3. \A e \in Offered : Consumption[e] \in Nat
  BY Amounts
<1>4. M \in [R -> SUBSET Offered]
  BY DEF Mine
<1>5. \A b, c \in R : b # c => M[b] \cap M[c] = {}
  <2> SUFFICES ASSUME NEW b \in R, NEW c \in R, NEW e \in M[b], e \in M[c]
               PROVE  b = c
    OBVIOUS
  <2>1. b.grain = grain /\ c.grain = grain
    BY DEF Rows
  <2> QED
    BY <2>1 DEF Mine
<1>6. \A b \in R : f[b] = SumOf(Consumption, M[b])
  <2> SUFFICES ASSUME NEW b \in R
               PROVE  aggregate[b].total = SumOf(Consumption, Mine(b))
    OBVIOUS
  <2>1. Matches(b) /\ aggregate[b] # Absent
    BY <1>1, MatchesIs DEF Rows
  <2> QED
    BY <2>1 DEF Matches
<1>7. U \in SUBSET E
  <2> SUFFICES ASSUME NEW b \in R, NEW e \in Mine(b) PROVE e \in E
    OBVIOUS
  <2>1. /\ b.grain = grain /\ b.org \in orgs /\ b.metric = metric
        /\ b.start \in ticks
    BY DEF Rows
  <2>2. e \in Offered /\ b = Bucket(grain, e)
    BY <2>1 DEF Mine
  <2> QED
    BY <2>1, <2>2 DEF Bucket, Events
<1>8. \A e \in E \ U : Consumption[e] = 0
  <2> SUFFICES ASSUME NEW e \in E, e \notin U PROVE Consumption[e] = 0
    OBVIOUS
  <2>1. e \in Offered
    BY <1>2
  <2>2. CASE stored[e] = 0
    BY <2>1, <2>2, Amounts
  <2>3. CASE stored[e] # 0
    <3>1. Bucket(grain, e) \in R
      BY <2>3, StoredIsInRows
    <3>2. e \in Mine(Bucket(grain, e))
      BY <2>1 DEF Mine, Bucket
    <3> QED
      BY <3>1, <3>2
  <2> QED
    BY <2>2, <2>3
<1>9. Total(R) = SumOf(f, R)
  BY DEF Total, SumFunction, SumOf
<1> HIDE DEF R, E, f, M
<1>10. SumOf(f, R) = SumOf(Consumption, U)
  BY <1>1, <1>3, <1>4, <1>5, <1>6, OfferedFinite, SumParts
<1>11. SumOf(Consumption, E) = SumOf(Consumption, U)
  <2> HIDE DEF U
  <2> QED
    BY <1>2, <1>3, <1>7, <1>8, SumRest
<1> QED
  BY <1>9, <1>10, <1>11 DEF Consumed, SumOf, R, E

-----------------------------------------------------------------------------
(* The points of a series, in order *)

LEMMA Latest ==
  ASSUME NEW P, IsFiniteSet(P), P # {}, \A p \in P : p.start \in Int
  PROVE  \E m \in P : \A p \in P : p.start <= m.start
<1> DEFINE C == {T \in SUBSET P :
                   T # {} /\ ~(\E m \in T : \A p \in T : p.start <= m.start)}
<1>1. C = {}
  <2> SUFFICES ASSUME C # {} PROVE FALSE
    OBVIOUS
  <2>1. PICK T \in C : \A U \in C : U \subseteq T => U = T
    <3>1. C \in SUBSET (SUBSET P)
      OBVIOUS
    <3> HIDE DEF C
    <3> QED
      BY <3>1, Smallest
  <2>2. /\ T \in SUBSET P /\ T # {}
        /\ ~(\E m \in T : \A p \in T : p.start <= m.start)
    BY <2>1
  <2>3. PICK x : x \in T
    BY <2>2
  <2> DEFINE U == T \ {x}
  <2>4. CASE U = {}
    <3>1. \A p \in T : p = x
      BY <2>4
    <3>2. x.start <= x.start
      BY <2>2, <2>3
    <3> QED
      BY <2>2, <2>3, <3>1, <3>2
  <2>5. CASE U # {}
    <3>1. PICK m \in U : \A p \in U : p.start <= m.start
      <4>1. U \in SUBSET P /\ U \subseteq T /\ U # T
        BY <2>2, <2>3
      <4>2. U \notin C
        BY <2>1, <4>1
      <4> QED
        BY <2>5, <4>1, <4>2
    <3>2. x.start \in Int /\ m.start \in Int /\ m \in T
      BY <2>2, <2>3
    <3>3. CASE m.start >= x.start
      <4>1. \A p \in T : p.start <= m.start
        BY <3>1, <3>2, <3>3
      <4> QED
        BY <2>2, <3>2, <4>1
    <3>4. CASE ~(m.start >= x.start)
      <4>1. \A p \in T : p.start <= x.start
        BY <2>2, <3>1, <3>2, <3>4
      <4> QED
        BY <2>2, <2>3, <4>1
    <3> QED
      BY <3>3, <3>4
  <2> QED
    BY <2>4, <2>5
<1> QED
  BY <1>1

\* Points of different starts can be put in order.
LEMMA OrderExists ==
  ASSUME NEW P, IsFiniteSet(P), \A p \in P : p.start \in Int,
         \A p, r \in P : p.start = r.start => p = r
  PROVE  \E points \in SetToSeqs(P) : Ordered(points)
<1> DEFINE C == {T \in SUBSET P : ~(\E points \in SetToSeqs(T) : Ordered(points))}
<1> SUFFICES ASSUME C # {} PROVE FALSE
  OBVIOUS
<1>1. PICK T \in C : \A U \in C : U \subseteq T => U = T
  <2>1. C \in SUBSET (SUBSET P)
    OBVIOUS
  <2> HIDE DEF C
  <2> QED
    BY <2>1, Smallest
<1>2. T \in SUBSET P /\ ~(\E points \in SetToSeqs(T) : Ordered(points))
  BY <1>1
<1>3. IsFiniteSet(T)
  BY <1>2, FS_Subset
<1>4. T # {}
  <2> SUFFICES ASSUME T = {} PROVE FALSE
    OBVIOUS
  <2> DEFINE none == [i \in 1..0 |-> {}]
  <2>1. Cardinality(T) = 0 /\ 1..0 = {}
    BY FS_EmptySet
  <2>2. none \in SetToSeqs(T) /\ Ordered(none)
    BY <2>1 DEF SetToSeqs, Ordered
  <2> QED
    BY <1>2, <2>2
<1>5. PICK m \in T : \A p \in T : p.start <= m.start
  BY <1>2, <1>3, <1>4, Latest
<1> DEFINE U == T \ {m}
           n == Cardinality(T)
<1>6. n \in Nat \ {0} /\ Cardinality(U) = n - 1
  BY <1>3, <1>4, FS_CardinalityType, FS_RemoveElement, FS_EmptySet
<1>7. PICK s \in SetToSeqs(U) : Ordered(s)
  <2>1. U \in SUBSET P /\ U \subseteq T /\ U # T
    BY <1>2
  <2>2. U \notin C
    BY <1>1, <2>1
  <2> QED
    BY <2>1, <2>2
<1> HIDE DEF n
<1>8. /\ s \in [1..(n - 1) -> U]
      /\ \A i, j \in 1..(n - 1) : i # j => s[i] # s[j]
      /\ \A i, j \in 1..(n - 1) : i < j => s[i].start < s[j].start
  BY <1>6, <1>7 DEF SetToSeqs, Ordered
<1> DEFINE all == [i \in 1..n |-> IF i = n THEN m ELSE s[i]]
<1>9. \A i \in 1..n : i # n => i \in 1..(n - 1) /\ s[i] \in U
  BY <1>6, <1>8
<1>10. all \in [1..n -> T]
  BY <1>9
<1>11. \A i, j \in 1..n : i # j => all[i] # all[j]
  BY <1>8, <1>9
<1>12. ASSUME NEW i \in 1..n, NEW j \in 1..n, i < j
       PROVE  all[i].start < all[j].start
  <2>1. i # n /\ all[i] = s[i] /\ s[i] \in U
    BY <1>6, <1>9, <1>12
  <2>2. CASE j = n
    <3>1. s[i].start <= m.start /\ s[i].start # m.start
      BY <1>2, <1>5, <2>1
    <3>2. s[i].start \in Int /\ m.start \in Int
      BY <1>2, <2>1
    <3> QED
      BY <2>1, <2>2, <3>1, <3>2
  <2>3. CASE j # n
    BY <1>8, <1>9, <1>12, <2>1, <2>3
  <2> QED
    BY <2>2, <2>3
<1>13. all \in SetToSeqs(T)
  BY <1>10, <1>11 DEF SetToSeqs, n
<1>14. Ordered(all)
  <2>1. DOMAIN all = 1..n
    OBVIOUS
  <2> HIDE DEF all
  <2> QED
    BY <2>1, <1>12 DEF Ordered
<1> QED
  BY <1>2, <1>13, <1>14

\* What a series is made of.
Points(grain, orgs, metric, from, to) ==
  {[start |-> b.start,
    total |-> Total({c \in Rows(grain, orgs, metric, from..to) :
                       c.start = b.start})]
     : b \in Rows(grain, orgs, metric, from..to)}

LEMMA StartIsInt ==
  ASSUME NEW b \in Buckets
  PROVE  b.start \in Int
<1>1. PICK g \in Grains, e \in Offered : b = Bucket(g, e)
  BY DEF Buckets
<1>2. e.at \in Nat
  BY DEF Event
<1> QED
  BY <1>1, <1>2 DEF Bucket, Truncated

LEMMA SeriesIs ==
  ASSUME NEW grain, NEW orgs, NEW metric, NEW from, NEW to
  PROVE  LET P == Points(grain, orgs, metric, from, to)
             series == Timeseries(grain, orgs, metric, from, to)
         IN series \in SetToSeqs(P) /\ Ordered(series) /\ IsFiniteSet(P)
<1> DEFINE R == Rows(grain, orgs, metric, from..to)
           total(t) == Total({c \in R : c.start = t})
           point(b) == [start |-> b.start, total |-> total(b.start)]
           P == {point(b) : b \in R}
           f == [b \in R |-> point(b)]
<1>1. R \in SUBSET Buckets /\ IsFiniteSet(R)
  BY RowsFinite
<1>2. P = Points(grain, orgs, metric, from, to)
  BY DEF Points
<1>3. Timeseries(grain, orgs, metric, from, to)
        = CHOOSE points \in SetToSeqs(P) : Ordered(points)
  BY DEF Timeseries
<1> HIDE DEF R, total
<1>4. IsFiniteSet(P)
  <2>1. f \in Surjection(R, P)
    <3> HIDE DEF point
    <3>1. f \in [R -> P]
      OBVIOUS
    <3>2. \A p \in P : \E b \in R : f[b] = p
      OBVIOUS
    <3> QED
      BY <3>1, <3>2 DEF Surjection
  <2> HIDE DEF P, f
  <2> QED
    BY <1>1, <2>1, FS_Surjection
<1>5. \A p \in P : p.start \in Int /\ p = [start |-> p.start, total |-> total(p.start)]
  <2>1. \A b \in R : b.start \in Int
    BY <1>1, StartIsInt
  <2> QED
    BY <2>1
<1> HIDE DEF P
<1>6. \A p, r \in P : p.start = r.start => p = r
  BY <1>5
<1>7. \E points \in SetToSeqs(P) : Ordered(points)
  BY <1>4, <1>5, <1>6, OrderExists
<1> QED
  BY <1>4, <1>2, <1>3, <1>7

LEMMA PointsAndRows ==
  ASSUME NEW grain, NEW orgs, NEW metric, NEW from, NEW to
  PROVE  LET R == Rows(grain, orgs, metric, from..to)
             P == Points(grain, orgs, metric, from, to)
         IN /\ \A p \in P :
                 /\ p.total = Total({c \in R : c.start = p.start})
                 /\ \E b \in R : p.start = b.start
            /\ \A b \in R : \E p \in P : p.start = b.start
<1> DEFINE R == Rows(grain, orgs, metric, from..to)
           total(t) == Total({c \in R : c.start = t})
           P == {[start |-> b.start, total |-> total(b.start)] : b \in R}
<1>1. P = Points(grain, orgs, metric, from, to)
  BY DEF Points
<1> HIDE DEF total
<1>2. \A p \in P : p.total = total(p.start) /\ \E b \in R : p.start = b.start
  OBVIOUS
<1>3. ASSUME NEW b \in R PROVE \E p \in P : p.start = b.start
  <2>1. [start |-> b.start, total |-> total(b.start)] \in P
    OBVIOUS
  <2> QED
    BY <2>1
<1> HIDE DEF P
<1> QED
  BY <1>1, <1>2, <1>3 DEF total

\* A finite sequence without repetitions of all the members of a set has each.
LEMMA SeqHasAll ==
  ASSUME NEW P, IsFiniteSet(P), NEW s \in SetToSeqs(P)
  PROVE  /\ DOMAIN s = 1..Cardinality(P) /\ IsFiniteSet(DOMAIN s)
         /\ \A i \in DOMAIN s : s[i] \in P
         /\ \A p \in P : \E i \in DOMAIN s : s[i] = p
<1> DEFINE D == 1..Cardinality(P)
<1>1. s \in [D -> P] /\ \A i, j \in D : i # j => s[i] # s[j]
  BY DEF SetToSeqs
<1>2. IsFiniteSet(D) /\ Cardinality(D) = Cardinality(P)
  <2>1. Cardinality(P) \in Nat
    BY FS_CardinalityType
  <2> QED
    BY <2>1, FS_Interval
<1> HIDE DEF D
<1>3. s \in Injection(D, P)
  BY <1>1 DEF Injection, IsInjective
<1>4. s \in Surjection(D, P)
  BY <1>2, <1>3, FS_Injection
<1> QED
  BY <1>1, <1>2, <1>4 DEF Surjection, D

LEMMA SeriesIsRight ==
  ASSUME TypeOK, AggregatesMatchEvents,
         NEW grain \in Grains, NEW orgs, NEW metric,
         NEW from \in Nat, NEW to \in Nat
  PROVE  SeriesMatchesEvents(grain, orgs, metric, from, to)
<1> DEFINE P == Points(grain, orgs, metric, from, to)
           series == Timeseries(grain, orgs, metric, from, to)
           R == Rows(grain, orgs, metric, from..to)
           E == Events(grain, orgs, metric, from..to)
           D == DOMAIN series
           f == [i \in D |-> series[i].total]
           M == [i \in D |-> Events(grain, orgs, metric, {series[i].start})]
           U == UNION {M[i] : i \in D}
<1>1. series \in SetToSeqs(P) /\ Ordered(series) /\ IsFiniteSet(P)
  BY SeriesIs
<1> HIDE DEF series, P
<1>2. /\ IsFiniteSet(D) /\ D \in SUBSET Int
      /\ \A i \in D : series[i] \in P
      /\ \A p \in P : \E i \in D : series[i] = p
  <2>1. Cardinality(P) \in Nat
    BY <1>1, FS_CardinalityType
  <2> QED
    BY <1>1, <2>1, SeqHasAll
<1>3. \A p \in P : /\ p.total = Consumed(grain, orgs, metric, {p.start})
                   /\ p.start \in from..to
  <2> SUFFICES ASSUME NEW p \in P
               PROVE  /\ p.total = Consumed(grain, orgs, metric, {p.start})
                      /\ p.start \in from..to
    OBVIOUS
  <2>1. /\ p.total = Total({c \in R : c.start = p.start})
        /\ \E b \in R : p.start = b.start
    BY PointsAndRows DEF P
  <2>2. p.start \in from..to
    BY <2>1 DEF Rows
  <2>3. {c \in R : c.start = p.start} = Rows(grain, orgs, metric, {p.start})
    BY <2>2 DEF Rows
  <2>4. Total(Rows(grain, orgs, metric, {p.start}))
          = Consumed(grain, orgs, metric, {p.start})
    BY RowsAddUp
  <2> QED
    BY ONLY <2>1, <2>2, <2>3, <2>4
<1>4. \A i \in D : series[i].start \in from..to
  BY <1>2, <1>3
<1>5. \A i \in D : f[i] = Consumed(grain, orgs, metric, {series[i].start})
  BY <1>2, <1>3
<1>6. \A e \in Offered : Consumption[e] \in Nat
  BY Amounts
<1>7. M \in [D -> SUBSET Offered]
  BY DEF Events
<1>8. \A i, j \in D : i # j => M[i] \cap M[j] = {}
  <2> SUFFICES ASSUME NEW i \in D, NEW j \in D, i # j PROVE M[i] \cap M[j] = {}
    OBVIOUS
  <2>1. series[i].start # series[j].start
    <3>1. series[i].start \in Int /\ series[j].start \in Int
      BY <1>4
    <3>2. i < j \/ j < i
      BY <1>2
    <3> QED
      BY <1>1, <3>1, <3>2 DEF Ordered
  <2> QED
    BY <2>1 DEF Events
<1>9. \A i \in D : f[i] = SumOf(Consumption, M[i])
  BY <1>5 DEF Consumed, SumOf
<1>10. E \in SUBSET Offered /\ IsFiniteSet(E)
  BY EventsFinite
<1>11. U \in SUBSET E
  <2> SUFFICES ASSUME NEW i \in D, NEW e \in M[i] PROVE e \in E
    OBVIOUS
  <2> QED
    BY <1>4 DEF Events
<1>12. \A e \in E \ U : Consumption[e] = 0
  <2> SUFFICES ASSUME NEW e \in E, e \notin U PROVE Consumption[e] = 0
    OBVIOUS
  <2>1. e \in Offered
    BY <1>10
  <2>2. CASE stored[e] = 0
    BY <2>1, <2>2, Amounts
  <2>3. CASE stored[e] # 0
    <3> DEFINE b == Bucket(grain, e)
    <3>1. b \in R
      BY <2>3, StoredIsInRows
    <3>2. PICK i \in D : series[i].start = b.start
      <4>1. \E p \in P : p.start = b.start
        BY <3>1, PointsAndRows DEF P
      <4> QED
        BY <4>1, <1>2
    <3>3. e \in M[i]
      <4>1. b.start = Truncated(grain, e.at)
        BY DEF Bucket
      <4> QED
        BY <2>1, <3>2, <4>1 DEF Events
    <3> QED
      BY <3>3
  <2> QED
    BY <2>2, <2>3
<1>13. SumFunction(f) = SumOf(f, D)
  BY DEF SumFunction, SumOf
<1> HIDE DEF D, f, M, E
<1>14. SumOf(f, D) = SumOf(Consumption, U)
  <2>1. IsFiniteSet(D)
    BY <1>2
  <2> QED
    BY <1>6, <1>7, <1>8, <1>9, <2>1, OfferedFinite, SumParts
<1>15. SumOf(Consumption, E) = SumOf(Consumption, U)
  <2> HIDE DEF U
  <2> QED
    BY <1>6, <1>10, <1>11, <1>12, SumRest
<1> QED
  BY <1>1, <1>5, <1>13, <1>14, <1>15
  DEF SeriesMatchesEvents, Consumed, SumOf, D, f, E, series

\* The three reports agree with the events, and so with one another, for any
\* range, metric and organizations.
THEOREM ReportsAgree == Spec => []ReportsMatchEvents
<1>1. TypeOK /\ AggregatesMatchEvents => ReportsMatchEvents
  <2> SUFFICES ASSUME TypeOK, AggregatesMatchEvents,
                      NEW metric \in Metrics, NEW from \in Times, NEW to \in Times
               PROVE  /\ Summary(metric, from, to)
                           = Consumed("day", Orgs, metric, from..to)
                      /\ \A grain \in Grains, orgs \in {Orgs} \cup {{o} : o \in Orgs} :
                           SeriesMatchesEvents(grain, orgs, metric, from, to)
    BY DEF ReportsMatchEvents
  <2>1. Summary(metric, from, to) = Consumed("day", Orgs, metric, from..to)
    BY RowsAddUp DEF Summary
  <2>2. from \in Nat /\ to \in Nat
    BY ReportsAssumption
  <2> QED
    BY <2>1, <2>2, SeriesIsRight
<1> QED
  BY <1>1, TypeCorrect, AggregatesAreSums, PTL

-----------------------------------------------------------------------------
(* Quotas *)

LEMMA DivAtLeast ==
  ASSUME NEW a \in Nat, NEW d \in Nat \ {0}, NEW k \in Nat
  PROVE  a \div d >= k <=> a >= d * k
<1> DEFINE m == a \div d
<1>1. m \in Int /\ d * m <= a /\ a < d * (m + 1)
  OBVIOUS
<1> HIDE DEF m
<1>2. m >= k => d * m >= d * k
  BY <1>1
<1>3. m < k => m + 1 <= k /\ d * (m + 1) <= d * k
  BY <1>1
<1>4. d * m \in Int /\ d * k \in Int /\ d * (m + 1) \in Int
  BY <1>1
<1>5. m >= k <=> a >= d * k
  BY <1>1, <1>2, <1>3, <1>4
<1> QED
  BY <1>5 DEF m

LEMMA PercentReaches ==
  ASSUME NEW used \in Nat, NEW limit \in Nat
  PROVE  Percent(used, limit) >= 1000 <=>
           IF limit = 0 THEN used > 0 ELSE 2000 * used >= 1999 * limit
<1>1. CASE limit = 0
  BY <1>1 DEF Percent
<1>2. CASE limit # 0
  <2>1. 2000 * used + limit \in Nat /\ 2 * limit \in Nat \ {0}
    BY <1>2
  <2>2. (2000 * used + limit) \div (2 * limit) >= 1000
          <=> 2000 * used + limit >= (2 * limit) * 1000
    BY <2>1, DivAtLeast
  <2> QED
    BY <1>2, <2>2 DEF Percent
<1> QED
  BY <1>1, <1>2

\* What is shown as used is what the events of the month report, and those
\* dated later.
LEMMA UsedIs ==
  ASSUME TypeOK, AggregatesMatchEvents, NEW org, NEW metric, NEW now \in Nat
  PROVE  LET start == StartOfMonth(now)
             end == start + MonthLength
             month == Consumed("day", {org}, metric, start..(end - 1))
             days == {Truncated("day", e.at) : e \in Offered}
             later == Consumed("day", {org}, metric, {t \in days : t >= end})
         IN /\ month \in Nat /\ later \in Nat
            /\ OrganizationUsage(org, metric, now) = month + later
<1> DEFINE start == StartOfMonth(now)
           end == start + MonthLength
           days == {Truncated("day", e.at) : e \in Offered}
           from == {b.start : b \in {c \in Buckets : c.start >= start}}
           E == Events("day", {org}, metric, from)
           A == Events("day", {org}, metric, start..(end - 1))
           B == Events("day", {org}, metric, {t \in days : t >= end})
<1>1. start \in Int /\ end \in Int /\ start <= end
  BY ReportsAssumption DEF StartOfMonth
<1>2. \A e \in Offered : Truncated("day", e.at) \in Int
  BY DEF Event, Truncated
<1>3. \A e \in Offered :
        Truncated("day", e.at) \in from <=> Truncated("day", e.at) >= start
  <2> SUFFICES ASSUME NEW e \in Offered, Truncated("day", e.at) >= start
               PROVE  Truncated("day", e.at) \in from
    OBVIOUS
  <2>1. Bucket("day", e).start = Truncated("day", e.at)
    BY DEF Bucket
  <2> QED
    BY <2>1, BucketTypes
<1> HIDE DEF start, end, from
<1>4. E = A \cup B /\ A \cap B = {}
  BY <1>1, <1>2, <1>3 DEF Events
<1>5. IsFiniteSet(A) /\ IsFiniteSet(B) /\ \A e \in A \cup B : Consumption[e] \in Nat
  <2>1. A \in SUBSET Offered /\ B \in SUBSET Offered
    BY EventsFinite
  <2> QED
    BY <2>1, EventsFinite, Amounts
<1>6. OrganizationUsage(org, metric, now) = SumOf(Consumption, E)
  BY RowsAddUp DEF OrganizationUsage, Consumed, SumOf, from, start
<1> HIDE DEF A, B, E
<1>7. SumOf(Consumption, A \cup B) = SumOf(Consumption, A) + SumOf(Consumption, B)
  BY <1>4, <1>5, SumUnion
<1>8. SumOf(Consumption, A) \in Nat /\ SumOf(Consumption, B) \in Nat
  BY <1>5, SumNat
<1> QED
  BY <1>4, <1>6, <1>7, <1>8 DEF Consumed, SumOf, A, B, start, end

\* A client that has used up what its plan grants is shown so, whatever the
\* limit, and one shown so has used it, this month or by events dated later.
THEOREM QuotasAreHonest == Spec => []QuotaIsHonest
<1>1. TypeOK /\ AggregatesMatchEvents => QuotaIsHonest
  <2> SUFFICES ASSUME TypeOK, AggregatesMatchEvents,
                      NEW org \in Orgs, NEW metric \in Metrics,
                      NEW limit \in Limits, NEW now \in Times
               PROVE  HonestItem(org, metric, limit, now)
    BY DEF QuotaIsHonest
  <2> DEFINE end == StartOfMonth(now) + MonthLength
             month == Consumed("day", {org}, metric, StartOfMonth(now)..(end - 1))
             days == {Truncated("day", e.at) : e \in Offered}
             later == Consumed("day", {org}, metric, {t \in days : t >= end})
             used == OrganizationUsage(org, metric, now)
  <2>1. limit \in Nat /\ now \in Nat
    BY ReportsAssumption
  <2>2. month \in Nat /\ later \in Nat /\ used = month + later
    BY <2>1, UsedIs
  <2>3. Quota(org, metric, limit, now).percentUsed = Percent(used, limit)
    BY DEF Quota
  <2> HIDE DEF month, later, used
  <2>4. Percent(used, limit) >= 1000 <=>
          IF limit = 0 THEN used > 0 ELSE 2000 * used >= 1999 * limit
    BY <2>1, <2>2, PercentReaches
  <2> DEFINE full == Percent(used, limit) >= 1000
  <2> HIDE DEF full
  <2>5. full <=> IF limit = 0 THEN used > 0 ELSE 2000 * used >= 1999 * limit
    BY <2>4 DEF full
  <2>6. /\ month >= limit /\ month > 0 => full
        /\ full => 2000 * (month + later) >= 1999 * limit
    BY <2>1, <2>2, <2>5
  <2> QED
    BY <2>3, <2>6 DEF HonestItem, month, later, full
<1> QED
  BY <1>1, TypeCorrect, AggregatesAreSums, PTL
=============================================================================
