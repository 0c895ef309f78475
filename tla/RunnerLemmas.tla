---------------------------- MODULE RunnerLemmas ----------------------------
(***************************************************************************)
(* What the proofs of RunnerProofs rest on, for every manifest and number  *)
(* of threads: facts about the manifest and about the data of Runner, then *)
(* a lemma for each action that the invariant of RunnerInvariant survives. *)
(***************************************************************************)
EXTENDS RunnerInvariant, FiniteSetTheorems, TLAPS

LEMMA Peers ==
  /\ \A p \in Parties : Peer(p) \in Parties /\ Peer(p) # p /\ Peer(Peer(p)) = p
  /\ \A p, q \in Parties : q = p \/ q = Peer(p)
BY DEF Parties, Peer

(***************************************************************************)
(* Rounds and stages.  A task's stages are 0 .. ExpectedSteps - 1; each    *)
(* but the first needs a message of the peer, and its code finishes with   *)
(* the last one.                                                           *)
(***************************************************************************)
LEMMA SendsType == \A t \in Tasks : Sends[t] \in Nat
BY ManifestAssumption

LEMMA StageFacts ==
  ASSUME NEW p \in Parties, NEW t \in Tasks
  PROVE  /\ ExpectedSteps(p, t) \in Nat \ {0}
         /\ Rounds(t) \in Nat
         /\ \A s \in Nat :
              /\ Incoming(p, t, s) => s < ExpectedSteps(p, t)
              /\ s >= 1 /\ s < ExpectedSteps(p, t) => Incoming(p, t, s)
              /\ s < ExpectedSteps(p, t) => (WantIncoming(p, t, s) <=> Incoming(p, t, s))
              /\ Finishes(p, t, s) <=> s + 1 >= ExpectedSteps(p, t)
BY SendsType DEF ExpectedSteps, Rounds, Incoming, WantIncoming, HasB, Finishes

(* A message of round k is for one stage of the receiver, which needs it.  *)
LEMMA MessageFacts ==
  ASSUME NEW p \in Parties, NEW t \in Tasks, NEW k \in Nat, Outgoing(p, t, k)
  PROVE  LET q == Peer(p)
             s == StageFor(q, t, k)
         IN  /\ k < ExpectedSteps(p, t)
             /\ s \in Nat /\ s < ExpectedSteps(q, t)
             /\ Incoming(q, t, s) /\ RoundFor(q, t, s) = k
<1>1. IsA(Peer(p), t) <=> ~IsA(p, t)
  BY ManifestAssumption DEF IsA, Parties, Peer
<1> QED
  BY <1>1, SendsType
  DEF ExpectedSteps, Rounds, Incoming, Outgoing, HasB, StageFor, RoundFor

LEMMA RoundFacts ==
  ASSUME NEW q \in Parties, NEW t \in Tasks, NEW s \in Nat, Incoming(q, t, s)
  PROVE  /\ RoundFor(q, t, s) \in Nat
         /\ StageFor(q, t, RoundFor(q, t, s)) = s
         /\ Outgoing(Peer(q), t, RoundFor(q, t, s))
<1>1. IsA(Peer(q), t) <=> ~IsA(q, t)
  BY ManifestAssumption DEF IsA, Parties, Peer
<1> QED
  BY <1>1, SendsType
  DEF Rounds, Incoming, Outgoing, HasB, StageFor, RoundFor

(***************************************************************************)
(* Uses.                                                                   *)
(***************************************************************************)
LEMMA InputsType ==
  ASSUME NEW t \in Tasks
  PROVE  /\ Inputs[t] \in Seq(Tasks) /\ Len(Inputs[t]) \in Nat
         /\ DOMAIN Inputs[t] = 1 .. Len(Inputs[t])
         /\ \A i \in DOMAIN Inputs[t] : Inputs[t][i] \in Tasks
         /\ IsFiniteSet(DOMAIN Inputs[t])
         /\ Cardinality(DOMAIN Inputs[t]) = Len(Inputs[t])
<1>1. Inputs[t] \in Seq(Tasks)
  BY ManifestAssumption
<1>2. DOMAIN Inputs[t] = 1 .. Len(Inputs[t]) /\ Len(Inputs[t]) \in Nat
  BY <1>1
<1>3. \A i \in DOMAIN Inputs[t] : Inputs[t][i] \in Tasks
  BY <1>1
<1> QED BY <1>1, <1>2, <1>3, FS_Interval

LEMMA TasksFinite == IsFiniteSet(Tasks) /\ Cardinality(Tasks) = NumTasks /\ Tasks \subseteq Nat
<1>1. NumTasks \in Nat
  BY ManifestAssumption
<1>2. IsFiniteSet(Tasks) /\ Cardinality(Tasks) = NumTasks
  BY <1>1, FS_Interval DEF Tasks
<1> QED BY <1>1, <1>2 DEF Tasks

LEMMA MultFacts ==
  ASSUME NEW t \in Tasks, NEW u
  PROVE  /\ Mult(t, u) \in Nat
         /\ Mult(t, u) > 0 <=> \E i \in DOMAIN Inputs[t] : Inputs[t][i] = u
<1> DEFINE S == {i \in DOMAIN Inputs[t] : Inputs[t][i] = u}
<1>1. IsFiniteSet(S)
  BY InputsType, FS_Subset
<1>2. Cardinality(S) \in Nat /\ (Cardinality(S) = 0 <=> S = {})
  BY <1>1, FS_CardinalityType, FS_EmptySet
<1> QED BY <1>2 DEF Mult

(***************************************************************************)
(* Ranks.  In a finite set with a strict total order every rank below the  *)
(* set's size belongs to exactly one element.                              *)
(***************************************************************************)
Lower(S, R, y) == {x \in S : <<x, y>> \in R}

LEMMA Ranks ==
  ASSUME NEW S, IsFiniteSet(S), NEW R,
         \A x \in S : <<x, x>> \notin R,
         \A x, y \in S : x = y \/ <<x, y>> \in R \/ <<y, x>> \in R,
         \A x, y, z \in S : <<x, y>> \in R /\ <<y, z>> \in R => <<x, z>> \in R
  PROVE  /\ Cardinality(S) \in Nat
         /\ \A y \in S : Cardinality(Lower(S, R, y)) \in 0 .. Cardinality(S) - 1
         /\ \A y, z \in S :
              Cardinality(Lower(S, R, y)) = Cardinality(Lower(S, R, z))
                => y = z
         /\ \A k \in 0 .. Cardinality(S) - 1 :
              \E y \in S : Cardinality(Lower(S, R, y)) = k
<1> DEFINE Under(y) == Lower(S, R, y)
           n == Cardinality(S)
           rank == [y \in S |-> Cardinality(Under(y))]
<1>1. n \in Nat
  BY FS_CardinalityType
<1>2. \A y \in S : IsFiniteSet(Under(y)) /\ Cardinality(Under(y)) \in Nat
  BY FS_Subset, FS_CardinalityType DEF Lower
<1>3. \A y \in S : Cardinality(Under(y)) \in 0 .. n - 1
  <2> TAKE y \in S
  <2>1. Under(y) \in SUBSET S /\ Under(y) # S
    BY DEF Lower
  <2>2. Cardinality(Under(y)) <= n /\ Cardinality(Under(y)) # n
    BY <2>1, FS_Subset
  <2> QED BY <1>1, <1>2, <2>2
<1>4. ASSUME NEW y \in S, NEW z \in S, <<y, z>> \in R
      PROVE  Cardinality(Under(y)) < Cardinality(Under(z))
  <2>1. Under(y) \in SUBSET Under(z) /\ y \in Under(z) /\ y \notin Under(y)
    BY <1>4 DEF Lower
  <2>2. Cardinality(Under(y)) <= Cardinality(Under(z)) /\ Cardinality(Under(y)) # Cardinality(Under(z))
    BY <1>2, <2>1, FS_Subset
  <2> QED BY <1>2, <2>2
<1>5. \A y, z \in S : Cardinality(Under(y)) = Cardinality(Under(z)) => y = z
  <2> SUFFICES ASSUME NEW y \in S, NEW z \in S, y # z
               PROVE  Cardinality(Under(y)) # Cardinality(Under(z))
    OBVIOUS
  <2>1. \/ Cardinality(Under(y)) < Cardinality(Under(z))
        \/ Cardinality(Under(z)) < Cardinality(Under(y))
    BY <1>4
  <2> HIDE DEF Under
  <2> QED BY <1>2, <2>1
<1>6. \A k \in 0 .. n - 1 : \E y \in S : Cardinality(Under(y)) = k
  <2> HIDE DEF Under, n
  <2>1. rank \in [S -> 0 .. n - 1]
    BY <1>3
  <2>2. \A y, z \in S : rank[y] = rank[z] => y = z
    BY <1>5
  <2>3. rank \in Injection(S, 0 .. n - 1)
    BY <2>1, <2>2 DEF Injection, IsInjective
  <2>4. IsFiniteSet(0 .. n - 1) /\ Cardinality(0 .. n - 1) = n
    BY <1>1, FS_Interval
  <2>5. rank \in Surjection(S, 0 .. n - 1)
    BY <2>3, <2>4, FS_Injection DEF n
  <2>6. \A k \in 0 .. n - 1 : \E y \in S : rank[y] = k
    BY <2>5 DEF Surjection
  <2> QED BY <2>6
<1> QED BY <1>1, <1>3, <1>5, <1>6

(* What a list of a set's elements by rank is: every element stands at one *)
(* place.                                                                  *)
LEMMA UsesOrdered ==
  ASSUME NEW u \in Tasks
  PROVE  /\ UsesOf(u) \subseteq Tasks \X Nat
         /\ \A ti \in Tasks \X Nat :
              ti \in UsesOf(u) <=> ti[2] \in DOMAIN Inputs[ti[1]] /\ Inputs[ti[1]][ti[2]] = u
         /\ IsFiniteSet(UsesOf(u))
         /\ Cardinality(UsesOf(u)) \in Nat
<1> DEFINE All == UNION {{t} \X DOMAIN Inputs[t] : t \in Tasks}
           F == {{t} \X DOMAIN Inputs[t] : t \in Tasks}
<1>1. \A t \in Tasks : DOMAIN Inputs[t] \subseteq Nat
  BY InputsType
<1>2. All \subseteq Tasks \X Nat
  BY <1>1
<1>3. \A T \in F : IsFiniteSet(T)
  <2> SUFFICES ASSUME NEW t \in Tasks PROVE IsFiniteSet({t} \X DOMAIN Inputs[t])
    OBVIOUS
  <2>1. IsFiniteSet({t}) /\ IsFiniteSet(DOMAIN Inputs[t])
    BY InputsType, FS_Singleton
  <2> QED BY <2>1, FS_Product
<1>4. IsFiniteSet(F)
  <2> DEFINE f == [t \in Tasks |-> {t} \X DOMAIN Inputs[t]]
  <2>1. f \in Surjection(Tasks, F)
    BY DEF Surjection
  <2> QED BY <2>1, TasksFinite, FS_Surjection
<1>5. IsFiniteSet(All)
  BY <1>3, <1>4, FS_UNION
<1>6. UsesOf(u) \in SUBSET All
  BY DEF UsesOf
<1>7. IsFiniteSet(UsesOf(u)) /\ Cardinality(UsesOf(u)) \in Nat
  BY <1>5, <1>6, FS_Subset, FS_CardinalityType
<1>8. ASSUME NEW ti \in Tasks \X Nat
      PROVE  ti \in UsesOf(u) <=> ti[2] \in DOMAIN Inputs[ti[1]] /\ Inputs[ti[1]][ti[2]] = u
  <2>1. ti \in All <=> ti[2] \in DOMAIN Inputs[ti[1]]
    OBVIOUS
  <2> QED BY <2>1 DEF UsesOf
<1> QED BY <1>2, <1>6, <1>7, <1>8

(* The list of dependents has each use of a task once.                     *)
LEMMA DependentsFacts ==
  ASSUME NEW u \in Tasks
  PROVE  /\ DependentsOf[u] \in Seq(Tasks)
         /\ Len(DependentsOf[u]) = Cardinality(UsesOf(u))
         /\ \A t \in Tasks : /\ IsFiniteSet(Occurs(DependentsOf[u], t))
                             /\ Cardinality(Occurs(DependentsOf[u], t)) = Mult(t, u)
<1> DEFINE S == UsesOf(u)
           n == Cardinality(S)
           R == {xy \in S \X S : Precedes(xy[1], xy[2])}
           rank == [y \in S |-> UseRank(u, y)]
           use == [k \in 1 .. n |-> UseAt(u, k)]
<1>1. IsFiniteSet(S) /\ n \in Nat /\ S \subseteq Tasks \X Nat
  BY UsesOrdered
<1>2. /\ \A y \in S : rank[y] \in 0 .. n - 1
      /\ \A y, z \in S : rank[y] = rank[z] => y = z
      /\ \A k \in 0 .. n - 1 : \E y \in S : rank[y] = k
  <2> HIDE DEF S
  <2>1. \A x, y \in S : <<x, y>> \in R <=> Precedes(x, y)
    OBVIOUS
  <2>2. \A y \in S : rank[y] = Cardinality(Lower(S, R, y))
    <3> SUFFICES ASSUME NEW y \in S
                 PROVE  Lower(S, R, y) = {x \in S : Precedes(x, y)}
      BY DEF UseRank, S
    <3> QED BY <2>1 DEF Lower
  <2>3. \A x \in S : x[1] \in Nat /\ x[2] \in Nat /\ x = <<x[1], x[2]>>
    <3>1. \A x \in Tasks \X Nat : x[1] \in Tasks /\ x[2] \in Nat /\ x = <<x[1], x[2]>>
      OBVIOUS
    <3> QED BY <1>1, <3>1, TasksFinite
  <2>4. /\ \A x \in S : ~Precedes(x, x)
        /\ \A x, y \in S : x = y \/ Precedes(x, y) \/ Precedes(y, x)
        /\ \A x, y, z \in S : Precedes(x, y) /\ Precedes(y, z) => Precedes(x, z)
    BY <2>3 DEF Precedes
  <2> HIDE DEF R
  <2>5. /\ \A x \in S : <<x, x>> \notin R
        /\ \A x, y \in S : x = y \/ <<x, y>> \in R \/ <<y, x>> \in R
        /\ \A x, y, z \in S : <<x, y>> \in R /\ <<y, z>> \in R => <<x, z>> \in R
    BY <2>1, <2>4
  <2>6. /\ \A y \in S : Cardinality(Lower(S, R, y)) \in 0 .. n - 1
        /\ \A y, z \in S :
             Cardinality(Lower(S, R, y)) = Cardinality(Lower(S, R, z)) => y = z
        /\ \A k \in 0 .. n - 1 : \E y \in S : Cardinality(Lower(S, R, y)) = k
    <3> HIDE DEF rank, use
    <3> QED BY <1>1, <2>5, Ranks
  <2> QED BY <2>2, <2>6
<1> HIDE DEF n, rank
<1>3. \A k \in 1 .. n : use[k] \in S /\ rank[use[k]] = k - 1
  <2> TAKE k \in 1 .. n
  <2>1. \E y \in S : rank[y] = k - 1
    BY <1>1, <1>2
  <2>2. \E y \in UsesOf(u) : UseRank(u, y) = k - 1
    BY <2>1 DEF rank
  <2>3. UseAt(u, k) \in S /\ UseRank(u, UseAt(u, k)) = k - 1
    BY <2>2 DEF UseAt
  <2> QED BY <2>3 DEF rank
<1>4. DependentsOf[u] = [k \in 1 .. n |-> use[k][1]]
  BY DEF DependentsOf, n
<1> HIDE DEF use
<1>5. \A k \in 1 .. n : use[k][1] \in Tasks
  BY <1>1, <1>3
<1>6. DependentsOf[u] \in Seq(Tasks) /\ Len(DependentsOf[u]) = n
  BY <1>1, <1>4, <1>5
<1>7. ASSUME NEW t \in Tasks
      PROVE  /\ IsFiniteSet(Occurs(DependentsOf[u], t))
             /\ Cardinality(Occurs(DependentsOf[u], t)) = Mult(t, u)
  <2> DEFINE I == {i \in DOMAIN Inputs[t] : Inputs[t][i] = u}
             J == Occurs(DependentsOf[u], t)
             f == [j \in J |-> use[n + 1 - j][2]]
  <2>1. J = {j \in 1 .. n : use[n + 1 - j][1] = t}
    BY <1>1, <1>4, <1>6 DEF Occurs
  <2>2. \A j \in J : /\ n + 1 - j \in 1 .. n
                     /\ use[n + 1 - j] \in S
                     /\ use[n + 1 - j] = <<t, f[j]>>
    BY <1>1, <1>3, <2>1
  <2>3. \A i \in Nat : <<t, i>> \in S <=> i \in I
    BY UsesOrdered
  <2>4. f \in [J -> I]
    <3>1. \A j \in J : f[j] \in Nat
      BY <1>1, <2>2
    <3>2. \A j \in J : f[j] \in I
      BY <2>2, <2>3, <3>1
    <3> QED BY <3>2
  <2>5. \A i, j \in J : f[i] = f[j] => i = j
    <3> SUFFICES ASSUME NEW i \in J, NEW j \in J, f[i] = f[j] PROVE i = j
      OBVIOUS
    <3>1. use[n + 1 - i] = use[n + 1 - j]
      BY <2>2
    <3>2. n + 1 - i = n + 1 - j
      <4> DEFINE a == n + 1 - i
                 b == n + 1 - j
      <4>1. a \in 1 .. n /\ b \in 1 .. n /\ use[a] = use[b]
        BY <2>2, <3>1
      <4> HIDE DEF a, b
      <4>2. a - 1 = b - 1
        BY <1>3, <4>1
      <4>3. a = b
        BY <1>1, <4>1, <4>2
      <4> QED BY <4>3 DEF a, b
    <3> QED BY <1>1, <2>1, <3>2
  <2>6. ASSUME NEW i \in I PROVE \E j \in J : f[j] = i
    <3>1. i \in Nat /\ <<t, i>> \in S
      BY <2>3, InputsType
    <3>2. rank[<<t, i>>] \in 0 .. n - 1
      BY <1>2, <3>1
    <3> DEFINE j == n - rank[<<t, i>>]
    <3>3. j \in 1 .. n /\ n + 1 - j \in 1 .. n /\ n + 1 - j - 1 = rank[<<t, i>>]
      BY <1>1, <3>2
    <3>4. use[n + 1 - j] = <<t, i>>
      <4> DEFINE a == n + 1 - j
      <4>1. a \in 1 .. n /\ a - 1 = rank[<<t, i>>]
        BY <1>1, <3>2, <3>3
      <4> HIDE DEF a
      <4>2. use[a] \in S /\ rank[use[a]] = rank[<<t, i>>]
        BY <1>3, <4>1
      <4>3. use[a] = <<t, i>>
        BY <1>2, <3>1, <4>2
      <4> QED BY <4>3 DEF a
    <3>5. j \in J
      BY <2>1, <3>3, <3>4
    <3> HIDE DEF j
    <3>6. f[j] = i
      BY <3>4, <3>5
    <3> QED BY <3>5, <3>6
  <2> HIDE DEF f, I, J
  <2>7. IsFiniteSet(I)
    BY InputsType, FS_Subset DEF I
  <2>8. f \in Injection(J, I) /\ f \in Surjection(J, I)
    BY <2>4, <2>5, <2>6 DEF Injection, IsInjective, Surjection
  <2>9. IsFiniteSet(J)
    BY <2>7, <2>8, FS_Injection
  <2>10. Cardinality(J) = Cardinality(I)
    BY <2>7, <2>8, FS_Injection
  <2> QED BY <2>9, <2>10 DEF I, J, Mult
<1> QED BY <1>6, <1>7 DEF n

(* Main launches each task without inputs once.                            *)
LEMMA LaunchOrderFacts ==
  /\ LaunchOrder \in Seq(Tasks)
  /\ \A i \in DOMAIN LaunchOrder : Inputs[LaunchOrder[i]] = <<>>
  /\ \A i, j \in DOMAIN LaunchOrder : LaunchOrder[i] = LaunchOrder[j] => i = j
  /\ \A t \in Tasks : Inputs[t] = <<>> => \E i \in DOMAIN LaunchOrder : LaunchOrder[i] = t
<1> DEFINE S == InitiallyReady
           n == Cardinality(S)
           R == {xy \in S \X S : xy[1] > xy[2]}
<1>1. IsFiniteSet(S) /\ n \in Nat /\ S \subseteq Tasks /\ S \subseteq Nat
  BY TasksFinite, FS_Subset, FS_CardinalityType DEF InitiallyReady
<1>2. /\ \A y \in S : ReadyRank(y) \in 0 .. n - 1
      /\ \A y, z \in S : ReadyRank(y) = ReadyRank(z) => y = z
      /\ \A k \in 0 .. n - 1 : \E y \in S : ReadyRank(y) = k
  <2> HIDE DEF S
  <2>1. \A x, y \in S : <<x, y>> \in R <=> x > y
    OBVIOUS
  <2>2. \A y \in S : ReadyRank(y) = Cardinality(Lower(S, R, y))
    <3> SUFFICES ASSUME NEW y \in S PROVE Lower(S, R, y) = {x \in S : x > y}
      BY DEF ReadyRank, S
    <3> QED BY <2>1 DEF Lower
  <2> HIDE DEF R
  <2>3. /\ \A x \in S : <<x, x>> \notin R
        /\ \A x, y \in S : x = y \/ <<x, y>> \in R \/ <<y, x>> \in R
        /\ \A x, y, z \in S : <<x, y>> \in R /\ <<y, z>> \in R => <<x, z>> \in R
    BY <1>1, <2>1
  <2>4. /\ \A y \in S : Cardinality(Lower(S, R, y)) \in 0 .. n - 1
        /\ \A y, z \in S :
             Cardinality(Lower(S, R, y)) = Cardinality(Lower(S, R, z)) => y = z
        /\ \A k \in 0 .. n - 1 : \E y \in S : Cardinality(Lower(S, R, y)) = k
    <3>1. IsFiniteSet(S)
      BY <1>1
    <3>2. \A y \in S : Cardinality(Lower(S, R, y)) \in 0 .. Cardinality(S) - 1
      BY <2>3, <3>1, Ranks
    <3>3. \A y, z \in S :
             Cardinality(Lower(S, R, y)) = Cardinality(Lower(S, R, z)) => y = z
      BY <2>3, <3>1, Ranks
    <3>4. \A k \in 0 .. Cardinality(S) - 1 : \E y \in S : Cardinality(Lower(S, R, y)) = k
      BY <2>3, <3>1, Ranks
    <3> QED BY <3>2, <3>3, <3>4
  <2> QED BY <2>2, <2>4
<1> HIDE DEF n
<1>3. /\ DOMAIN LaunchOrder = 1 .. n
      /\ \A k \in 1 .. n : LaunchOrder[k] \in S /\ ReadyRank(LaunchOrder[k]) = k - 1
  <2>1. DOMAIN LaunchOrder = 1 .. n
    BY DEF LaunchOrder, n
  <2>2. ASSUME NEW k \in 1 .. n
        PROVE  LaunchOrder[k] \in S /\ ReadyRank(LaunchOrder[k]) = k - 1
    <3>1. \E y \in InitiallyReady : ReadyRank(y) = k - 1
      BY <1>1, <1>2
    <3>2. LaunchOrder[k] = CHOOSE y \in InitiallyReady : ReadyRank(y) = k - 1
      BY DEF LaunchOrder, n
    <3> QED BY <3>1, <3>2
  <2> QED BY <2>1, <2>2
<1>4. LaunchOrder \in Seq(Tasks)
  <2>1. LaunchOrder \in [1 .. n -> Tasks]
    <3>1. LaunchOrder = [k \in 1 .. n |-> LaunchOrder[k]]
      BY DEF LaunchOrder, n
    <3>2. \A k \in 1 .. n : LaunchOrder[k] \in Tasks
      BY <1>1, <1>3
    <3> HIDE DEF S
    <3> QED BY <3>1, <3>2
  <2> QED BY <1>1, <2>1
<1>5. \A i \in DOMAIN LaunchOrder : Inputs[LaunchOrder[i]] = <<>>
  BY <1>3 DEF InitiallyReady
<1>6. \A i, j \in DOMAIN LaunchOrder : LaunchOrder[i] = LaunchOrder[j] => i = j
  <2> SUFFICES ASSUME NEW i \in 1 .. n, NEW j \in 1 .. n, LaunchOrder[i] = LaunchOrder[j]
               PROVE  i = j
    BY <1>3
  <2>1. i - 1 = j - 1
    BY <1>3
  <2> QED BY <1>1, <2>1
<1>7. ASSUME NEW t \in Tasks, Inputs[t] = <<>>
      PROVE  \E i \in DOMAIN LaunchOrder : LaunchOrder[i] = t
  <2>1. t \in S
    BY <1>7 DEF InitiallyReady
  <2>2. ReadyRank(t) \in 0 .. n - 1
    BY <1>2, <2>1
  <2> DEFINE k == ReadyRank(t) + 1
  <2>3. k \in 1 .. n /\ k - 1 = ReadyRank(t)
    BY <1>1, <2>2
  <2> HIDE DEF k, S
  <2>4. LaunchOrder[k] = t
    BY <1>2, <1>3, <2>1, <2>3
  <2> QED BY <1>3, <2>3, <2>4
<1> QED BY <1>4, <1>5, <1>6, <1>7

(***************************************************************************)
(* Places in a list of dependents, counted from its end.                   *)
(***************************************************************************)
LEMMA OccursType ==
  ASSUME NEW s \in Seq(Tasks), NEW t
  PROVE  /\ IsFiniteSet(Occurs(s, t)) /\ Cardinality(Occurs(s, t)) \in Nat
         /\ Occurs(s, t) \subseteq Nat
<1>1. Occurs(s, t) \in SUBSET (1 .. Len(s)) /\ IsFiniteSet(1 .. Len(s))
  BY FS_Interval DEF Occurs
<1> QED BY <1>1, FS_Subset, FS_CardinalityType

LEMMA OccursEmpty == \A t : Occurs(<<>>, t) = {}
BY DEF Occurs

LEMMA OccursTail ==
  ASSUME NEW s \in Seq(Tasks), s # <<>>, NEW t
  PROVE  /\ Occurs(Tail(s), t) = Occurs(s, t) \ {Len(s)}
         /\ Len(s) \in Occurs(s, t) <=> Head(s) = t
<1>1. Len(s) \in Nat \ {0} /\ Len(Tail(s)) = Len(s) - 1
  OBVIOUS
<1>2. \A j \in 1 .. Len(s) - 1 : Tail(s)[Len(s) - j] = s[Len(s) + 1 - j]
  OBVIOUS
<1>3. Head(s) = s[1]
  OBVIOUS
<1>4. \A j \in 1 .. Len(s) - 1 : j \in Occurs(Tail(s), t) <=> j \in Occurs(s, t)
  BY <1>1, <1>2 DEF Occurs
<1> QED BY <1>1, <1>3, <1>4 DEF Occurs

(***************************************************************************)
(* How the counts move.                                                    *)
(***************************************************************************)
LEMMA WaitingFinishes ==
  ASSUME NEW p \in Parties, NEW t \in Tasks, NEW u \in Tasks, NEW f, NEW g,
         f[p][u] < Done(p, u), ~(g[p][u] < Done(p, u)),
         \A v \in Tasks \ {u} : g[p][v] = f[p][v]
  PROVE  Cardinality(Waiting(f, p, t)) = Cardinality(Waiting(g, p, t)) + Mult(t, u)
<1> DEFINE U == {i \in DOMAIN Inputs[t] : Inputs[t][i] = u}
           W == Waiting(g, p, t)
<1>1. \A i \in DOMAIN Inputs[t] : Inputs[t][i] \in Tasks
  BY InputsType
<1>2. Waiting(f, p, t) = W \cup U /\ W \cap U = {}
  BY <1>1 DEF Waiting
<1>3. IsFiniteSet(W) /\ IsFiniteSet(U)
  BY InputsType, FS_Subset DEF Waiting
<1> HIDE DEF U, W
<1>4. Cardinality(W) \in Nat /\ Cardinality(U) \in Nat /\ Cardinality(W \cap U) = 0
  BY <1>2, <1>3, FS_CardinalityType, FS_EmptySet
<1>5. Cardinality(W \cup U) = Cardinality(W) + Cardinality(U) - Cardinality(W \cap U)
  BY <1>3, FS_Union
<1> QED BY <1>2, <1>4, <1>5 DEF U, W, Mult

LEMMA UntakenTakes ==
  ASSUME NEW p \in Parties, NEW t \in Tasks, NEW u \in Tasks, NEW f, NEW g,
         f[p][t] <= 1, ~(g[p][t] <= 1),
         \A v \in Tasks \ {t} : g[p][v] <= 1 <=> f[p][v] <= 1
  PROVE  Cardinality(Untaken(f, p, u)) = Cardinality(Untaken(g, p, u)) + Mult(t, u)
<1> DEFINE I == {i \in DOMAIN Inputs[t] : Inputs[t][i] = u}
           U == {t} \X I
           W == Untaken(g, p, u)
<1>1. \A i \in DOMAIN Inputs[t] : i \in Nat
  BY InputsType
<1>2. Untaken(f, p, u) = W \cup U /\ W \cap U = {}
  BY <1>1, UsesOrdered DEF Untaken
<1>3. IsFiniteSet(W) /\ IsFiniteSet(I)
  BY UsesOrdered, InputsType, FS_Subset DEF Untaken
<1>4. IsFiniteSet(U) /\ Cardinality(U) = Cardinality(I)
  <2>1. IsFiniteSet({t}) /\ Cardinality({t}) = 1
    BY FS_Singleton
  <2> HIDE DEF I
  <2>2. IsFiniteSet(U) /\ Cardinality(U) = 1 * Cardinality(I)
    BY <1>3, <2>1, FS_Product
  <2> QED BY <1>3, <2>2, FS_CardinalityType
<1> HIDE DEF U, W
<1>5. Cardinality(W) \in Nat /\ Cardinality(U) \in Nat /\ Cardinality(W \cap U) = 0
  BY <1>2, <1>3, <1>4, FS_CardinalityType, FS_EmptySet
<1>6. Cardinality(W \cup U) = Cardinality(W) + Cardinality(U) - Cardinality(W \cap U)
  BY <1>3, <1>4, FS_Union
<1> QED BY <1>2, <1>4, <1>5, <1>6 DEF W, Mult

(***************************************************************************)
(* Threads and places.                                                     *)
(***************************************************************************)
LEMMA KindFacts ==
  ASSUME NEW p \in Parties
  PROVE  /\ Main \in Threads(p) /\ Chal \in Threads(p)
         /\ Main[1] = "main" /\ Chal[1] = "chal"
         /\ Runners(p) \subseteq Threads(p) /\ Disks \subseteq Threads(p)
         /\ Outs \subseteq Threads(p) /\ Ins \subseteq Threads(p)
         /\ \A x \in Threads(p) :
              /\ x \in Runners(p) <=> x[1] = "run"
              /\ x \in Disks <=> x[1] = "disk"
              /\ x \in Outs <=> x[1] = "out"
              /\ x \in Ins <=> x[1] = "in"
              /\ x = Main <=> x[1] = "main"
              /\ x = Chal <=> x[1] = "chal"
              /\ x[1] \in {"run", "main", "disk", "out", "in", "chal"}
<1>1. /\ \A x \in Runners(p) : x[1] = "run"
      /\ \A x \in Disks : x[1] = "disk"
      /\ \A x \in Outs : x[1] = "out"
      /\ \A x \in Ins : x[1] = "in"
      /\ Main[1] = "main" /\ Chal[1] = "chal"
  BY DEF Runners, Disks, Outs, Ins, Main, Chal
<1>2. Threads(p) = Runners(p) \cup {Main, Chal} \cup Disks \cup Outs \cup Ins
  BY DEF Threads
<1> QED BY <1>1, <1>2

LEMMA OutsAndIns ==
  ASSUME NEW p \in Parties, NEW q \in Parties
  PROVE  Outs \subseteq Threads(q) /\ Ins \subseteq Threads(q)
BY KindFacts

LEMMA RunnersFinite ==
  ASSUME NEW p \in Parties
  PROVE  IsFiniteSet(Runners(p))
<1>1. NumRunners[p] \in Nat
  BY RunnerAssumption
<1>2. IsFiniteSet(1 .. NumRunners[p])
  BY <1>1, FS_Interval
<1>3. IsFiniteSet({"run"})
  BY FS_Singleton
<1> QED BY <1>2, <1>3, FS_Product DEF Runners

LEMMA PlaceFacts ==
  /\ \A x, y : OnThread(x) = OnThread(y) => x = y
  /\ \A e, f : InRunQueue(e) = InRunQueue(f) => e = f
  /\ \A c, d : OnNet(c) = OnNet(d) => c = d
  /\ \A x, e : OnThread(x) # InRunQueue(e)
  /\ \A x, c : OnThread(x) # OnNet(c)
  /\ \A x : OnThread(x) # InSlot /\ OnThread(x) # InQueue /\ OnThread(x) # FromCache
  /\ \A e : InRunQueue(e) # InSlot
  /\ \A c : OnNet(c) # InSlot /\ OnNet(c) # InQueue
  /\ InSlot # InQueue /\ InSlot # FromCache /\ InQueue # FromCache
BY DEF OnThread, InRunQueue, OnNet, InSlot, InQueue, FromCache

(***************************************************************************)
(* A step of one thread, and an assignment to one entry of a table.        *)
(***************************************************************************)
LEMMA DoFacts ==
  ASSUME ThreadTypes, NEW p \in Parties, NEW x \in Threads(p), NEW r, Do(p, x, r)
  PROVE  /\ DOMAIN thr' = Parties
         /\ \A q \in Parties : DOMAIN thr'[q] = Threads(q)
         /\ thr'[p][x] = r
         /\ \A q \in Parties : \A y \in Threads(q) :
              q # p \/ y # x => thr'[q][y] = thr[q][y]
BY DEF ThreadTypes, Do

(* A step of thread x of p that leaves r as its record. *)
Moves(p, x, r) ==
  /\ DOMAIN thr' = Parties
  /\ \A q \in Parties : DOMAIN thr'[q] = Threads(q)
  /\ thr'[p][x] = r
  /\ \A q \in Parties : \A y \in Threads(q) : q # p \/ y # x => thr'[q][y] = thr[q][y]

LEMMA MoveKeepsShape ==
  ASSUME ThreadTypes, Shapes, NEW p \in Parties, NEW x \in Threads(p), NEW r, Do(p, x, r),
         r \in Records, r.pc \in Working => r.task \in Tasks, Shape(p, x, r)
  PROVE  Moves(p, x, r) /\ ThreadTypes' /\ Shapes'
<1>1. Moves(p, x, r)
  BY DoFacts DEF Moves
<1>2. ThreadTypes'
  <2> SUFFICES ASSUME NEW q \in Parties, NEW y \in Threads(q)
               PROVE  /\ thr'[q][y] \in Records
                      /\ thr'[q][y].pc \in Working => thr'[q][y].task \in Tasks
    BY <1>1 DEF ThreadTypes, Moves
  <2> QED BY <1>1 DEF ThreadTypes, Moves
<1>3. Shapes'
  BY <1>1 DEF Shapes, Moves
<1> QED BY <1>1, <1>2, <1>3

-----------------------------------------------------------------------------
(***************************************************************************)
(* The steps.  Each action but UpdateSlot, whose proof is in RunnerProofs, *)
(* has a lemma: the auxiliary functions before the step, changed where the *)
(* stage or message the step moves is concerned, satisfy the invariant     *)
(* after it.                                                               *)
(***************************************************************************)
IInv == \E prog, place, msg, pub, priv, chal : Inv(prog, place, msg, pub, priv, chal)

(* An auxiliary function changed for one task of one party. *)
Put(f, p, t, v) ==
  [q \in Parties |-> [u \in Tasks |-> IF q = p /\ u = t THEN v ELSE f[q][u]]]

LEMMA PutFacts ==
  ASSUME NEW f, NEW p \in Parties, NEW t \in Tasks, NEW v
  PROVE  /\ Put(f, p, t, v)[p][t] = v
         /\ \A q \in Parties : \A u \in Tasks :
              q # p \/ u # t => Put(f, p, t, v)[q][u] = f[q][u]
BY DEF Put

(* How far the tasks are: a number for each, which no step lowers and      *)
(* which passes 3s + 3 only when stage s starts.                           *)
Numbers(f) == \A p \in Parties : \A t \in Tasks : f[p][t] \in Nat
Grows(f, g) ==
  \A p \in Parties : \A t \in Tasks :
    /\ g[p][t] >= f[p][t]
    /\ \A s \in Nat : g[p][t] >= 3 * s + 3 => f[p][t] >= 3 * s + 3

LEMMA GrowsSame == \A f : Numbers(f) => Grows(f, f)
BY DEF Numbers, Grows

LEMMA GrowsPut ==
  ASSUME NEW f, Numbers(f), NEW p \in Parties, NEW t \in Tasks, NEW v \in Nat,
         v >= f[p][t], \A s \in Nat : v >= 3 * s + 3 => f[p][t] >= 3 * s + 3
  PROVE  Numbers(Put(f, p, t, v)) /\ Grows(f, Put(f, p, t, v))
<1> DEFINE g == Put(f, p, t, v)
<1>1. \A q \in Parties : \A u \in Tasks : g[q][u] = f[q][u] \/ (q = p /\ u = t /\ g[q][u] = v)
  BY PutFacts
<1> HIDE DEF g
<1> QED BY <1>1 DEF Numbers, Grows, g

LEMMA GrowsFacts ==
  ASSUME NEW f, NEW g, Numbers(f), Numbers(g), Grows(f, g), NEW p \in Parties, NEW t \in Tasks
  PROVE  /\ f[p][t] \in Nat /\ g[p][t] \in Nat
         /\ f[p][t] = 2 => g[p][t] = 2
         /\ f[p][t] <= 2 <=> g[p][t] <= 2
         /\ f[p][t] >= 2 => g[p][t] >= 2
         /\ f[p][t] >= 3 <=> g[p][t] >= 3
<1>1. /\ f[p][t] \in Nat /\ g[p][t] \in Nat /\ g[p][t] >= f[p][t]
      /\ g[p][t] >= 3 * 0 + 3 => f[p][t] >= 3 * 0 + 3
  BY DEF Numbers, Grows
<1> QED BY <1>1

-----------------------------------------------------------------------------
(***************************************************************************)
(* Parts that a step leaves alone.                                         *)
(***************************************************************************)

(* The record of thread x of p becomes r, and it has no slot before or     *)
(* after; it then does not bring what.                                     *)
Plain(p, x, r) ==
  /\ Moves(p, x, r)
  /\ thr[p][x].pc # "update" /\ r.pc # "update"
BringsNo(r, what) == r.pc \in {"read", "getslot"} => r.brings # what

LEMMA CausalGrows ==
  ASSUME NEW f, NEW g, Numbers(f), Numbers(g), Grows(f, g), Causal(f)
  PROVE  Causal(g) /\ Causal(g)'
<1> SUFFICES ASSUME NEW p \in Parties, NEW t \in Tasks,
                    NEW s \in 0 .. ExpectedSteps(p, t) - 1,
                    Incoming(p, t, s), g[p][t] >= 3 * s + 3
             PROVE  g[Peer(p)][t] >= 3 * RoundFor(p, t, s) + 4
  BY DEF Causal
<1>1. s \in Nat /\ RoundFor(p, t, s) \in Nat /\ Peer(p) \in Parties
  BY StageFacts, RoundFacts, Peers
<1>2. f[p][t] >= 3 * s + 3
  BY <1>1 DEF Grows
<1>3. f[Peer(p)][t] >= 3 * RoundFor(p, t, s) + 4
  BY <1>2 DEF Causal
<1>4. g[Peer(p)][t] >= f[Peer(p)][t] /\ f[Peer(p)][t] \in Nat /\ g[Peer(p)][t] \in Nat
  BY <1>1 DEF Grows, Numbers
<1> QED BY <1>1, <1>3, <1>4

LEMMA SlotTablePlain ==
  ASSUME SlotTable, NEW p \in Parties, NEW x \in Threads(p), NEW r, Plain(p, x, r),
         UNCHANGED slot
  PROVE  SlotTable'
<1> SUFFICES ASSUME NEW q \in Parties
             PROVE /\ \A y \in Threads(q) : thr'[q][y].pc = "update" =>
                        /\ slot[q][thr'[q][y].task].present
                        /\ thr'[q][y].ref = slot[q][thr'[q][y].task].no
                   /\ \A t \in Tasks :
                        /\ ~slot[q][t].present => Blank(slot[q][t])
                        /\ slot[q][t].present /\ Blank(slot[q][t]) =>
                             \E y \in Threads(q) : thr'[q][y].pc = "update" /\ thr'[q][y].task = t
  BY DEF SlotTable, Blank
<1>1. \A y \in Threads(q) : /\ thr[q][y].pc = "update" => thr'[q][y] = thr[q][y]
                            /\ thr'[q][y].pc = "update" => thr'[q][y] = thr[q][y]
  BY DEF Plain, Moves
<1> QED BY <1>1 DEF SlotTable

LEMMA TokensGrow ==
  ASSUME NEW f, NEW g, Numbers(f), Numbers(g), Grows(f, g), NEW t \in Tasks, NEW h, NEW where
  PROVE  /\ \A p \in Parties :
              /\ PublicAt(f, h, p, t, where) => PublicAt(g, h, p, t, where)
              /\ PrivateAt(f, h, p, t, where) => PrivateAt(g, h, p, t, where)
         /\ ChallengeAt(f, h, t, where) => ChallengeAt(g, h, t, where)
<1>1. \A p \in Parties : /\ f[p][t] = 2 => g[p][t] = 2
                         /\ f[p][t] <= 2 => g[p][t] <= 2
                         /\ f[p][t] >= 2 => g[p][t] >= 2
  BY GrowsFacts
<1> QED BY <1>1 DEF PublicAt, PrivateAt, ChallengeAt, Parties

LEMMA TasksNamed ==
  ASSUME ThreadTypes, SharedTypes, NEW p \in Parties
  PROVE  /\ \A m \in reads[p] : m.task \in Tasks
         /\ \A y \in Threads(p) : /\ \A what : Brings(p, y, what) => thr[p][y].task \in Tasks
                                  /\ Requests(p, y) => thr[p][y].task \in Tasks
         /\ \A i \in DOMAIN chalq : chalq[i] \in Tasks
         /\ \A i \in DOMAIN chalNet : chalNet[i] \in Tasks
BY DEF SharedTypes, ReadRequests, ThreadTypes, Working, Brings, Requests

LEMMA PublicPlain ==
  ASSUME ThreadTypes, SharedTypes,
         NEW f, NEW g, Numbers(f), Numbers(g), Grows(f, g), NEW pub, PublicData(f, pub),
         NEW p \in Parties, NEW x \in Threads(p), NEW r, Plain(p, x, r),
         BringsNo(r, "public"), r.pc = "getslot" /\ r.brings = "request" => ~r.hit,
         UNCHANGED <<slot, cached>>, \A q \in Parties : reads'[q] \subseteq reads[q]
  PROVE  PublicData(g, pub)'
<1>1. \A q \in Parties : \A y \in Threads(q) :
        /\ Brings(q, y, "public")' => Brings(q, y, "public") /\ thr'[q][y] = thr[q][y]
        /\ Requests(q, y)' /\ thr'[q][y].hit =>
             Requests(q, y) /\ thr[q][y].hit /\ thr'[q][y] = thr[q][y]
  BY DEF Plain, BringsNo, Moves, Brings, Requests
<1>2. \A q \in Parties : \A m \in reads'[q] :
        m.kind = "public" => PublicAt(g, pub, q, m.task, InQueue)
  <2> SUFFICES ASSUME NEW q \in Parties, NEW m \in reads'[q], m.kind = "public"
               PROVE  PublicAt(g, pub, q, m.task, InQueue)
    OBVIOUS
  <2>1. m \in reads[q] /\ m.task \in Tasks
    BY TasksNamed
  <2>2. PublicAt(f, pub, q, m.task, InQueue)
    BY <2>1 DEF PublicData
  <2> QED BY <2>1, <2>2, TokensGrow
<1>3. ASSUME NEW q \in Parties, NEW y \in Threads(q)
      PROVE  /\ Brings(q, y, "public")' => PublicAt(g, pub, q, thr'[q][y].task, OnThread(y))
             /\ Requests(q, y)' /\ thr'[q][y].hit =>
                  PublicAt(g, pub, q, thr'[q][y].task, FromCache)
  <2>1. Brings(q, y, "public")' => PublicAt(g, pub, q, thr'[q][y].task, OnThread(y))
    <3> SUFFICES ASSUME Brings(q, y, "public")'
                 PROVE  PublicAt(g, pub, q, thr'[q][y].task, OnThread(y))
      OBVIOUS
    <3>1. Brings(q, y, "public") /\ thr'[q][y] = thr[q][y] /\ thr[q][y].task \in Tasks
      BY <1>1, TasksNamed
    <3>2. PublicAt(f, pub, q, thr[q][y].task, OnThread(y))
      BY <3>1 DEF PublicData
    <3> QED BY <3>1, <3>2, TokensGrow
  <2>2. Requests(q, y)' /\ thr'[q][y].hit =>
          PublicAt(g, pub, q, thr'[q][y].task, FromCache)
    <3> SUFFICES ASSUME Requests(q, y)', thr'[q][y].hit
                 PROVE  PublicAt(g, pub, q, thr'[q][y].task, FromCache)
      OBVIOUS
    <3>1. Requests(q, y) /\ thr[q][y].hit /\ thr'[q][y] = thr[q][y] /\ thr[q][y].task \in Tasks
      BY <1>1, TasksNamed
    <3>2. PublicAt(f, pub, q, thr[q][y].task, FromCache)
      BY <3>1 DEF PublicData
    <3> QED BY <3>1, <3>2, TokensGrow
  <2> QED BY <2>1, <2>2
<1>4. \A q \in Parties : /\ NoChunk \notin cached[q]
                         /\ \A t \in Tasks : slot[q][t].pub => PublicAt(g, pub, q, t, InSlot)
  BY TokensGrow DEF PublicData
<1> QED
  BY <1>2, <1>3, <1>4 DEF PublicData

LEMMA PrivatePlain ==
  ASSUME ThreadTypes, SharedTypes,
         NEW f, NEW g, Numbers(f), Numbers(g), Grows(f, g), NEW priv, PrivateData(f, priv),
         NEW p \in Parties, NEW x \in Threads(p), NEW r, Plain(p, x, r),
         BringsNo(r, "private"),
         UNCHANGED slot, \A q \in Parties : reads'[q] \subseteq reads[q]
  PROVE  PrivateData(g, priv)'
<1>1. \A q \in Parties : \A y \in Threads(q) :
        Brings(q, y, "private")' => Brings(q, y, "private") /\ thr'[q][y] = thr[q][y]
  BY DEF Plain, BringsNo, Moves, Brings
<1>2. ASSUME NEW q \in Parties, NEW m \in reads'[q], m.kind = "private"
      PROVE  PrivateAt(g, priv, q, m.task, InQueue)
  <2>1. m \in reads[q] /\ m.task \in Tasks
    BY <1>2, TasksNamed
  <2>2. PrivateAt(f, priv, q, m.task, InQueue)
    BY <1>2, <2>1 DEF PrivateData
  <2> QED BY <2>1, <2>2, TokensGrow
<1>3. ASSUME NEW q \in Parties, NEW y \in Threads(q), Brings(q, y, "private")'
      PROVE  PrivateAt(g, priv, q, thr'[q][y].task, OnThread(y))
  <2>1. Brings(q, y, "private") /\ thr'[q][y] = thr[q][y] /\ thr[q][y].task \in Tasks
    BY <1>1, <1>3, TasksNamed
  <2>2. PrivateAt(f, priv, q, thr[q][y].task, OnThread(y))
    BY <2>1 DEF PrivateData
  <2> QED BY <2>1, <2>2, TokensGrow
<1>4. \A q \in Parties : \A t \in Tasks : slot[q][t].priv => PrivateAt(g, priv, q, t, InSlot)
  BY TokensGrow DEF PrivateData
<1> QED
  BY <1>2, <1>3, <1>4 DEF PrivateData

LEMMA ChallengesPlain ==
  ASSUME ThreadTypes, SharedTypes,
         NEW f, NEW g, Numbers(f), Numbers(g), Grows(f, g), NEW chal, Challenges(f, chal),
         NEW p \in Parties, NEW x \in Threads(p), NEW r, Plain(p, x, r),
         BringsNo(r, "challenge"),
         UNCHANGED <<slot, chalNet>>, chalq' = chalq \/ chalq' = <<>>
  PROVE  Challenges(g, chal)'
<1>1. "prover" \in Parties /\ "verifier" \in Parties /\ Chal \in Threads("prover")
  BY KindFacts DEF Parties
<1>2. Brings("prover", Chal, "challenge")' =>
        Brings("prover", Chal, "challenge") /\ thr'["prover"][Chal] = thr["prover"][Chal]
  BY <1>1 DEF Plain, BringsNo, Moves, Brings
<1>3. \A t \in Tasks : /\ g["prover"][t] >= 3 => f["prover"][t] >= 3
                       /\ f["verifier"][t] >= 2 => g["verifier"][t] >= 2
  BY <1>1, GrowsFacts
<1>4. (\A i \in DOMAIN chalq' : ChallengeAt(f, chal, chalq'[i], InQueue)) /\ NoTwice(chalq')
      /\ \A i \in DOMAIN chalq' : chalq'[i] \in Tasks
  BY TasksNamed, <1>1 DEF Challenges, NoTwice
<1>5. (NoTwice(chalNet))'
  BY DEF Challenges, NoTwice
<1> QED
  BY <1>1, <1>2, <1>3, <1>4, <1>5, TokensGrow, TasksNamed DEF Challenges, NoTwice

LEMMA UnderWayGrows ==
  ASSUME NEW f, NEW g, Numbers(f), Numbers(g), Grows(f, g),
         NEW p \in Parties, NEW t \in Tasks, NEW k \in Nat, NEW msg, NEW where,
         UnderWay(f, msg, p, t, k, where)
  PROVE  UnderWay(g, msg, p, t, k, where)
<1> DEFINE q == Peer(p)
           s == StageFor(q, t, k)
<1>1. q \in Parties /\ s \in Nat
  BY Peers, MessageFacts DEF UnderWay
<1>2. /\ Outgoing(p, t, k) /\ msg[p][t] = where
      /\ f[p][t] >= 3 * k + 4 /\ f[q][t] < 3 * s + 3
  BY DEF UnderWay
<1>3. /\ f[p][t] \in Nat /\ g[p][t] \in Nat /\ g[p][t] >= f[p][t]
      /\ f[q][t] \in Nat /\ g[q][t] \in Nat
      /\ g[q][t] >= 3 * s + 3 => f[q][t] >= 3 * s + 3
  BY <1>1 DEF Numbers, Grows
<1> HIDE DEF s
<1>4. g[p][t] >= 3 * k + 4 /\ g[q][t] < 3 * s + 3
  BY <1>1, <1>2, <1>3
<1> QED BY <1>2, <1>4 DEF UnderWay, s

LEMMA MessagesNamed ==
  ASSUME ThreadTypes, SharedTypes, NEW p \in Parties
  PROVE  /\ \A i \in DOMAIN outq[p] : outq[p][i].task \in Tasks /\ outq[p][i].round \in Nat
         /\ \A c \in 1 .. NumConns : \A i \in DOMAIN net[p][c] :
              net[p][c][i].task \in Tasks /\ net[p][c][i].round \in Nat
         /\ \A x \in Threads(p) : /\ thr[p][x].step \in Nat
                                  /\ thr[p][x].pc \in {"write", "getslot", "update"} =>
                                       thr[p][x].task \in Tasks
         /\ \A t \in Tasks : slot[p][t].inc >= 0 => slot[p][t].inc \in Nat
<1>0. \A s \in Seq(Messages) : \A i \in DOMAIN s : s[i].task \in Tasks /\ s[i].round \in Nat
  <2> SUFFICES ASSUME NEW s \in Seq(Messages), NEW i \in DOMAIN s
               PROVE  s[i].task \in Tasks /\ s[i].round \in Nat
    OBVIOUS
  <2>1. s[i] \in Messages
    OBVIOUS
  <2> QED BY <2>1 DEF Messages
<1>1. \A i \in DOMAIN outq[p] : outq[p][i].task \in Tasks /\ outq[p][i].round \in Nat
  BY <1>0 DEF SharedTypes
<1>2. \A c \in 1 .. NumConns : \A i \in DOMAIN net[p][c] :
        net[p][c][i].task \in Tasks /\ net[p][c][i].round \in Nat
  BY <1>0 DEF SharedTypes
<1>3. \A x \in Threads(p) : /\ thr[p][x].step \in Nat
                            /\ thr[p][x].pc \in {"write", "getslot", "update"} =>
                                 thr[p][x].task \in Tasks
  BY DEF ThreadTypes, Records, Working
<1>4. \A t \in Tasks : slot[p][t].inc >= 0 => slot[p][t].inc \in Nat
  BY DEF SharedTypes, Slots
<1> QED BY <1>1, <1>2, <1>3, <1>4

(* The threads that carry messages do what they did. *)
LEMMA FlightsStill ==
  ASSUME ThreadTypes, SharedTypes,
         NEW f, NEW g, Numbers(f), Numbers(g), Grows(f, g), NEW msg, Flights(f, msg),
         \A q \in Parties :
           /\ \A y \in Outs : thr'[q][y].pc = "write" =>
                /\ thr[q][y].pc = "write"
                /\ thr'[q][y].task = thr[q][y].task /\ thr'[q][y].step = thr[q][y].step
           /\ \A y \in Ins : thr'[q][y].pc \in {"getslot", "update"} =>
                /\ thr[q][y].pc \in {"getslot", "update"}
                /\ thr'[q][y].task = thr[q][y].task /\ thr'[q][y].step = thr[q][y].step
           /\ \A t \in Tasks : slot'[q][t].inc >= 0 => slot'[q][t].inc = slot[q][t].inc
           /\ outq'[q] = outq[q] \/ outq'[q] = <<>>,
         UNCHANGED net
  PROVE  Flights(g, msg)'
<1> SUFFICES ASSUME NEW p \in Parties
             PROVE
    /\ \A i \in DOMAIN outq'[p] :
         /\ UnderWay(g, msg, p, outq'[p][i].task, outq'[p][i].round, InQueue)
         /\ \A j \in DOMAIN outq'[p] : outq'[p][i].task = outq'[p][j].task => i = j
    /\ \A x \in Outs : thr'[p][x].pc = "write" =>
         UnderWay(g, msg, p, thr'[p][x].task, thr'[p][x].step, OnThread(x))
    /\ \A c \in 1 .. NumConns : \A i \in DOMAIN net[p][c] :
         /\ UnderWay(g, msg, p, net[p][c][i].task, net[p][c][i].round, OnNet(c))
         /\ \A j \in DOMAIN net[p][c] : net[p][c][i].task = net[p][c][j].task => i = j
    /\ \A x \in Ins : thr'[Peer(p)][x].pc \in {"getslot", "update"} =>
         UnderWay(g, msg, p, thr'[Peer(p)][x].task, thr'[Peer(p)][x].step, OnThread(x))
    /\ \A t \in Tasks : slot'[Peer(p)][t].inc >= 0 =>
         UnderWay(g, msg, p, t, slot'[Peer(p)][t].inc, InSlot)
  BY DEF Flights, UnderWay
<1>1. Peer(p) \in Parties
  BY Peers
<1>2. \A i \in DOMAIN outq'[p] :
         /\ UnderWay(g, msg, p, outq'[p][i].task, outq'[p][i].round, InQueue)
         /\ \A j \in DOMAIN outq'[p] : outq'[p][i].task = outq'[p][j].task => i = j
  <2>1. CASE outq'[p] = outq[p]
    BY <2>1, UnderWayGrows, MessagesNamed DEF Flights
  <2>2. CASE outq'[p] = <<>>
    BY <2>2
  <2> QED BY <2>1, <2>2
<1>3. \A x \in Outs : thr'[p][x].pc = "write" =>
         UnderWay(g, msg, p, thr'[p][x].task, thr'[p][x].step, OnThread(x))
  BY UnderWayGrows, MessagesNamed, KindFacts DEF Flights
<1>4. \A c \in 1 .. NumConns : \A i \in DOMAIN net[p][c] :
         /\ UnderWay(g, msg, p, net[p][c][i].task, net[p][c][i].round, OnNet(c))
         /\ \A j \in DOMAIN net[p][c] : net[p][c][i].task = net[p][c][j].task => i = j
  BY UnderWayGrows, MessagesNamed DEF Flights
<1>5. \A x \in Ins : thr'[Peer(p)][x].pc \in {"getslot", "update"} =>
         UnderWay(g, msg, p, thr'[Peer(p)][x].task, thr'[Peer(p)][x].step, OnThread(x))
  <2> SUFFICES ASSUME NEW x \in Ins, thr'[Peer(p)][x].pc \in {"getslot", "update"}
               PROVE  UnderWay(g, msg, p, thr'[Peer(p)][x].task, thr'[Peer(p)][x].step,
                               OnThread(x))
    OBVIOUS
  <2>1. /\ x \in Threads(Peer(p)) /\ thr[Peer(p)][x].pc \in {"getslot", "update"}
        /\ thr'[Peer(p)][x].task = thr[Peer(p)][x].task
        /\ thr'[Peer(p)][x].step = thr[Peer(p)][x].step
    BY <1>1, KindFacts
  <2>2. thr[Peer(p)][x].task \in Tasks /\ thr[Peer(p)][x].step \in Nat
    BY <1>1, <2>1, MessagesNamed
  <2>3. UnderWay(f, msg, p, thr[Peer(p)][x].task, thr[Peer(p)][x].step, OnThread(x))
    BY <2>1 DEF Flights
  <2> QED BY <2>1, <2>2, <2>3, UnderWayGrows
<1>6. \A t \in Tasks : slot'[Peer(p)][t].inc >= 0 =>
         UnderWay(g, msg, p, t, slot'[Peer(p)][t].inc, InSlot)
  BY <1>1, UnderWayGrows, MessagesNamed DEF Flights
<1> QED BY <1>2, <1>3, <1>4, <1>5, <1>6

(* A plain step keeps what the invariant says of slots, reads, challenges  *)
(* and, when the thread holds no message either, of messages.              *)
LEMMA DataPlain ==
  ASSUME Types, Shapes', NEW f, NEW g, Numbers(f), Numbers(g), Grows(f, g),
         NEW msg, NEW pub, NEW priv, NEW chal, Data(f, msg, pub, priv, chal),
         NEW p \in Parties, NEW x \in Threads(p), NEW r, Plain(p, x, r),
         BringsNo(r, "public"), BringsNo(r, "private"), BringsNo(r, "challenge"),
         r.pc = "getslot" /\ r.brings = "request" => ~r.hit,
         UNCHANGED <<slot, cached, chalNet>>,
         \A q \in Parties : reads'[q] \subseteq reads[q],
         chalq' = chalq \/ chalq' = <<>>
  PROVE  SlotTable' /\ PublicData(g, pub)' /\ PrivateData(g, priv)'
           /\ Challenges(g, chal)' /\ Causal(g)'
<1>1. SlotTable'
  BY SlotTablePlain DEF Data
<1>2. PublicData(g, pub)' /\ PrivateData(g, priv)'
  BY PublicPlain, PrivatePlain DEF Data, Types
<1>3. Challenges(g, chal)'
  BY ChallengesPlain DEF Data, Types
<1>4. Causal(g)'
  BY CausalGrows DEF Data
<1> QED BY <1>1, <1>2, <1>3, <1>4

LEMMA FlightsPlain ==
  ASSUME Types, Shapes', NEW f, NEW g, Numbers(f), Numbers(g), Grows(f, g),
         NEW msg, Flights(f, msg),
         NEW p \in Parties, NEW x \in Threads(p), NEW r, Plain(p, x, r),
         BringsNo(r, "incoming"), r.pc # "write",
         UNCHANGED <<slot, net>>,
         \A q \in Parties : outq'[q] = outq[q] \/ outq'[q] = <<>>
  PROVE  Flights(g, msg)'
<1>1. \A q \in Parties :
        /\ \A y \in Outs : thr'[q][y].pc = "write" => thr'[q][y] = thr[q][y]
        /\ \A y \in Ins : thr'[q][y].pc \in {"getslot", "update"} => thr'[q][y] = thr[q][y]
  <2> SUFFICES ASSUME NEW q \in Parties, NEW y \in Threads(q), thr'[q][y] # thr[q][y]
               PROVE  /\ y \in Outs => thr'[q][y].pc # "write"
                      /\ y \in Ins => thr'[q][y].pc \notin {"getslot", "update"}
    BY KindFacts
  <2>1. thr'[q][y] = r
    BY DEF Plain, Moves
  <2>2. y \in Ins => y[1] = "in"
    BY KindFacts
  <2>3. y \in Ins => (r.pc = "getslot" => r.brings = "incoming")
    BY <2>1, <2>2 DEF Shapes, Shape, InShape
  <2> QED BY <2>1, <2>3 DEF Plain, BringsNo
<1> QED BY <1>1, FlightsStill DEF Types

(* What a step that leaves stages and counts alone does to the threads.    *)
SameWork(p, x, r) ==
  LET o == thr[p][x]
  IN  \/ x[1] \notin {"run", "main"}
      \/ x[1] = "run" /\ {o.pc, r.pc} \subseteq {"idle", "done"} /\ r.todo = o.todo
      \/ /\ {o.pc, r.pc} \subseteq {"getslot", "update"}
         /\ r.task = o.task /\ r.step = o.step /\ r.brings = o.brings /\ r.todo = o.todo

LEMMA SameWorkFacts ==
  ASSUME Shapes, Shapes', NEW p \in Parties, NEW x \in Threads(p), NEW r,
         Moves(p, x, r), SameWork(p, x, r), NEW q \in Parties, NEW y \in Threads(q)
  PROVE  /\ \A t : Carries(q, y, t)' <=> Carries(q, y, t)
         /\ Requests(q, y)' <=> Requests(q, y)
         /\ Requests(q, y)' => thr'[q][y].step = thr[q][y].step /\ thr'[q][y].task = thr[q][y].task
         /\ thr'[q][y].pc \in {"launch", "send", "blocked", "result"} => thr'[q][y] = thr[q][y]
         /\ Notifying(q, y)' <=> Notifying(q, y)
         /\ y[1] \in {"run", "main"} => thr'[q][y].todo = thr[q][y].todo
         /\ y[1] = "main" => \/ thr'[q][y].pc = thr[q][y].pc
                             \/ thr'[q][y].pc \in {"getslot", "update"}
<1>1. CASE q # p \/ y # x
  BY <1>1 DEF Moves, Carries, Requests, Notifying
<1>2. CASE q = p /\ y = x /\ x[1] \notin {"run", "main"}
  <2>1. thr'[q][y] = r
    BY <1>2 DEF Moves
  <2>2. x[1] \in {"disk", "out", "in", "chal"}
    BY <1>2, KindFacts
  <2>3. Shape(p, x, thr[p][x]) /\ Shape(p, x, r)
    BY <1>2, <2>1 DEF Shapes
  <2>4. \A o : Shape(p, x, o) =>
          /\ o.pc \notin {"launch", "send", "blocked", "result", "todo"}
          /\ ~(o.pc \in {"getslot", "update"} /\ o.brings = "request")
    BY <2>2 DEF Shape, DiskShape, OutShape, InShape, ChalShape
  <2> QED BY <1>2, <2>1, <2>2, <2>3, <2>4 DEF Carries, Requests, Notifying
<1>3. CASE q = p /\ y = x /\ x[1] \in {"run", "main"}
  BY <1>3 DEF Moves, SameWork, Carries, Requests, Notifying
<1> QED BY <1>1, <1>2, <1>3

LEMMA TailFacts ==
  ASSUME NEW S, NEW s \in Seq(S), s # <<>>
  PROVE  /\ Tail(s) \in Seq(S) /\ Head(s) \in S /\ Head(s) = s[1] /\ 1 \in DOMAIN s
         /\ Len(Tail(s)) = Len(s) - 1 /\ Len(s) \in Nat
         /\ \A i \in DOMAIN Tail(s) : i + 1 \in DOMAIN s /\ Tail(s)[i] = s[i + 1] /\ i + 1 # 1
         /\ DOMAIN Tail(s) \subseteq Nat
OBVIOUS

(* The counts depend only on which tasks have taken their inputs and which *)
(* have ended, on the lists of dependents, and on who is notifying.        *)
LEMMA CountsSame ==
  ASSUME NEW f, NEW g, Counts(f), UNCHANGED graphVars,
         \A p \in Parties : \A t \in Tasks :
           /\ g[p][t] < Done(p, t) <=> f[p][t] < Done(p, t)
           /\ g[p][t] = Done(p, t) <=> f[p][t] = Done(p, t)
           /\ g[p][t] <= 1 <=> f[p][t] <= 1,
         \A p \in Parties : \A x \in Threads(p) :
           /\ x[1] = "run" => thr'[p][x].todo = thr[p][x].todo
           /\ Notifying(p, x)' <=> Notifying(p, x),
         \A p \in Parties :
           \/ thr'[p][Main].todo = thr[p][Main].todo
           \/ /\ thr[p][Main].todo \in Seq(Tasks) /\ thr[p][Main].todo # <<>>
              /\ thr'[p][Main].todo = Tail(thr[p][Main].todo)
  PROVE  Counts(g)'
<1> SUFFICES ASSUME NEW p \in Parties
             PROVE
    /\ \A t \in Tasks :
         /\ IsFiniteSet(Pending(p, t)')
         /\ deps[p][t] = Cardinality(Waiting(g, p, t)) + Cardinality(Pending(p, t)')
         /\ deps[p][t] <= Len(Inputs[t])
         /\ left[p][t] = Cardinality(Untaken(g, p, t))
         /\ t \in held[p] <=> g[p][t] = Done(p, t) /\ left[p][t] > 0
    /\ remaining[p] = Cardinality({t \in Tasks : g[p][t] < Done(p, t)})
                        + Cardinality({x \in Runners(p) : Notifying(p, x)'})
    /\ \A i \in DOMAIN thr'[p][Main].todo :
         /\ Inputs[thr'[p][Main].todo[i]] = <<>>
         /\ \A j \in DOMAIN thr'[p][Main].todo :
              thr'[p][Main].todo[i] = thr'[p][Main].todo[j] => i = j
  BY DEF Counts, graphVars
<1>1. \A t \in Tasks : Pending(p, t)' = Pending(p, t)
  <2> SUFFICES ASSUME NEW t \in Tasks, NEW x \in Runners(p)
               PROVE  thr'[p][x].todo = thr[p][x].todo
    BY DEF Pending
  <2> QED BY KindFacts
<1>2. \A t \in Tasks : Waiting(g, p, t) = Waiting(f, p, t)
  BY InputsType DEF Waiting
<1>3. \A t \in Tasks : Untaken(g, p, t) = Untaken(f, p, t)
  <2> SUFFICES ASSUME NEW t \in Tasks, NEW ti \in UsesOf(t) PROVE ti[1] \in Tasks
    BY DEF Untaken
  <2> QED BY UsesOrdered
<1>4. {t \in Tasks : g[p][t] < Done(p, t)} = {t \in Tasks : f[p][t] < Done(p, t)}
  OBVIOUS
<1>5. {x \in Runners(p) : Notifying(p, x)'} = {x \in Runners(p) : Notifying(p, x)}
  BY KindFacts
<1>6. \A t \in Tasks :
        /\ IsFiniteSet(Pending(p, t))
        /\ deps[p][t] = Cardinality(Waiting(f, p, t)) + Cardinality(Pending(p, t))
        /\ deps[p][t] <= Len(Inputs[t])
        /\ left[p][t] = Cardinality(Untaken(f, p, t))
        /\ t \in held[p] <=> f[p][t] = Done(p, t) /\ left[p][t] > 0
  BY DEF Counts
<1>7. remaining[p] = Cardinality({t \in Tasks : f[p][t] < Done(p, t)})
                       + Cardinality({x \in Runners(p) : Notifying(p, x)})
  BY DEF Counts
<1>8. \A i \in DOMAIN thr[p][Main].todo :
        /\ Inputs[thr[p][Main].todo[i]] = <<>>
        /\ \A j \in DOMAIN thr[p][Main].todo :
             thr[p][Main].todo[i] = thr[p][Main].todo[j] => i = j
  BY DEF Counts
<1>9. \A t \in Tasks :
        /\ IsFiniteSet(Pending(p, t)')
        /\ deps[p][t] = Cardinality(Waiting(g, p, t)) + Cardinality(Pending(p, t)')
        /\ left[p][t] = Cardinality(Untaken(g, p, t))
        /\ t \in held[p] <=> g[p][t] = Done(p, t) /\ left[p][t] > 0
  BY <1>1, <1>2, <1>3, <1>6
<1>10. remaining[p] = Cardinality({t \in Tasks : g[p][t] < Done(p, t)})
                       + Cardinality({x \in Runners(p) : Notifying(p, x)'})
  BY <1>4, <1>5, <1>7
<1>11. \A i \in DOMAIN thr'[p][Main].todo :
        /\ Inputs[thr'[p][Main].todo[i]] = <<>>
        /\ \A j \in DOMAIN thr'[p][Main].todo :
             thr'[p][Main].todo[i] = thr'[p][Main].todo[j] => i = j
  <2>1. CASE thr'[p][Main].todo = thr[p][Main].todo
    BY <1>8, <2>1
  <2>2. CASE /\ thr[p][Main].todo \in Seq(Tasks) /\ thr[p][Main].todo # <<>>
             /\ thr'[p][Main].todo = Tail(thr[p][Main].todo)
    <3> DEFINE w == thr[p][Main].todo
               v == thr'[p][Main].todo
    <3>1. \A i \in DOMAIN v : i \in Nat /\ i + 1 \in DOMAIN w /\ v[i] = w[i + 1]
      BY <2>2, TailFacts
    <3>2. \A i \in DOMAIN w : /\ Inputs[w[i]] = <<>>
                              /\ \A j \in DOMAIN w : w[i] = w[j] => i = j
      BY <1>8
    <3> HIDE DEF v, w
    <3>3. \A i \in DOMAIN v : Inputs[v[i]] = <<>>
      BY <3>1, <3>2
    <3>4. ASSUME NEW i \in DOMAIN v, NEW j \in DOMAIN v, v[i] = v[j] PROVE i = j
      <4>1. i + 1 = j + 1 /\ i \in Nat /\ j \in Nat
        BY <3>1, <3>2, <3>4
      <4> QED BY <4>1
    <3> QED BY <3>3, <3>4 DEF v
  <2> QED BY <2>1, <2>2
<1> QED BY <1>6, <1>9, <1>10, <1>11

LEMMA GraphSame ==
  ASSUME Types, Types', NEW f, NEW place, Graph(f, place),
         NEW p \in Parties, NEW x \in Threads(p), NEW r, Moves(p, x, r), SameWork(p, x, r),
         UNCHANGED <<runVars, graphVars>>,
         \A q \in Parties : \A t \in Tasks : slot'[q][t].req = slot[q][t].req
  PROVE  Graph(f, place)'
<1> USE DEF Types
<1>1. Launched(f, place)'
  <2>1. ASSUME NEW q \in Parties, NEW y \in Threads(q)
        PROVE  StageAt(f, place, q, y, thr'[q][y])
    <3>1. StageAt(f, place, q, y, thr[q][y])
      BY DEF Graph, Launched
    <3> QED BY <3>1, SameWorkFacts DEF StageAt, Requests
  <2> QED BY <2>1 DEF Launched, Graph, StageAt, Stands, runVars
<1>2. Conserved(f)'
  <2>1. \A q \in Parties : \A y \in Threads(q) : \A t \in Tasks :
          Carries(q, y, t)' <=> Carries(q, y, t)
    BY SameWorkFacts
  <2>2. \A q \in Parties : thr'[q][Main].todo = thr[q][Main].todo
    BY SameWorkFacts, KindFacts
  <2> QED
    BY <2>1, <2>2 DEF Conserved, InTodo, Graph, runVars, graphVars
<1>3. Counts(f)'
  BY CountsSame, SameWorkFacts, KindFacts DEF Graph
<1>4. Closing'
  <2>1. \A q \in Parties : \/ thr'[q][Main].pc = thr[q][Main].pc
                           \/ thr'[q][Main].pc \in {"getslot", "update"}
    BY SameWorkFacts, KindFacts
  <2> QED BY <2>1 DEF Closing, Graph, runVars, graphVars
<1> QED BY <1>1, <1>2, <1>3, <1>4 DEF Graph

LEMMA DoneFacts ==
  ASSUME NEW f, Conserved(f)
  PROVE  /\ Numbers(f)
         /\ \A p \in Parties : \A t \in Tasks :
              Done(p, t) \in Nat /\ Done(p, t) >= 5 /\ f[p][t] <= Done(p, t)
<1>1. \A p \in Parties : \A t \in Tasks : Done(p, t) \in Nat /\ Done(p, t) >= 5
  BY StageFacts DEF Done
<1>2. \A p \in Parties : \A t \in Tasks : f[p][t] \in 0 .. Done(p, t)
  BY DEF Conserved
<1> QED BY <1>1, <1>2 DEF Numbers

LEMMA RecordFacts ==
  ASSUME ThreadTypes, NEW p \in Parties, NEW x \in Threads(p)
  PROVE  LET r == thr[p][x]
         IN  /\ r \in Records
             /\ r.task \in Nat /\ r.step \in Nat /\ r.todo \in Seq(Tasks)
             /\ r.ref \in Nat /\ r.brings \in Cargo /\ r.hit \in BOOLEAN
             /\ r.pc \in Working => r.task \in Tasks
BY DEF ThreadTypes, Records

LEMMA SlotFacts ==
  ASSUME SharedTypes, NEW p \in Parties, NEW t \in Tasks
  PROVE  LET s == slot[p][t]
         IN  /\ s \in Slots
             /\ s.no \in Nat /\ s.present \in BOOLEAN /\ s.req \in Nat \cup {-1}
             /\ s.chal \in BOOLEAN /\ s.inc \in Nat \cup {-1} /\ s.pub \in BOOLEAN
             /\ s.priv \in BOOLEAN
BY DEF SharedTypes, Slots

-----------------------------------------------------------------------------
(***************************************************************************)
(* The actions.                                                            *)
(***************************************************************************)
(* A step after which threads and slots hold the same things.              *)
LEMMA DataViews ==
  ASSUME NEW prog, NEW msg, NEW pub, NEW priv, NEW chal,
         Types, Conserved(prog), Data(prog, msg, pub, priv, chal),
         \A q \in Parties : \A u \in Tasks :
           /\ slot'[q][u].req = slot[q][u].req /\ slot'[q][u].chal = slot[q][u].chal
           /\ slot'[q][u].inc = slot[q][u].inc /\ slot'[q][u].pub = slot[q][u].pub
           /\ slot'[q][u].priv = slot[q][u].priv,
         \A q \in Parties : \A y \in Threads(q) :
           /\ thr'[q][y].task = thr[q][y].task /\ thr'[q][y].hit = thr[q][y].hit
           /\ thr'[q][y].step = thr[q][y].step
           /\ Requests(q, y)' <=> Requests(q, y)
           /\ \A what : Brings(q, y, what)' <=> Brings(q, y, what)
           /\ thr'[q][y].pc = "write" <=> thr[q][y].pc = "write"
           /\ y \in Ins => (thr'[q][y].pc \in {"getslot", "update"} <=>
                             thr[q][y].pc \in {"getslot", "update"}),
         UNCHANGED <<reads, chalq, chalNet, outq, net>>,
         \A q \in Parties : NoChunk \notin cached'[q]
  PROVE  /\ PublicData(prog, pub)' /\ PrivateData(prog, priv)' /\ Challenges(prog, chal)'
         /\ Flights(prog, msg)' /\ Causal(prog)'
<1>1. PublicData(prog, pub)'
  <2>1. PublicData(prog, pub)
    BY DEF Data
  <2> QED BY <2>1 DEF PublicData, PublicAt
<1>2. PrivateData(prog, priv)'
  <2>1. PrivateData(prog, priv)
    BY DEF Data
  <2> QED BY <2>1 DEF PrivateData, PrivateAt
<1>3. Challenges(prog, chal)'
  <2>1. "prover" \in Parties /\ "verifier" \in Parties /\ Chal \in Threads("prover")
    BY KindFacts DEF Parties
  <2>2. Challenges(prog, chal)
    BY DEF Data
  <2> QED BY <2>1, <2>2 DEF Challenges, ChallengeAt, NoTwice
<1>4. Flights(prog, msg)'
  <2>1. Numbers(prog) /\ Grows(prog, prog)
    BY DoneFacts, GrowsSame
  <2>2. \A q \in Parties :
          /\ \A y \in Outs : thr'[q][y].pc = "write" =>
               /\ thr[q][y].pc = "write"
               /\ thr'[q][y].task = thr[q][y].task /\ thr'[q][y].step = thr[q][y].step
          /\ \A y \in Ins : thr'[q][y].pc \in {"getslot", "update"} =>
               /\ thr[q][y].pc \in {"getslot", "update"}
               /\ thr'[q][y].task = thr[q][y].task /\ thr'[q][y].step = thr[q][y].step
    BY OutsAndIns
  <2>3. ThreadTypes /\ SharedTypes /\ Flights(prog, msg)
    BY DEF Types, Data
  <2> QED BY <2>1, <2>2, <2>3, FlightsStill
<1>5. Causal(prog)'
  BY DEF Data, Causal
<1> QED BY <1>1, <1>2, <1>3, <1>4, <1>5

LEMMA GetSlotKeeps ==
  ASSUME NEW prog, NEW place, NEW msg, NEW pub, NEW priv, NEW chal,
         Inv(prog, place, msg, pub, priv, chal),
         NEW p \in Parties, NEW x \in Threads(p), GetSlot(p, x)
  PROVE  Inv(prog, place, msg, pub, priv, chal)'
<1> DEFINE o == thr[p][x]
           t == o.task
           s == slot[p][t]
           k == IF s.present THEN s.no ELSE s.no + 1
           r == [o EXCEPT !.pc = "update", !.ref = k]
<1>0. /\ Types /\ ThreadTypes /\ SharedTypes /\ Shapes /\ NoPanic
      /\ Graph(prog, place) /\ Conserved(prog)
      /\ Data(prog, msg, pub, priv, chal) /\ SlotTable /\ PublicData(prog, pub)
  BY DEF Inv, Types, Graph, Data
<1>1. /\ o.pc = "getslot" /\ Do(p, x, r)
      /\ slot' = [slot EXCEPT ![p][t].no = k, ![p][t].present = TRUE]
      /\ UNCHANGED <<runVars, graphVars, diskVars, outVars, chalVars, endVars>>
  BY DEF GetSlot
<1>2. /\ t \in Tasks /\ o \in Records /\ k \in Nat
      /\ s.present => k = s.no
  <2>1. t \in Tasks /\ o \in Records
    BY <1>0, <1>1, RecordFacts DEF Working
  <2>2. s.no \in Nat
    BY <1>0, <2>1, SlotFacts
  <2> QED BY <2>1, <2>2
<1>3. /\ r \in Records /\ r.pc = "update" /\ r.ref = k /\ r.task = t /\ r.step = o.step
      /\ r.brings = o.brings /\ r.todo = o.todo /\ r.hit = o.hit
  <2> HIDE DEF k, o
  <2> QED BY <1>2 DEF Records, Working
<1> DEFINE s2 == [s EXCEPT !.no = k, !.present = TRUE]
<1>4. /\ slot' \in [Parties -> [Tasks -> Slots]]
      /\ slot'[p][t] = s2
      /\ \A q \in Parties : \A u \in Tasks : q # p \/ u # t => slot'[q][u] = slot[q][u]
      /\ s2 \in Slots /\ s2.no = k /\ s2.present = TRUE /\ s2.req = s.req /\ s2.chal = s.chal
      /\ s2.inc = s.inc /\ s2.pub = s.pub /\ s2.priv = s.priv
  <2>1. s \in Slots
    BY <1>0, <1>2, SlotFacts
  <2>2. /\ s2 \in Slots /\ s2.no = k /\ s2.present = TRUE /\ s2.req = s.req /\ s2.chal = s.chal
        /\ s2.inc = s.inc /\ s2.pub = s.pub /\ s2.priv = s.priv
    BY <1>2, <2>1 DEF Slots
  <2>3. slot' = [slot EXCEPT ![p] = [slot[p] EXCEPT ![t] = s2]]
    BY <1>0, <1>1, <1>2 DEF SharedTypes
  <2> HIDE DEF s2
  <2> QED BY <1>0, <1>2, <2>2, <2>3 DEF SharedTypes
<1> HIDE DEF s2, r, k
<1>5. Shape(p, x, r)
  BY <1>0, <1>1, <1>3 DEF Shapes, Shape, RunShape, MainShape, DiskShape, OutShape, InShape, ChalShape
<1>6. Moves(p, x, r) /\ ThreadTypes' /\ Shapes'
  BY <1>0, <1>1, <1>2, <1>3, <1>5, MoveKeepsShape
<1>7. SharedTypes'
  BY <1>0, <1>1, <1>4 DEF SharedTypes, runVars, graphVars, diskVars, outVars, chalVars, endVars
<1>8. NoPanic'
  BY <1>0, <1>1 DEF NoPanic, endVars
<1>9. SameWork(p, x, r)
  BY <1>1, <1>3 DEF SameWork
<1>10. Graph(prog, place)'
  <2>1. \A q \in Parties : \A u \in Tasks : slot'[q][u].req = slot[q][u].req
    BY <1>4
  <2>2. Types'
    BY <1>6, <1>7 DEF Types
  <2> QED BY <1>0, <1>1, <1>6, <1>9, <2>1, <2>2, GraphSame
<1>11. SlotTable'
  <2> SUFFICES ASSUME NEW q \in Parties
               PROVE /\ \A y \in Threads(q) : thr'[q][y].pc = "update" =>
                          /\ slot'[q][thr'[q][y].task].present
                          /\ thr'[q][y].ref = slot'[q][thr'[q][y].task].no
                     /\ \A u \in Tasks :
                          /\ ~slot'[q][u].present => Blank(slot'[q][u])
                          /\ slot'[q][u].present /\ Blank(slot'[q][u]) =>
                               \E y \in Threads(q) : thr'[q][y].pc = "update" /\ thr'[q][y].task = u
    BY DEF SlotTable, Blank
  <2>1. \A y \in Threads(q) : thr'[q][y].pc = "update" =>
          /\ slot'[q][thr'[q][y].task].present
          /\ thr'[q][y].ref = slot'[q][thr'[q][y].task].no
    <3> SUFFICES ASSUME NEW y \in Threads(q), thr'[q][y].pc = "update"
                 PROVE  /\ slot'[q][thr'[q][y].task].present
                        /\ thr'[q][y].ref = slot'[q][thr'[q][y].task].no
      OBVIOUS
    <3>1. CASE q = p /\ y = x
      BY <1>3, <1>4, <1>6, <3>1 DEF Moves
    <3>2. CASE q # p \/ y # x
      <4>1. thr'[q][y] = thr[q][y] /\ thr[q][y].task \in Tasks
        BY <1>0, <1>6, <3>2, RecordFacts DEF Moves, Working
      <4>2. /\ slot[q][thr[q][y].task].present
            /\ thr[q][y].ref = slot[q][thr[q][y].task].no
        BY <1>0, <3>2, <4>1 DEF SlotTable
      <4> QED BY <1>2, <1>4, <4>1, <4>2
    <3> QED BY <3>1, <3>2
  <2>2. \A u \in Tasks : ~slot'[q][u].present => Blank(slot'[q][u])
    BY <1>0, <1>4 DEF SlotTable, Blank
  <2>3. ASSUME NEW u \in Tasks, slot'[q][u].present /\ Blank(slot'[q][u])
        PROVE  \E y \in Threads(q) : thr'[q][y].pc = "update" /\ thr'[q][y].task = u
    <3>1. CASE q = p /\ u = t
      BY <1>3, <1>6, <3>1 DEF Moves
    <3>2. CASE q # p \/ u # t
      <4>1. slot[q][u].present /\ Blank(slot[q][u])
        BY <1>4, <2>3, <3>2 DEF Blank
      <4>2. PICK y \in Threads(q) : thr[q][y].pc = "update" /\ thr[q][y].task = u
        BY <1>0, <4>1 DEF SlotTable
      <4>3. thr'[q][y] = thr[q][y]
        BY <1>1, <1>6, <4>2 DEF Moves
      <4> QED BY <4>2, <4>3
    <3> QED BY <3>1, <3>2
  <2> QED BY <2>1, <2>2, <2>3
<1>12. \A q \in Parties : \A u \in Tasks :
         /\ slot'[q][u].req = slot[q][u].req /\ slot'[q][u].chal = slot[q][u].chal
         /\ slot'[q][u].inc = slot[q][u].inc /\ slot'[q][u].pub = slot[q][u].pub
         /\ slot'[q][u].priv = slot[q][u].priv
  BY <1>4
<1>13. \A q \in Parties : \A y \in Threads(q) :
         /\ thr'[q][y].task = thr[q][y].task /\ thr'[q][y].hit = thr[q][y].hit
         /\ thr'[q][y].step = thr[q][y].step
         /\ Requests(q, y)' <=> Requests(q, y)
         /\ \A what : Brings(q, y, what)' <=> Brings(q, y, what)
         /\ thr'[q][y].pc = "write" <=> thr[q][y].pc = "write"
         /\ thr'[q][y].pc \in {"getslot", "update"} <=> thr[q][y].pc \in {"getslot", "update"}
  BY <1>1, <1>3, <1>6 DEF Moves, Requests, Brings
<1>14. /\ UNCHANGED <<reads, cached, chalq, chalNet, outq, net>>
       /\ \A q \in Parties : NoChunk \notin cached'[q]
  BY <1>0, <1>1 DEF diskVars, chalVars, outVars, PublicData
<1>15. /\ PublicData(prog, pub)' /\ PrivateData(prog, priv)' /\ Challenges(prog, chal)'
       /\ Flights(prog, msg)' /\ Causal(prog)'
  BY <1>0, <1>12, <1>13, <1>14, DataViews
<1> QED BY <1>6, <1>7, <1>8, <1>10, <1>11, <1>15 DEF Inv, Types, Data

LEMMA IdleFacts ==
  /\ Idle \in Records
  /\ Idle.pc = "idle" /\ Idle.task = 0 /\ Idle.step = 0 /\ Idle.todo = <<>> /\ Idle.ref = 0
  /\ Idle.brings = "nothing" /\ Idle.hit = FALSE
BY DEF Idle, Records, Resting, Cargo

LEMMA StopKeeps ==
  ASSUME NEW prog, NEW place, NEW msg, NEW pub, NEW priv, NEW chal,
         Inv(prog, place, msg, pub, priv, chal),
         NEW p \in Parties, NEW x \in Threads(p), x[1] \in {"run", "disk", "out", "chal"},
         NEW open, Stop(p, x, open)
  PROVE  Inv(prog, place, msg, pub, priv, chal)'
<1> DEFINE o == thr[p][x]
           r == [Idle EXCEPT !.pc = "done"]
<1>1. /\ o.pc = "idle" /\ Do(p, x, r)
      /\ UNCHANGED <<runVars, slot, graphVars, diskVars, outVars, chalVars, endVars>>
  BY DEF Stop
<1>2. /\ r \in Records /\ r.pc = "done" /\ r.todo = <<>> /\ r.hit = FALSE
  BY IdleFacts DEF Records, Resting
<1> HIDE DEF r
<1>3. Types /\ NoPanic /\ Graph(prog, place) /\ Data(prog, msg, pub, priv, chal)
      /\ ThreadTypes /\ SharedTypes /\ Shapes /\ Conserved(prog)
  BY DEF Inv, Types, Graph
<1>4. Shape(p, x, r) /\ (x[1] = "run" => o.todo = <<>>)
  BY <1>1, <1>2, <1>3 DEF Shapes, Shape, RunShape, DiskShape, OutShape, ChalShape
<1>5. Moves(p, x, r) /\ ThreadTypes' /\ Shapes'
  BY <1>1, <1>2, <1>3, <1>4, MoveKeepsShape DEF Working
<1>6. SharedTypes' /\ NoPanic'
  BY <1>1, <1>3 DEF SharedTypes, NoPanic, runVars, graphVars, diskVars, outVars, chalVars, endVars
<1>7. Types'
  BY <1>5, <1>6 DEF Types
<1>8. SameWork(p, x, r)
  BY <1>1, <1>2, <1>4 DEF SameWork
<1>9. Graph(prog, place)'
  BY <1>1, <1>3, <1>5, <1>7, <1>8, GraphSame
<1>10. Plain(p, x, r)
  BY <1>1, <1>2, <1>5 DEF Plain
<1>11. Data(prog, msg, pub, priv, chal)'
  <2>1. UNCHANGED <<reads, cached, chalq, chalNet, outq, net>>
    BY <1>1 DEF diskVars, chalVars, outVars
  <2>2. Numbers(prog) /\ Grows(prog, prog)
    BY <1>3, DoneFacts, GrowsSame
  <2>3. SlotTable' /\ PublicData(prog, pub)' /\ PrivateData(prog, priv)'
           /\ Challenges(prog, chal)' /\ Causal(prog)'
    BY <1>1, <1>2, <1>3, <1>5, <1>10, <2>1, <2>2, DataPlain DEF BringsNo
  <2>4. Flights(prog, msg)'
    BY <1>1, <1>2, <1>3, <1>5, <1>10, <2>1, <2>2, FlightsPlain DEF BringsNo, Data
  <2> QED BY <2>3, <2>4 DEF Data
<1> QED BY <1>6, <1>7, <1>9, <1>11 DEF Inv

-----------------------------------------------------------------------------
(***************************************************************************)
(* The network threads.  A message that moves is in one place before and   *)
(* in another after, so nothing else of its task is under way.             *)
(***************************************************************************)
LEMMA UnderWayMoves ==
  ASSUME NEW prog, NEW msg, NEW p \in Parties, NEW t \in Tasks, NEW w
  PROVE  /\ \A q \in Parties : \A u \in Tasks : \A k, v :
              UnderWay(prog, msg, q, u, k, v) /\ (q # p \/ u # t) =>
                UnderWay(prog, Put(msg, p, t, w), q, u, k, v)
         /\ \A k, v : UnderWay(prog, msg, p, t, k, v) =>
                        v = msg[p][t] /\ UnderWay(prog, Put(msg, p, t, w), p, t, k, w)
<1>1. /\ Put(msg, p, t, w)[p][t] = w
      /\ \A q \in Parties : \A u \in Tasks :
           q # p \/ u # t => Put(msg, p, t, w)[q][u] = msg[q][u]
  BY PutFacts
<1> QED BY <1>1 DEF UnderWay

(* What the invariant says of the messages that p has sent. *)
SentBy(prog, msg, p) ==
  /\ \A i \in DOMAIN outq[p] :
       /\ UnderWay(prog, msg, p, outq[p][i].task, outq[p][i].round, InQueue)
       /\ \A j \in DOMAIN outq[p] : outq[p][i].task = outq[p][j].task => i = j
  /\ \A x \in Outs : thr[p][x].pc = "write" =>
       UnderWay(prog, msg, p, thr[p][x].task, thr[p][x].step, OnThread(x))
  /\ \A c \in 1 .. NumConns : \A i \in DOMAIN net[p][c] :
       /\ UnderWay(prog, msg, p, net[p][c][i].task, net[p][c][i].round, OnNet(c))
       /\ \A j \in DOMAIN net[p][c] : net[p][c][i].task = net[p][c][j].task => i = j
  /\ \A x \in Ins : thr[Peer(p)][x].pc \in {"getslot", "update"} =>
       UnderWay(prog, msg, p, thr[Peer(p)][x].task, thr[Peer(p)][x].step, OnThread(x))
  /\ \A t \in Tasks : slot[Peer(p)][t].inc >= 0 =>
       UnderWay(prog, msg, p, t, slot[Peer(p)][t].inc, InSlot)

LEMMA FlightsBySender ==
  \A prog, msg : /\ Flights(prog, msg) <=> \A p \in Parties : SentBy(prog, msg, p)
                 /\ Flights(prog, msg)' <=> \A p \in Parties : SentBy(prog, msg, p)'
BY DEF Flights, SentBy

(* A step of a disk, network or challenge thread moves no stage.           *)
LEMMA HelperStep ==
  ASSUME NEW prog, NEW place, NEW msg, NEW pub, NEW priv, NEW chal,
         Inv(prog, place, msg, pub, priv, chal),
         NEW p \in Parties, NEW x \in Threads(p), x[1] \notin {"run", "main"},
         NEW r \in Records, Do(p, x, r), r.pc \in Working => r.task \in Tasks, Shape(p, x, r),
         SharedTypes', UNCHANGED <<runVars, graphVars, panicked>>,
         \A q \in Parties : \A t \in Tasks : slot'[q][t].req = slot[q][t].req
  PROVE  Moves(p, x, r) /\ Types' /\ NoPanic' /\ Graph(prog, place)'
<1>1. Types /\ ThreadTypes /\ Shapes /\ NoPanic /\ Graph(prog, place)
  BY DEF Inv, Types
<1>2. Moves(p, x, r) /\ ThreadTypes' /\ Shapes'
  BY <1>1, MoveKeepsShape
<1>3. Types' /\ NoPanic'
  BY <1>1, <1>2 DEF Types, NoPanic
<1>4. SameWork(p, x, r)
  BY DEF SameWork
<1> QED BY <1>1, <1>2, <1>3, <1>4, GraphSame

LEMMA TakeOutgoingKeeps ==
  ASSUME NEW prog, NEW place, NEW msg, NEW pub, NEW priv, NEW chal,
         Inv(prog, place, msg, pub, priv, chal),
         NEW p \in Parties, NEW x \in Outs, TakeOutgoing(p, x)
  PROVE  IInv'
<1>2. Types /\ NoPanic /\ Graph(prog, place) /\ Data(prog, msg, pub, priv, chal)
      /\ ThreadTypes /\ SharedTypes /\ Shapes /\ Conserved(prog) /\ Flights(prog, msg)
  BY DEF Inv, Types, Graph, Data
<1>3. outq \in [Parties -> Seq(Messages)] /\ outq[p] \in Seq(Messages) /\ outq[p] # <<>>
  BY <1>2 DEF SharedTypes, TakeOutgoing
<1>m. PICK m \in Messages : m = Head(outq[p])
  BY <1>3, TailFacts
<1> DEFINE t == m.task
           r == [Idle EXCEPT !.pc = "write", !.task = t, !.step = m.round]
           msg2 == Put(msg, p, t, OnThread(x))
<1>1. /\ thr[p][x].pc = "idle" /\ outq[p] # <<>> /\ Do(p, x, r)
      /\ outq' = [outq EXCEPT ![p] = Tail(outq[p])]
      /\ UNCHANGED <<runVars, slot, graphVars, diskVars, outOpen, net, chalVars, endVars>>
  BY <1>m DEF TakeOutgoing, At, Dequeued
<1>4. m \in Messages /\ t \in Tasks /\ m.round \in Nat
  BY DEF Messages
<1>5. x \in Threads(p) /\ x[1] = "out"
  BY KindFacts
<1> HIDE DEF t
<1>6. /\ r \in Records /\ r.pc = "write" /\ r.task = t /\ r.step = m.round /\ r.todo = <<>>
  BY <1>4, IdleFacts, TasksFinite DEF Records, Working
<1> HIDE DEF r
<1>7. Shape(p, x, r)
  BY <1>5, <1>6 DEF Shape, OutShape
<1>9. outq'[p] = Tail(outq[p]) /\ \A q \in Parties : q # p => outq'[q] = outq[q]
  BY <1>1, <1>3
<1>10. SharedTypes'
  <2>1. outq' \in [Parties -> Seq(Messages)]
    BY <1>1, <1>3, TailFacts
  <2>2. \A q \in Parties : Len(outq'[q]) <= OutCapacity
    <3>1. Len(outq[p]) <= OutCapacity /\ OutCapacity \in Nat
      BY <1>2, RunnerAssumption DEF SharedTypes
    <3>2. Len(outq'[p]) = Len(outq[p]) - 1 /\ Len(outq[p]) \in Nat
      BY <1>1, <1>3, <1>9, TailFacts
    <3>3. Len(outq'[p]) <= OutCapacity
      BY <3>1, <3>2
    <3> QED BY <1>2, <1>9, <3>3 DEF SharedTypes
  <2> QED
    BY <1>1, <1>2, <2>1, <2>2 DEF SharedTypes, runVars, graphVars, diskVars, chalVars, endVars
<1>8. Moves(p, x, r) /\ Types' /\ NoPanic' /\ Graph(prog, place)' /\ Shapes'
  <2>1. UNCHANGED <<runVars, graphVars, panicked, slot>>
    BY <1>1 DEF endVars
  <2>2. Moves(p, x, r) /\ Types' /\ NoPanic' /\ Graph(prog, place)'
    BY <1>1, <1>4, <1>5, <1>6, <1>7, <1>10, <2>1, HelperStep
  <2> QED BY <2>2 DEF Types
<1>13. Plain(p, x, r)
  BY <1>1, <1>6, <1>8 DEF Plain
<1>14. SlotTable' /\ PublicData(prog, pub)' /\ PrivateData(prog, priv)'
         /\ Challenges(prog, chal)' /\ Causal(prog)'
  <2>1. UNCHANGED <<reads, cached, chalq, chalNet>>
    BY <1>1 DEF diskVars, chalVars
  <2>2. Numbers(prog) /\ Grows(prog, prog)
    BY <1>2, DoneFacts, GrowsSame
  <2> QED BY <1>1, <1>2, <1>5, <1>6, <1>8, <1>13, <2>1, <2>2, DataPlain DEF BringsNo
<1>15. Flights(prog, msg2)'
  <2> SUFFICES ASSUME NEW q \in Parties PROVE SentBy(prog, msg2, q)'
    BY FlightsBySender
  <2>1. SentBy(prog, msg, q) /\ Peer(q) \in Parties
    BY <1>2, FlightsBySender, Peers
  <2>2. /\ \A y \in Ins : thr'[Peer(q)][y] = thr[Peer(q)][y]
        /\ \A y \in Outs : q # p \/ y # x => thr'[q][y] = thr[q][y]
        /\ slot' = slot /\ net' = net
    BY <1>1, <1>5, <1>8, <2>1, KindFacts DEF Moves
  <2>3. UnderWay(prog, msg, p, t, m.round, InQueue)
    BY <1>1, <1>2, <1>3, TailFacts, <1>m DEF Flights, t
  <2>4. /\ \A u \in Tasks : \A k, v :
             UnderWay(prog, msg, q, u, k, v) /\ v # InQueue => UnderWay(prog, msg2, q, u, k, v)
        /\ \A u \in Tasks : \A k, v :
             UnderWay(prog, msg, q, u, k, v) /\ (q # p \/ u # t) => UnderWay(prog, msg2, q, u, k, v)
        /\ UnderWay(prog, msg2, p, t, m.round, OnThread(x))
    BY <1>4, <2>3, UnderWayMoves
  <2> HIDE DEF msg2
  <2>5. \A i \in DOMAIN outq'[q] :
         /\ UnderWay(prog, msg2, q, outq'[q][i].task, outq'[q][i].round, InQueue)
         /\ \A j \in DOMAIN outq'[q] : outq'[q][i].task = outq'[q][j].task => i = j
    <3>1. CASE q # p
      BY <1>2, <1>9, <2>1, <2>4, <3>1, MessagesNamed DEF SentBy
    <3>2. CASE q = p
      <4> SUFFICES ASSUME NEW i \in DOMAIN Tail(outq[p])
                   PROVE
                     /\ UnderWay(prog, msg2, p, Tail(outq[p])[i].task, Tail(outq[p])[i].round, InQueue)
                     /\ \A j \in DOMAIN Tail(outq[p]) :
                          Tail(outq[p])[i].task = Tail(outq[p])[j].task => i = j
        BY <1>9, <3>2, ZenonT(40)
      <4>1. /\ \A j \in DOMAIN Tail(outq[p]) :
                 /\ j + 1 \in DOMAIN outq[p] /\ Tail(outq[p])[j] = outq[p][j + 1]
                 /\ j + 1 # 1 /\ j \in Nat
            /\ 1 \in DOMAIN outq[p] /\ outq[p][1] = m
        BY <1>1, <1>3, TailFacts, <1>m
      <4>2. \A j \in DOMAIN Tail(outq[p]) :
              Tail(outq[p])[i].task = Tail(outq[p])[j].task => i + 1 = j + 1
        BY <2>1, <3>2, <4>1 DEF SentBy
      <4>3. Tail(outq[p])[i].task # t /\ Tail(outq[p])[i].task \in Tasks
        BY <1>2, <2>1, <3>2, <4>1, MessagesNamed DEF SentBy, t
      <4>4. UnderWay(prog, msg, p, Tail(outq[p])[i].task, Tail(outq[p])[i].round, InQueue)
        BY <2>1, <3>2, <4>1 DEF SentBy
      <4>5. \A j \in DOMAIN Tail(outq[p]) : Tail(outq[p])[i].task = Tail(outq[p])[j].task => i = j
        <5>1. i \in Nat
          BY <4>1
        <5> QED BY <4>1, <4>2, <5>1
      <4> QED BY <2>4, <3>2, <4>3, <4>4, <4>5
    <3> QED BY <3>1, <3>2
  <2>6. \A y \in Outs : thr'[q][y].pc = "write" =>
          UnderWay(prog, msg2, q, thr'[q][y].task, thr'[q][y].step, OnThread(y))
    <3> SUFFICES ASSUME NEW y \in Outs, thr'[q][y].pc = "write"
                 PROVE  UnderWay(prog, msg2, q, thr'[q][y].task, thr'[q][y].step, OnThread(y))
      OBVIOUS
    <3>1. CASE q = p /\ y = x
      BY <1>6, <1>8, <2>4, <3>1 DEF Moves
    <3>2. CASE q # p \/ y # x
      BY <1>2, <2>1, <2>2, <2>4, <3>2, PlaceFacts, MessagesNamed, KindFacts DEF SentBy
    <3> QED BY <3>1, <3>2
  <2>7. \A c \in 1 .. NumConns : \A i \in DOMAIN net[q][c] :
         /\ UnderWay(prog, msg2, q, net[q][c][i].task, net[q][c][i].round, OnNet(c))
         /\ \A j \in DOMAIN net[q][c] : net[q][c][i].task = net[q][c][j].task => i = j
    BY <1>2, <2>1, <2>4, PlaceFacts, MessagesNamed DEF SentBy
  <2>8. \A y \in Ins : thr'[Peer(q)][y].pc \in {"getslot", "update"} =>
         UnderWay(prog, msg2, q, thr'[Peer(q)][y].task, thr'[Peer(q)][y].step, OnThread(y))
    BY <1>2, <2>1, <2>2, <2>4, PlaceFacts, MessagesNamed, KindFacts DEF SentBy
  <2>9. \A u \in Tasks : slot[Peer(q)][u].inc >= 0 =>
         UnderWay(prog, msg2, q, u, slot[Peer(q)][u].inc, InSlot)
    BY <1>2, <2>1, <2>4, PlaceFacts DEF SentBy
  <2>10. \A u, k, v : UnderWay(prog, msg2, q, u, k, v)' <=> UnderWay(prog, msg2, q, u, k, v)
    BY DEF UnderWay
  <2> QED BY <2>2, <2>5, <2>6, <2>7, <2>8, <2>9, <2>10 DEF SentBy
<1>16. Inv(prog, place, msg2, pub, priv, chal)'
  BY <1>8, <1>14, <1>15 DEF Inv, Data
<1> QED BY <1>16 DEF IInv

LEMMA AppendFacts ==
  ASSUME NEW S, NEW s \in Seq(S), NEW e \in S
  PROVE  /\ Append(s, e) \in Seq(S) /\ Len(s) \in Nat /\ Len(Append(s, e)) = Len(s) + 1
         /\ Len(s) + 1 \in DOMAIN Append(s, e) /\ Append(s, e)[Len(s) + 1] = e
         /\ \A i \in DOMAIN s : i \in DOMAIN Append(s, e) /\ Append(s, e)[i] = s[i]
         /\ \A i \in DOMAIN Append(s, e) : i \in DOMAIN s \/ i = Len(s) + 1
OBVIOUS

LEMMA WriteOutgoingKeeps ==
  ASSUME NEW prog, NEW place, NEW msg, NEW pub, NEW priv, NEW chal,
         Inv(prog, place, msg, pub, priv, chal),
         NEW p \in Parties, NEW x \in Outs, WriteOutgoing(p, x)
  PROVE  IInv'
<1>1. Types /\ NoPanic /\ Graph(prog, place) /\ Data(prog, msg, pub, priv, chal)
      /\ ThreadTypes /\ SharedTypes /\ Shapes /\ Conserved(prog) /\ Flights(prog, msg)
  BY DEF Inv, Types, Graph, Data
<1>2. x \in Threads(p) /\ x[1] = "out" /\ x[2] \in 1 .. NumConns
  BY KindFacts DEF Outs
<1>3. thr[p][x].pc = "write" /\ thr[p][x].task \in Tasks /\ thr[p][x].step \in Nat
  BY <1>1, <1>2, MessagesNamed DEF WriteOutgoing, At
<1>4. PICK t \in Tasks : t = thr[p][x].task
  BY <1>3
<1>5. PICK k \in Nat : k = thr[p][x].step
  BY <1>3
<1> DEFINE m == [task |-> t, round |-> k]
           c == x[2]
           msg2 == Put(msg, p, t, OnNet(c))
<1>6. /\ Do(p, x, Idle) /\ net' = [net EXCEPT ![p][c] = Append(net[p][c], m)]
      /\ UNCHANGED <<runVars, slot, graphVars, diskVars, outq, outOpen, chalVars, endVars>>
  BY <1>1, <1>2, <1>4, <1>5 DEF WriteOutgoing, SharedTypes
<1>7. m \in Messages /\ m.task = t /\ m.round = k
  BY DEF Messages
<1> HIDE DEF m
<1>8. /\ net[p][c] \in Seq(Messages) /\ net'[p][c] = Append(net[p][c], m)
      /\ \A q \in Parties : \A d \in 1 .. NumConns : q # p \/ d # c => net'[q][d] = net[q][d]
      /\ net' \in [Parties -> [1 .. NumConns -> Seq(Messages)]]
  <2>1. net \in [Parties -> [1 .. NumConns -> Seq(Messages)]] /\ net[p][c] \in Seq(Messages)
    BY <1>1, <1>2 DEF SharedTypes
  <2>2. Append(net[p][c], m) \in Seq(Messages)
    BY <1>7, <2>1, AppendFacts
  <2> HIDE DEF c
  <2> QED BY <1>2, <1>6, <2>1, <2>2 DEF c
<1>9. SharedTypes'
  BY <1>1, <1>6, <1>8 DEF SharedTypes, runVars, graphVars, diskVars, chalVars, endVars
<1>10. Moves(p, x, Idle) /\ Types' /\ NoPanic' /\ Graph(prog, place)' /\ Shapes'
  <2>1. UNCHANGED <<runVars, graphVars, panicked, slot>>
    BY <1>6 DEF endVars
  <2>2. Shape(p, x, Idle) /\ Idle \in Records /\ Idle.pc \notin Working
    BY <1>2, IdleFacts DEF Shape, OutShape, Working
  <2>3. Moves(p, x, Idle) /\ Types' /\ NoPanic' /\ Graph(prog, place)'
    BY <1>2, <1>6, <1>9, <2>1, <2>2, HelperStep
  <2> QED BY <2>3 DEF Types
<1>11. SlotTable' /\ PublicData(prog, pub)' /\ PrivateData(prog, priv)'
         /\ Challenges(prog, chal)' /\ Causal(prog)'
  <2>1. UNCHANGED <<reads, cached, chalq, chalNet, slot>>
    BY <1>6 DEF diskVars, chalVars
  <2>2. Numbers(prog) /\ Grows(prog, prog)
    BY <1>1, DoneFacts, GrowsSame
  <2>3. Plain(p, x, Idle)
    BY <1>3, <1>10, IdleFacts DEF Plain
  <2> QED BY <1>1, <1>2, <1>10, <2>1, <2>2, <2>3, DataPlain, IdleFacts DEF BringsNo
<1>12. Flights(prog, msg2)'
  <2> SUFFICES ASSUME NEW q \in Parties PROVE SentBy(prog, msg2, q)'
    BY FlightsBySender
  <2>1. SentBy(prog, msg, q) /\ Peer(q) \in Parties
    BY <1>1, FlightsBySender, Peers
  <2>2. /\ \A y \in Ins : thr'[Peer(q)][y] = thr[Peer(q)][y]
        /\ \A y \in Outs : q # p \/ y # x => thr'[q][y] = thr[q][y]
        /\ slot' = slot /\ outq' = outq
    BY <1>2, <1>6, <1>10, <2>1, KindFacts DEF Moves
  <2>3. UnderWay(prog, msg, p, t, k, OnThread(x))
    BY <1>1, <1>3, <1>4, <1>5 DEF Flights
  <2>4. /\ \A u \in Tasks : \A j, v :
             UnderWay(prog, msg, q, u, j, v) /\ v # OnThread(x) => UnderWay(prog, msg2, q, u, j, v)
        /\ \A u \in Tasks : \A j, v :
             UnderWay(prog, msg, q, u, j, v) /\ (q # p \/ u # t) => UnderWay(prog, msg2, q, u, j, v)
        /\ UnderWay(prog, msg2, p, t, k, OnNet(c))
        /\ q = p => \A j, v : UnderWay(prog, msg, q, t, j, v) => v = OnThread(x)
    <3>1. \A j, v : UnderWay(prog, msg, p, t, j, v) => v = OnThread(x)
      BY <2>3, UnderWayMoves
    <3>2. \A u \in Tasks : \A j, v :
             UnderWay(prog, msg, q, u, j, v) /\ (q # p \/ u # t) => UnderWay(prog, msg2, q, u, j, v)
      BY UnderWayMoves
    <3>3. UnderWay(prog, msg2, p, t, k, OnNet(c))
      BY <2>3, UnderWayMoves
    <3> HIDE DEF msg2
    <3> QED BY <3>1, <3>2, <3>3
  <2> HIDE DEF msg2
  <2>5. \A i \in DOMAIN outq[q] :
         /\ UnderWay(prog, msg2, q, outq[q][i].task, outq[q][i].round, InQueue)
         /\ \A j \in DOMAIN outq[q] : outq[q][i].task = outq[q][j].task => i = j
    BY <1>1, <2>1, <2>4, PlaceFacts, MessagesNamed DEF SentBy
  <2>6. \A y \in Outs : thr'[q][y].pc = "write" =>
          UnderWay(prog, msg2, q, thr'[q][y].task, thr'[q][y].step, OnThread(y))
    <3> SUFFICES ASSUME NEW y \in Outs, thr'[q][y].pc = "write"
                 PROVE  UnderWay(prog, msg2, q, thr'[q][y].task, thr'[q][y].step, OnThread(y))
      OBVIOUS
    <3>1. q # p \/ y # x
      BY <1>10, IdleFacts DEF Moves
    <3>2. /\ thr'[q][y] = thr[q][y] /\ thr[q][y].task \in Tasks
          /\ UnderWay(prog, msg, q, thr[q][y].task, thr[q][y].step, OnThread(y))
      BY <1>1, <2>1, <2>2, <3>1, MessagesNamed, KindFacts DEF SentBy
    <3>3. q # p \/ thr[q][y].task # t
      BY <2>4, <3>1, <3>2, PlaceFacts
    <3> QED BY <2>4, <3>2, <3>3
  <2>7. \A d \in 1 .. NumConns : \A i \in DOMAIN net'[q][d] :
         /\ UnderWay(prog, msg2, q, net'[q][d][i].task, net'[q][d][i].round, OnNet(d))
         /\ \A j \in DOMAIN net'[q][d] : net'[q][d][i].task = net'[q][d][j].task => i = j
    <3> SUFFICES ASSUME NEW d \in 1 .. NumConns
                 PROVE  \A i \in DOMAIN net'[q][d] :
         /\ UnderWay(prog, msg2, q, net'[q][d][i].task, net'[q][d][i].round, OnNet(d))
         /\ \A j \in DOMAIN net'[q][d] : net'[q][d][i].task = net'[q][d][j].task => i = j
      OBVIOUS
    <3>1. \A i \in DOMAIN net[q][d] :
            /\ UnderWay(prog, msg2, q, net[q][d][i].task, net[q][d][i].round, OnNet(d))
            /\ \A j \in DOMAIN net[q][d] : net[q][d][i].task = net[q][d][j].task => i = j
            /\ q = p => net[q][d][i].task # t
      BY <1>1, <2>1, <2>4, PlaceFacts, MessagesNamed DEF SentBy
    <3>2. CASE q # p \/ d # c
      BY <1>8, <3>1, <3>2
    <3>3. CASE q = p /\ d = c
      <4>1. /\ Append(net[p][c], m)[Len(net[p][c]) + 1] = m
            /\ \A i \in DOMAIN net[p][c] : Append(net[p][c], m)[i] = net[p][c][i]
            /\ \A i \in DOMAIN Append(net[p][c], m) : i \in DOMAIN net[p][c] \/ i = Len(net[p][c]) + 1
        BY <1>7, <1>8, AppendFacts
      <4>2. \A i \in DOMAIN net'[q][d] :
              \/ i \in DOMAIN net[q][d] /\ net'[q][d][i] = net[q][d][i]
              \/ i = Len(net[p][c]) + 1 /\ net'[q][d][i] = m
        BY <1>8, <3>3, <4>1
      <4>3. \A i \in DOMAIN net'[q][d] :
              UnderWay(prog, msg2, q, net'[q][d][i].task, net'[q][d][i].round, OnNet(d))
        BY <1>7, <2>4, <3>1, <3>3, <4>2
      <4>4. \A i, j \in DOMAIN net'[q][d] : net'[q][d][i].task = net'[q][d][j].task => i = j
        BY <1>7, <3>1, <3>3, <4>2
      <4> QED BY <4>3, <4>4
    <3> QED BY <3>2, <3>3
  <2>8. \A y \in Ins : thr'[Peer(q)][y].pc \in {"getslot", "update"} =>
         UnderWay(prog, msg2, q, thr'[Peer(q)][y].task, thr'[Peer(q)][y].step, OnThread(y))
    <3> SUFFICES ASSUME NEW y \in Ins, thr[Peer(q)][y].pc \in {"getslot", "update"}
                 PROVE  UnderWay(prog, msg2, q, thr[Peer(q)][y].task, thr[Peer(q)][y].step, OnThread(y))
      BY <2>2
    <3>1. y \in Threads(Peer(q)) /\ y # x
      BY <1>2, <2>1, KindFacts
    <3> QED BY <1>1, <2>1, <2>4, <3>1, PlaceFacts, MessagesNamed DEF SentBy
  <2>9. \A u \in Tasks : slot[Peer(q)][u].inc >= 0 =>
         UnderWay(prog, msg2, q, u, slot[Peer(q)][u].inc, InSlot)
    BY <1>1, <2>1, <2>4, PlaceFacts DEF SentBy
  <2>10. \A u, j, v : UnderWay(prog, msg2, q, u, j, v)' <=> UnderWay(prog, msg2, q, u, j, v)
    BY DEF UnderWay, msg2
  <2> QED BY <2>2, <2>5, <2>6, <2>7, <2>8, <2>9, <2>10 DEF SentBy
<1>13. Inv(prog, place, msg2, pub, priv, chal)'
  BY <1>10, <1>11, <1>12 DEF Inv, Data
<1> QED BY <1>13 DEF IInv

LEMMA ReadIncomingKeeps ==
  ASSUME NEW prog, NEW place, NEW msg, NEW pub, NEW priv, NEW chal,
         Inv(prog, place, msg, pub, priv, chal),
         NEW o \in Parties, NEW x \in Ins, ReadIncoming(o, x)
  PROVE  IInv'
<1> DEFINE p == Peer(o)
           c == x[2]
<1>1. Types /\ NoPanic /\ Graph(prog, place) /\ Data(prog, msg, pub, priv, chal)
      /\ ThreadTypes /\ SharedTypes /\ Shapes /\ Conserved(prog) /\ Flights(prog, msg)
  BY DEF Inv, Types, Graph, Data
<1>2. x \in Threads(o) /\ x[1] = "in" /\ c \in 1 .. NumConns
      /\ p \in Parties /\ p # o /\ Peer(p) = o
  BY KindFacts, Peers DEF Ins
<1>3. net[p][c] \in Seq(Messages) /\ net[p][c] # <<>>
  BY <1>1, <1>2 DEF SharedTypes, ReadIncoming
<1>4. PICK m \in Messages : m = Head(net[p][c])
  BY <1>3, TailFacts
<1> DEFINE t == m.task
           r == [Idle EXCEPT !.pc = "getslot", !.task = t, !.step = m.round, !.brings = "incoming"]
           msg2 == Put(msg, p, t, OnThread(x))
<1>5. /\ thr[o][x].pc = "idle" /\ Do(o, x, r)
      /\ net' = [net EXCEPT ![p][c] = Tail(net[p][c])]
      /\ UNCHANGED <<runVars, slot, graphVars, diskVars, outq, outOpen, chalVars, endVars>>
  BY <1>4 DEF ReadIncoming, At
<1>6. t \in Tasks /\ m.round \in Nat
  BY DEF Messages
<1> HIDE DEF t, p, c
<1>7. /\ r \in Records /\ r.pc = "getslot" /\ r.task = t /\ r.step = m.round
      /\ r.brings = "incoming"
  BY <1>6, IdleFacts, TasksFinite DEF Records, Working, Cargo
<1> HIDE DEF r
<1>8. /\ net'[p][c] = Tail(net[p][c])
      /\ \A q \in Parties : \A d \in 1 .. NumConns : q # p \/ d # c => net'[q][d] = net[q][d]
      /\ net' \in [Parties -> [1 .. NumConns -> Seq(Messages)]]
  <2>1. net \in [Parties -> [1 .. NumConns -> Seq(Messages)]]
    BY <1>1 DEF SharedTypes
  <2>2. Tail(net[p][c]) \in Seq(Messages)
    BY <1>3, TailFacts
  <2> QED BY <1>2, <1>5, <2>1, <2>2
<1>9. SharedTypes'
  BY <1>1, <1>5, <1>8 DEF SharedTypes, runVars, graphVars, diskVars, chalVars, endVars
<1>10. Moves(o, x, r) /\ Types' /\ NoPanic' /\ Graph(prog, place)' /\ Shapes'
  <2>1. UNCHANGED <<runVars, graphVars, panicked, slot>>
    BY <1>5 DEF endVars
  <2>2. Shape(o, x, r)
    BY <1>2, <1>7 DEF Shape, InShape
  <2>3. Moves(o, x, r) /\ Types' /\ NoPanic' /\ Graph(prog, place)'
    BY <1>2, <1>5, <1>6, <1>7, <1>9, <2>1, <2>2, HelperStep
  <2> QED BY <2>3 DEF Types
<1>11. SlotTable' /\ PublicData(prog, pub)' /\ PrivateData(prog, priv)'
         /\ Challenges(prog, chal)' /\ Causal(prog)'
  <2>1. UNCHANGED <<reads, cached, chalq, chalNet, slot>>
    BY <1>5 DEF diskVars, chalVars
  <2>2. Numbers(prog) /\ Grows(prog, prog)
    BY <1>1, DoneFacts, GrowsSame
  <2>3. Plain(o, x, r)
    BY <1>5, <1>7, <1>10 DEF Plain
  <2> QED BY <1>1, <1>2, <1>7, <1>10, <2>1, <2>2, <2>3, DataPlain DEF BringsNo
<1>12. Flights(prog, msg2)'
  <2> SUFFICES ASSUME NEW q \in Parties PROVE SentBy(prog, msg2, q)'
    BY FlightsBySender
  <2>1. SentBy(prog, msg, q) /\ Peer(q) \in Parties /\ (Peer(q) = o => q = p)
    BY <1>1, <1>2, FlightsBySender, Peers
  <2>2. /\ \A y \in Ins : Peer(q) # o \/ y # x => thr'[Peer(q)][y] = thr[Peer(q)][y]
        /\ \A y \in Outs : thr'[q][y] = thr[q][y]
        /\ slot' = slot /\ outq' = outq
    BY <1>2, <1>5, <1>10, <2>1, KindFacts DEF Moves
  <2>3. UnderWay(prog, msg, p, t, m.round, OnNet(c)) /\ 1 \in DOMAIN net[p][c] /\ net[p][c][1] = m
    BY <1>1, <1>2, <1>3, <1>4, TailFacts DEF Flights, t
  <2>4. /\ \A u \in Tasks : \A j, v :
             UnderWay(prog, msg, q, u, j, v) /\ v # OnNet(c) => UnderWay(prog, msg2, q, u, j, v)
        /\ \A u \in Tasks : \A j, v :
             UnderWay(prog, msg, q, u, j, v) /\ (q # p \/ u # t) => UnderWay(prog, msg2, q, u, j, v)
        /\ UnderWay(prog, msg2, p, t, m.round, OnThread(x))
        /\ q = p => \A j, v : UnderWay(prog, msg, q, t, j, v) => v = OnNet(c)
    <3>1. \A j, v : UnderWay(prog, msg, p, t, j, v) => v = OnNet(c)
      BY <2>3 DEF UnderWay
    <3>2. \A u \in Tasks : \A j, v :
             UnderWay(prog, msg, q, u, j, v) /\ (q # p \/ u # t) => UnderWay(prog, msg2, q, u, j, v)
      BY <1>2, <1>6, UnderWayMoves
    <3>3. UnderWay(prog, msg2, p, t, m.round, OnThread(x))
      BY <1>2, <1>6, <2>3, UnderWayMoves
    <3> HIDE DEF msg2
    <3> QED BY <3>1, <3>2, <3>3
  <2> HIDE DEF msg2
  <2>5. \A i \in DOMAIN outq[q] :
         /\ UnderWay(prog, msg2, q, outq[q][i].task, outq[q][i].round, InQueue)
         /\ \A j \in DOMAIN outq[q] : outq[q][i].task = outq[q][j].task => i = j
    BY <1>1, <2>1, <2>4, PlaceFacts, MessagesNamed DEF SentBy
  <2>6. \A y \in Outs : thr'[q][y].pc = "write" =>
          UnderWay(prog, msg2, q, thr'[q][y].task, thr'[q][y].step, OnThread(y))
    BY <1>1, <2>1, <2>2, <2>4, PlaceFacts, MessagesNamed, KindFacts DEF SentBy
  <2>7. \A d \in 1 .. NumConns : \A i \in DOMAIN net'[q][d] :
         /\ UnderWay(prog, msg2, q, net'[q][d][i].task, net'[q][d][i].round, OnNet(d))
         /\ \A j \in DOMAIN net'[q][d] : net'[q][d][i].task = net'[q][d][j].task => i = j
    <3> SUFFICES ASSUME NEW d \in 1 .. NumConns
                 PROVE  \A i \in DOMAIN net'[q][d] :
         /\ UnderWay(prog, msg2, q, net'[q][d][i].task, net'[q][d][i].round, OnNet(d))
         /\ \A j \in DOMAIN net'[q][d] : net'[q][d][i].task = net'[q][d][j].task => i = j
      OBVIOUS
    <3>1. \A i \in DOMAIN net[q][d] :
            /\ UnderWay(prog, msg, q, net[q][d][i].task, net[q][d][i].round, OnNet(d))
            /\ \A j \in DOMAIN net[q][d] : net[q][d][i].task = net[q][d][j].task => i = j
            /\ net[q][d][i].task \in Tasks
      BY <1>1, <2>1, MessagesNamed DEF SentBy
    <3>2. CASE q # p \/ d # c
      <4>1. \A i \in DOMAIN net[q][d] : q # p \/ net[q][d][i].task # t
        BY <2>4, <3>1, <3>2, PlaceFacts
      <4> QED BY <1>8, <2>4, <3>1, <3>2, <4>1
    <3>3. CASE q = p /\ d = c
      <4> DEFINE s == Tail(net[p][c])
      <4>1. \A i \in DOMAIN s : i + 1 \in DOMAIN net[p][c] /\ s[i] = net[p][c][i + 1] /\ i + 1 # 1
                                  /\ i \in Nat
        BY <1>3, TailFacts
      <4>2. net'[q][d] = s
        BY <1>8, <3>3
      <4> HIDE DEF s
      <4>3. \A i \in DOMAIN s : s[i].task # t
        BY <2>3, <3>1, <3>3, <4>1 DEF t
      <4>4. \A i \in DOMAIN s : UnderWay(prog, msg2, q, s[i].task, s[i].round, OnNet(d))
        BY <2>4, <3>1, <3>3, <4>1, <4>3
      <4>5. ASSUME NEW i \in DOMAIN s, NEW j \in DOMAIN s, s[i].task = s[j].task PROVE i = j
        <5>1. i + 1 = j + 1 /\ i \in Nat /\ j \in Nat
          BY <3>1, <3>3, <4>1, <4>5
        <5> QED BY <5>1
      <4> QED BY <4>2, <4>4, <4>5
    <3> QED BY <3>2, <3>3
  <2>8. \A y \in Ins : thr'[Peer(q)][y].pc \in {"getslot", "update"} =>
         UnderWay(prog, msg2, q, thr'[Peer(q)][y].task, thr'[Peer(q)][y].step, OnThread(y))
    <3> SUFFICES ASSUME NEW y \in Ins, thr'[Peer(q)][y].pc \in {"getslot", "update"}
                 PROVE  UnderWay(prog, msg2, q, thr'[Peer(q)][y].task, thr'[Peer(q)][y].step, OnThread(y))
      OBVIOUS
    <3>1. CASE Peer(q) = o /\ y = x
      BY <1>7, <1>10, <2>1, <2>4, <3>1 DEF Moves
    <3>2. CASE Peer(q) # o \/ y # x
      <4>1. y \in Threads(Peer(q)) /\ thr'[Peer(q)][y] = thr[Peer(q)][y]
        BY <2>1, <2>2, <3>2, KindFacts
      <4> QED BY <1>1, <2>1, <2>4, <4>1, PlaceFacts, MessagesNamed DEF SentBy
    <3> QED BY <3>1, <3>2
  <2>9. \A u \in Tasks : slot[Peer(q)][u].inc >= 0 =>
         UnderWay(prog, msg2, q, u, slot[Peer(q)][u].inc, InSlot)
    BY <1>1, <2>1, <2>4, PlaceFacts DEF SentBy
  <2>10. \A u, j, v : UnderWay(prog, msg2, q, u, j, v)' <=> UnderWay(prog, msg2, q, u, j, v)
    BY DEF UnderWay, msg2
  <2> QED BY <2>2, <2>5, <2>6, <2>7, <2>8, <2>9, <2>10 DEF SentBy
<1>13. Inv(prog, place, msg2, pub, priv, chal)'
  BY <1>10, <1>11, <1>12 DEF Inv, Data
<1> QED BY <1>13 DEF IInv

-----------------------------------------------------------------------------
(***************************************************************************)
(* The challenge and disk threads.                                         *)
(***************************************************************************)
(* A challenge or a read that moves: chal, pub or priv changed for a task. *)
LEMMA ChallengeMoves ==
  ASSUME NEW prog, NEW chal, NEW t \in Tasks, NEW w, NEW w1, w1 # w,
         ChallengeAt(prog, chal, t, w1)
  PROVE  LET chal2 == [u \in Tasks |-> IF u = t THEN w ELSE chal[u]]
         IN  /\ ChallengeAt(prog, chal2, t, w)
             /\ \A u \in Tasks : \A v : ChallengeAt(prog, chal, u, v) /\ v # w1 =>
                  ChallengeAt(prog, chal2, u, v)
             /\ \A u \in Tasks : \A v : ChallengeAt(prog, chal, u, v) /\ u # t =>
                  ChallengeAt(prog, chal2, u, v)
BY DEF ChallengeAt

LEMMA SendChallengeKeeps ==
  ASSUME NEW prog, NEW place, NEW msg, NEW pub, NEW priv, NEW chal,
         Inv(prog, place, msg, pub, priv, chal), SendChallenge
  PROVE  IInv'
<1>1. Types /\ NoPanic /\ Graph(prog, place) /\ Data(prog, msg, pub, priv, chal)
      /\ ThreadTypes /\ SharedTypes /\ Shapes /\ Conserved(prog) /\ Flights(prog, msg)
      /\ Challenges(prog, chal)
  BY DEF Inv, Types, Graph, Data
<1>2. /\ chalq # <<>> /\ chalq' = Tail(chalq) /\ chalNet' = Append(chalNet, Head(chalq))
      /\ UNCHANGED <<thr, runVars, slot, graphVars, diskVars, outVars, chalOpen, endVars>>
      /\ chalq \in Seq(Tasks) /\ chalNet \in Seq(Tasks)
  BY <1>1 DEF SendChallenge, SharedTypes
<1>3. PICK t \in Tasks : t = Head(chalq)
  BY <1>2, TailFacts
<1> DEFINE chal2 == [u \in Tasks |-> IF u = t THEN OnNet(0) ELSE chal[u]]
<1>4. SharedTypes'
  <2>1. chalq' \in Seq(Tasks) /\ chalNet' \in Seq(Tasks)
    BY <1>2, <1>3, TailFacts, AppendFacts
  <2> QED
    BY <1>1, <1>2, <2>1 DEF SharedTypes, runVars, graphVars, diskVars, outVars, endVars
<1>5. Types' /\ NoPanic'
  BY <1>1, <1>2, <1>4 DEF Types, ThreadTypes, Shapes, NoPanic, endVars
<1>6. Graph(prog, place)'
  <2>1. UNCHANGED <<thr, runQueue, runOpen, slot, deps, left, held, remaining, noTasks>>
    BY <1>2 DEF runVars, graphVars
  <2>2. Launched(prog, place)'
    BY <1>1, <2>1 DEF Graph, Launched, StageAt, Stands
  <2>3. Conserved(prog)'
    BY <1>1, <2>1 DEF Conserved, Carries, InTodo
  <2>4. Counts(prog)'
    <3>1. \A p, u : Pending(p, u)' = Pending(p, u)
      BY <2>1 DEF Pending
    <3>2. \A p, x : Notifying(p, x)' <=> Notifying(p, x)
      BY <2>1 DEF Notifying
    <3> QED BY <1>1, <1>2, <2>1, <3>1, <3>2, CountsSame DEF Graph
  <2>5. Closing'
    BY <1>1, <2>1 DEF Graph, Closing
  <2> QED BY <2>2, <2>3, <2>4, <2>5 DEF Graph
<1>7. SlotTable' /\ PublicData(prog, pub)' /\ PrivateData(prog, priv)' /\ Flights(prog, msg)'
        /\ Causal(prog)'
  <2>1. UNCHANGED <<thr, slot, reads, cached, outq, net>>
    BY <1>2 DEF diskVars, outVars
  <2>2. SlotTable'
    BY <1>1, <2>1 DEF Data, SlotTable, Blank
  <2>3. PublicData(prog, pub)'
    BY <1>1, <2>1 DEF Data, PublicData, PublicAt, Brings, Requests
  <2>4. PrivateData(prog, priv)'
    BY <1>1, <2>1 DEF Data, PrivateData, PrivateAt, Brings
  <2>5. Flights(prog, msg)'
    BY <1>1, <2>1 DEF Flights, UnderWay
  <2>6. Causal(prog)'
    BY <1>1 DEF Data, Causal
  <2> QED BY <2>2, <2>3, <2>4, <2>5, <2>6
<1>8. Challenges(prog, chal2)'
  <2>1. ChallengeAt(prog, chal, t, InQueue) /\ 1 \in DOMAIN chalq /\ chalq[1] = t
    BY <1>1, <1>2, <1>3, TailFacts DEF Challenges
  <2>2. /\ ChallengeAt(prog, chal2, t, OnNet(0))
        /\ \A u \in Tasks : \A v : ChallengeAt(prog, chal, u, v) /\ v # InQueue =>
             ChallengeAt(prog, chal2, u, v)
        /\ \A u \in Tasks : \A v : ChallengeAt(prog, chal, u, v) /\ u # t =>
             ChallengeAt(prog, chal2, u, v)
    BY <2>1, PlaceFacts, ChallengeMoves
  <2>3. \A v : ChallengeAt(prog, chal, t, v) => v = InQueue
    BY <2>1 DEF ChallengeAt
  <2>4. \A u, v : ChallengeAt(prog, chal2, u, v)' <=> ChallengeAt(prog, chal2, u, v)
    BY DEF ChallengeAt
  <2> HIDE DEF chal2
  <2>5. NoTwice(chalq') /\ \A i \in DOMAIN chalq' : ChallengeAt(prog, chal2, chalq'[i], InQueue)
    <3>1. \A i \in DOMAIN chalq' : /\ i + 1 \in DOMAIN chalq /\ chalq'[i] = chalq[i + 1]
                                   /\ i + 1 # 1 /\ i \in Nat
      BY <1>2, TailFacts
    <3>2. \A i, j \in DOMAIN chalq : chalq[i] = chalq[j] => i = j
      BY <1>1 DEF Challenges, NoTwice
    <3>3. \A i \in DOMAIN chalq' : chalq'[i] # t /\ chalq'[i] \in Tasks
      BY <1>2, <2>1, <3>1, <3>2
    <3>4. \A i \in DOMAIN chalq' : ChallengeAt(prog, chal, chalq'[i], InQueue)
      BY <1>1, <3>1 DEF Challenges
    <3>5. ASSUME NEW i \in DOMAIN chalq', NEW j \in DOMAIN chalq', chalq'[i] = chalq'[j]
          PROVE  i = j
      <4>1. i + 1 = j + 1 /\ i \in Nat /\ j \in Nat
        BY <3>1, <3>2, <3>5
      <4> QED BY <4>1
    <3> QED BY <2>2, <3>3, <3>4, <3>5 DEF NoTwice
  <2>6. NoTwice(chalNet') /\ \A i \in DOMAIN chalNet' : ChallengeAt(prog, chal2, chalNet'[i], OnNet(0))
    <3>1. \A i \in DOMAIN chalNet' : \/ i \in DOMAIN chalNet /\ chalNet'[i] = chalNet[i]
                                     \/ i = Len(chalNet) + 1 /\ chalNet'[i] = t
      BY <1>2, <1>3, AppendFacts
    <3>2. \A i \in DOMAIN chalNet : ChallengeAt(prog, chal, chalNet[i], OnNet(0)) /\ chalNet[i] \in Tasks
      BY <1>1, <1>2 DEF Challenges
    <3>3. \A i \in DOMAIN chalNet : chalNet[i] # t
      BY <2>3, <3>2, PlaceFacts
    <3>4. \A i, j \in DOMAIN chalNet : chalNet[i] = chalNet[j] => i = j
      BY <1>1 DEF Challenges, NoTwice
    <3>5. \A i, j \in DOMAIN chalNet' : chalNet'[i] = chalNet'[j] => i = j
      BY <3>1, <3>3, <3>4
    <3>6. \A i \in DOMAIN chalNet' : ChallengeAt(prog, chal2, chalNet'[i], OnNet(0))
      BY <2>2, <3>1, <3>2, PlaceFacts
    <3> QED BY <3>5, <3>6 DEF NoTwice
  <2>7. Brings("prover", Chal, "challenge")' =>
          ChallengeAt(prog, chal2, thr'["prover"][Chal].task, OnThread(Chal))
    <3> SUFFICES ASSUME Brings("prover", Chal, "challenge")
                 PROVE  ChallengeAt(prog, chal2, thr["prover"][Chal].task, OnThread(Chal))
      BY <1>2 DEF Brings
    <3>1. "prover" \in Parties /\ Chal \in Threads("prover")
      BY KindFacts DEF Parties
    <3>2. thr["prover"][Chal].task \in Tasks
      BY <1>1, <3>1, TasksNamed
    <3> QED BY <1>1, <2>2, <3>2, PlaceFacts DEF Challenges
  <2>8. \A u \in Tasks :
         /\ slot["prover"][u].chal => ChallengeAt(prog, chal2, u, InSlot)
         /\ slot["verifier"][u].chal => u \in Challenge /\ slot["verifier"][u].req = 0
         /\ u \in Challenge /\ prog["prover"][u] >= 3 => prog["verifier"][u] >= 2
    BY <1>1, <2>2, PlaceFacts DEF Challenges
  <2> QED BY <1>2, <2>4, <2>5, <2>6, <2>7, <2>8 DEF Challenges, NoTwice
<1>9. Inv(prog, place, msg, pub, priv, chal2)'
  BY <1>5, <1>6, <1>7, <1>8 DEF Inv, Data
<1> QED BY <1>9 DEF IInv

LEMMA ReadChallengeKeeps ==
  ASSUME NEW prog, NEW place, NEW msg, NEW pub, NEW priv, NEW chal,
         Inv(prog, place, msg, pub, priv, chal), ReadChallenge
  PROVE  IInv'
<1>1. Types /\ NoPanic /\ Graph(prog, place) /\ Data(prog, msg, pub, priv, chal)
      /\ ThreadTypes /\ SharedTypes /\ Shapes /\ Conserved(prog) /\ Flights(prog, msg)
      /\ Challenges(prog, chal)
  BY DEF Inv, Types, Graph, Data
<1>2. chalNet # <<>> /\ chalNet \in Seq(Tasks) /\ chalNet' = Tail(chalNet)
  BY <1>1 DEF ReadChallenge, SharedTypes
<1>3. PICK t \in Tasks : t = Head(chalNet)
  BY <1>2, TailFacts
<1> DEFINE r == [Idle EXCEPT !.pc = "getslot", !.task = t, !.brings = "challenge"]
           chal2 == [u \in Tasks |-> IF u = t THEN OnThread(Chal) ELSE chal[u]]
<1>4. /\ thr["prover"][Chal].pc = "idle" /\ Do("prover", Chal, r)
      /\ UNCHANGED <<runVars, slot, graphVars, diskVars, outVars, chalq, chalOpen, endVars>>
  BY <1>3 DEF ReadChallenge, At
<1>5. "prover" \in Parties /\ Chal \in Threads("prover") /\ Chal[1] = "chal"
  BY KindFacts DEF Parties
<1>6. /\ r \in Records /\ r.pc = "getslot" /\ r.task = t /\ r.brings = "challenge"
  BY IdleFacts, TasksFinite DEF Records, Working, Cargo
<1> HIDE DEF r
<1>7. SharedTypes'
  <2>1. chalNet' \in Seq(Tasks)
    BY <1>2, TailFacts
  <2> QED
    BY <1>1, <1>4, <2>1 DEF SharedTypes, runVars, graphVars, diskVars, outVars, endVars
<1>8. Moves("prover", Chal, r) /\ Types' /\ NoPanic' /\ Graph(prog, place)' /\ Shapes'
  <2>1. UNCHANGED <<runVars, graphVars, panicked, slot>>
    BY <1>4 DEF endVars
  <2>2. Shape("prover", Chal, r)
    BY <1>5, <1>6 DEF Shape, ChalShape
  <2>3. Moves("prover", Chal, r) /\ Types' /\ NoPanic' /\ Graph(prog, place)'
    BY <1>4, <1>5, <1>6, <1>7, <2>1, <2>2, HelperStep
  <2> QED BY <2>3 DEF Types
<1>9. Plain("prover", Chal, r)
  BY <1>4, <1>6, <1>8 DEF Plain
<1>10. Numbers(prog) /\ Grows(prog, prog)
  BY <1>1, DoneFacts, GrowsSame
<1>11. UNCHANGED <<reads, cached, slot, outq, net, chalq>>
  BY <1>4 DEF diskVars, outVars
<1>12. SlotTable'
  BY <1>1, <1>5, <1>9, <1>11, SlotTablePlain DEF Data
<1>13. PublicData(prog, pub)' /\ PrivateData(prog, priv)'
  <2>1. PublicData(prog, pub) /\ PrivateData(prog, priv)
    BY <1>1 DEF Data
  <2>2. PublicData(prog, pub)'
    BY <1>1, <1>5, <1>6, <1>9, <1>10, <1>11, <2>1, PublicPlain DEF BringsNo
  <2>3. PrivateData(prog, priv)'
    BY <1>1, <1>5, <1>6, <1>9, <1>10, <1>11, <2>1, PrivatePlain DEF BringsNo
  <2> QED BY <2>2, <2>3
<1>14. Flights(prog, msg)'
  BY <1>1, <1>5, <1>6, <1>8, <1>9, <1>10, <1>11, FlightsPlain DEF BringsNo
<1>15. Causal(prog)'
  BY <1>1 DEF Data, Causal
<1>16. Challenges(prog, chal2)'
  <2>1. ChallengeAt(prog, chal, t, OnNet(0)) /\ 1 \in DOMAIN chalNet /\ chalNet[1] = t
    BY <1>1, <1>2, <1>3, TailFacts DEF Challenges
  <2>2. /\ ChallengeAt(prog, chal2, t, OnThread(Chal))
        /\ \A u \in Tasks : \A v : ChallengeAt(prog, chal, u, v) /\ v # OnNet(0) =>
             ChallengeAt(prog, chal2, u, v)
        /\ \A u \in Tasks : \A v : ChallengeAt(prog, chal, u, v) /\ u # t =>
             ChallengeAt(prog, chal2, u, v)
    BY <2>1, PlaceFacts, ChallengeMoves
  <2>3. \A u, v : ChallengeAt(prog, chal2, u, v)' <=> ChallengeAt(prog, chal2, u, v)
    BY DEF ChallengeAt
  <2> HIDE DEF chal2
  <2>4. NoTwice(chalNet') /\ \A i \in DOMAIN chalNet' : ChallengeAt(prog, chal2, chalNet'[i], OnNet(0))
    <3>1. \A i \in DOMAIN chalNet' : /\ i + 1 \in DOMAIN chalNet /\ chalNet'[i] = chalNet[i + 1]
                                     /\ i + 1 # 1 /\ i \in Nat
      BY <1>2, TailFacts
    <3>2. \A i, j \in DOMAIN chalNet : chalNet[i] = chalNet[j] => i = j
      BY <1>1 DEF Challenges, NoTwice
    <3>3. \A i \in DOMAIN chalNet' : chalNet'[i] # t /\ chalNet'[i] \in Tasks
      BY <1>2, <2>1, <3>1, <3>2
    <3>4. \A i \in DOMAIN chalNet' : ChallengeAt(prog, chal, chalNet'[i], OnNet(0))
      BY <1>1, <3>1 DEF Challenges
    <3>5. ASSUME NEW i \in DOMAIN chalNet', NEW j \in DOMAIN chalNet', chalNet'[i] = chalNet'[j]
          PROVE  i = j
      <4>1. i + 1 = j + 1 /\ i \in Nat /\ j \in Nat
        BY <3>1, <3>2, <3>5
      <4> QED BY <4>1
    <3> QED BY <2>2, <3>3, <3>4, <3>5 DEF NoTwice
  <2>5. NoTwice(chalq) /\ \A i \in DOMAIN chalq : ChallengeAt(prog, chal2, chalq[i], InQueue)
    BY <1>1, <2>2, TasksNamed, <1>5, PlaceFacts DEF Challenges
  <2>6. ChallengeAt(prog, chal2, thr'["prover"][Chal].task, OnThread(Chal))
    BY <1>6, <1>8, <2>2 DEF Moves
  <2>7. \A u \in Tasks :
         /\ slot["prover"][u].chal => ChallengeAt(prog, chal2, u, InSlot)
         /\ slot["verifier"][u].chal => u \in Challenge /\ slot["verifier"][u].req = 0
         /\ u \in Challenge /\ prog["prover"][u] >= 3 => prog["verifier"][u] >= 2
    BY <1>1, <2>2, PlaceFacts DEF Challenges
  <2> QED BY <1>11, <2>3, <2>4, <2>5, <2>6, <2>7 DEF Challenges, NoTwice
<1>17. Inv(prog, place, msg, pub, priv, chal2)'
  BY <1>8, <1>12, <1>13, <1>14, <1>15, <1>16 DEF Inv, Data
<1> QED BY <1>17 DEF IInv

LEMMA ReadChunkKeeps ==
  ASSUME NEW prog, NEW place, NEW msg, NEW pub, NEW priv, NEW chal,
         Inv(prog, place, msg, pub, priv, chal),
         NEW p \in Parties, NEW x \in Disks, ReadChunk(p, x)
  PROVE  IInv'
<1>1. Types /\ NoPanic /\ Graph(prog, place) /\ Data(prog, msg, pub, priv, chal)
      /\ ThreadTypes /\ SharedTypes /\ Shapes /\ Conserved(prog) /\ PublicData(prog, pub)
  BY DEF Inv, Types, Graph, Data
<1> DEFINE o == thr[p][x]
           r == [o EXCEPT !.pc = "getslot"]
<1>2. x \in Threads(p) /\ x[1] = "disk" /\ x \notin Ins
  BY KindFacts
<1>3. /\ o.pc = "read" /\ Do(p, x, r)
      /\ cached' = IF o.brings = "public"
                   THEN [cached EXCEPT ![p] = @ \cup {Chunk[o.task]}] ELSE cached
      /\ UNCHANGED <<runVars, slot, graphVars, reads, readsOpen, outVars, chalVars, endVars>>
  BY DEF ReadChunk
<1>4. o \in Records /\ o.task \in Tasks /\ o.brings \in {"public", "private"}
  BY <1>1, <1>2, <1>3, RecordFacts DEF Working, Shapes, Shape, DiskShape
<1>5. /\ r \in Records /\ r.pc = "getslot" /\ r.task = o.task /\ r.step = o.step
      /\ r.brings = o.brings /\ r.hit = o.hit
  <2> HIDE DEF o
  <2> QED BY <1>4 DEF Records, Working
<1> HIDE DEF r
<1>6. SharedTypes'
  <2>1. DOMAIN cached' = Parties
    BY <1>1, <1>3 DEF SharedTypes
  <2> QED
    BY <1>1, <1>3, <2>1 DEF SharedTypes, runVars, graphVars, outVars, chalVars, endVars
<1>7. Moves(p, x, r) /\ Types' /\ NoPanic' /\ Graph(prog, place)' /\ Shapes'
  <2>1. UNCHANGED <<runVars, graphVars, panicked, slot>>
    BY <1>3 DEF endVars
  <2>2. Shape(p, x, r)
    BY <1>2, <1>4, <1>5 DEF Shape, DiskShape
  <2>3. Moves(p, x, r) /\ Types' /\ NoPanic' /\ Graph(prog, place)'
    BY <1>2, <1>3, <1>4, <1>5, <1>6, <2>1, <2>2, HelperStep
  <2> QED BY <2>3 DEF Types
<1>8. SlotTable'
  <2>1. Plain(p, x, r)
    BY <1>3, <1>5, <1>7 DEF Plain
  <2> QED BY <1>1, <1>2, <1>3, <2>1, SlotTablePlain DEF Data
<1>9. \A q \in Parties : NoChunk \notin cached'[q]
  <2>1. \A q \in Parties : NoChunk \notin cached[q]
    BY <1>1 DEF PublicData
  <2>2. CASE o.brings = "public"
    <3>1. Chunk[o.task] # NoChunk
      BY <1>1, <1>2, <1>3, <2>2 DEF PublicData, PublicAt, Brings
    <3>2. DOMAIN cached = Parties
      BY <1>1 DEF SharedTypes
    <3> QED BY <1>3, <2>1, <2>2, <3>1, <3>2
  <2>3. CASE o.brings # "public"
    BY <1>3, <2>1, <2>3
  <2> QED BY <2>2, <2>3
<1>10. \A q \in Parties : \A y \in Threads(q) :
         /\ thr'[q][y].task = thr[q][y].task /\ thr'[q][y].hit = thr[q][y].hit
         /\ thr'[q][y].step = thr[q][y].step
         /\ Requests(q, y)' <=> Requests(q, y)
         /\ \A what : Brings(q, y, what)' <=> Brings(q, y, what)
         /\ thr'[q][y].pc = "write" <=> thr[q][y].pc = "write"
         /\ y \in Ins => (thr'[q][y].pc \in {"getslot", "update"} <=>
                           thr[q][y].pc \in {"getslot", "update"})
  BY <1>2, <1>3, <1>4, <1>5, <1>7 DEF Moves, Requests, Brings
<1>11. UNCHANGED <<reads, slot, chalq, chalNet, outq, net>>
  BY <1>3 DEF chalVars, outVars
<1>12. /\ PublicData(prog, pub)' /\ PrivateData(prog, priv)' /\ Challenges(prog, chal)'
       /\ Flights(prog, msg)' /\ Causal(prog)'
  BY <1>1, <1>9, <1>10, <1>11, DataViews
<1>13. Inv(prog, place, msg, pub, priv, chal)'
  BY <1>7, <1>8, <1>12 DEF Inv, Data
<1> QED BY <1>13 DEF IInv

LEMMA ReadMoves ==
  ASSUME NEW prog, NEW h, NEW p \in Parties, NEW t \in Tasks, NEW w
  PROVE  LET h2 == Put(h, p, t, w)
         IN  /\ \A q \in Parties : \A u \in Tasks : \A v : q # p \/ u # t =>
                  /\ PublicAt(prog, h, q, u, v) => PublicAt(prog, h2, q, u, v)
                  /\ PrivateAt(prog, h, q, u, v) => PrivateAt(prog, h2, q, u, v)
             /\ \A v : PublicAt(prog, h, p, t, v) => v = h[p][t] /\ PublicAt(prog, h2, p, t, w)
             /\ \A v : PrivateAt(prog, h, p, t, v) => v = h[p][t] /\ PrivateAt(prog, h2, p, t, w)
<1>1. /\ Put(h, p, t, w)[p][t] = w
      /\ \A q \in Parties : \A u \in Tasks :
           q # p \/ u # t => Put(h, p, t, w)[q][u] = h[q][u]
  BY PutFacts
<1> QED BY <1>1 DEF PublicAt, PrivateAt

LEMMA TakeReadKeeps ==
  ASSUME NEW prog, NEW place, NEW msg, NEW pub, NEW priv, NEW chal,
         Inv(prog, place, msg, pub, priv, chal),
         NEW p \in Parties, NEW x \in Disks, TakeRead(p, x)
  PROVE  IInv'
<1>1. Types /\ NoPanic /\ Graph(prog, place) /\ Data(prog, msg, pub, priv, chal)
      /\ ThreadTypes /\ SharedTypes /\ Shapes /\ Conserved(prog) /\ Flights(prog, msg)
      /\ PublicData(prog, pub) /\ PrivateData(prog, priv) /\ Challenges(prog, chal)
  BY DEF Inv, Types, Graph, Data
<1>2. x \in Threads(p) /\ x[1] = "disk"
  BY KindFacts
<1>3. PICK m \in reads[p] :
        /\ thr[p][x].pc = "idle"
        /\ reads' = [reads EXCEPT ![p] = @ \ {m}]
        /\ Do(p, x, [Idle EXCEPT !.pc = "read", !.task = m.task, !.brings = m.kind])
        /\ UNCHANGED <<runVars, slot, graphVars, readsOpen, cached, outVars, chalVars, endVars>>
  BY DEF TakeRead, At, Best
<1> DEFINE t == m.task
           r == [Idle EXCEPT !.pc = "read", !.task = t, !.brings = m.kind]
           pub2 == IF m.kind = "public" THEN Put(pub, p, t, OnThread(x)) ELSE pub
           priv2 == IF m.kind = "private" THEN Put(priv, p, t, OnThread(x)) ELSE priv
<1>4. /\ m \in ReadRequests /\ t \in Tasks /\ m.kind \in {"public", "private"}
      /\ \A n \in reads[p] : n.task = t /\ n.kind = m.kind => n = m
  <2>1. reads[p] \subseteq ReadRequests
    BY <1>1 DEF SharedTypes
  <2>2. \A n \in ReadRequests : /\ n = [task |-> n.task, step |-> 0, kind |-> n.kind]
                               /\ n.task \in Tasks /\ n.kind \in {"public", "private"}
    BY DEF ReadRequests
  <2>3. m \in ReadRequests
    BY <2>1
  <2>4. \A n \in reads[p] : n.task = t /\ n.kind = m.kind => n = m
    <3> SUFFICES ASSUME NEW n \in ReadRequests, n.task = t, n.kind = m.kind PROVE n = m
      BY <2>1
    <3>1. n = [task |-> n.task, step |-> 0, kind |-> n.kind]
      BY <2>2
    <3>2. m = [task |-> m.task, step |-> 0, kind |-> m.kind]
      BY <2>2, <2>3
    <3> QED BY <3>1, <3>2
  <2> QED BY <2>2, <2>3, <2>4
<1> HIDE DEF t
<1>5. /\ r \in Records /\ r.pc = "read" /\ r.task = t /\ r.brings = m.kind
  BY <1>4, IdleFacts, TasksFinite DEF Records, Working, Cargo
<1>5a. Do(p, x, r)
  BY <1>3 DEF t
<1> HIDE DEF r
<1>6. /\ reads'[p] = reads[p] \ {m} /\ \A q \in Parties : q # p => reads'[q] = reads[q]
      /\ reads' \in [Parties -> SUBSET ReadRequests]
  BY <1>1, <1>3 DEF SharedTypes
<1>7. SharedTypes'
  BY <1>1, <1>3, <1>6 DEF SharedTypes, runVars, graphVars, outVars, chalVars, endVars
<1>8. Moves(p, x, r) /\ Types' /\ NoPanic' /\ Graph(prog, place)' /\ Shapes'
  <2>1. UNCHANGED <<runVars, graphVars, panicked, slot>>
    BY <1>3 DEF endVars
  <2>2. Shape(p, x, r)
    BY <1>2, <1>4, <1>5 DEF Shape, DiskShape
  <2>3. Moves(p, x, r) /\ Types' /\ NoPanic' /\ Graph(prog, place)'
    BY <1>2, <1>4, <1>5, <1>5a, <1>7, <2>1, <2>2, HelperStep
  <2> QED BY <2>3 DEF Types
<1>9. Plain(p, x, r)
  BY <1>3, <1>5, <1>8 DEF Plain
<1>10. Numbers(prog) /\ Grows(prog, prog)
  BY <1>1, DoneFacts, GrowsSame
<1>11. UNCHANGED <<cached, slot, outq, net, chalq, chalNet>>
  BY <1>3 DEF outVars, chalVars
<1>12. SlotTable'
  BY <1>1, <1>2, <1>9, <1>11, SlotTablePlain DEF Data
<1>13. Challenges(prog, chal)'
  BY <1>1, <1>2, <1>4, <1>5, <1>9, <1>10, <1>11, ChallengesPlain DEF BringsNo
<1>14. Flights(prog, msg)' /\ Causal(prog)'
  <2>1. Flights(prog, msg)'
    BY <1>1, <1>2, <1>4, <1>5, <1>8, <1>9, <1>10, <1>11, FlightsPlain DEF BringsNo
  <2> QED BY <1>1, <2>1 DEF Data, Causal
<1>15. \A q \in Parties : \A y \in Threads(q) : q # p \/ y # x =>
         /\ thr'[q][y] = thr[q][y]
         /\ Requests(q, y)' <=> Requests(q, y)
         /\ \A what : Brings(q, y, what)' <=> Brings(q, y, what)
  BY <1>8 DEF Moves, Requests, Brings
<1>16. /\ thr'[p][x] = r /\ ~Requests(p, x)'
       /\ \A what : Brings(p, x, what)' <=> m.kind = what
  BY <1>5, <1>8 DEF Moves, Requests, Brings
<1>17. PublicData(prog, pub2)'
  <2>1. CASE m.kind # "public"
    <3>1. \A q \in Parties : reads'[q] \subseteq reads[q]
      BY <1>6
    <3> QED BY <1>1, <1>2, <1>4, <1>5, <1>9, <1>10, <1>11, <2>1, <3>1, PublicPlain DEF BringsNo
  <2>2. CASE m.kind = "public"
    <3>1. PublicAt(prog, pub, p, t, InQueue)
      BY <1>1, <2>2 DEF PublicData, t
    <3>2. /\ PublicAt(prog, pub2, p, t, OnThread(x))
          /\ \A q \in Parties : \A u \in Tasks : \A v : v # InQueue =>
               (PublicAt(prog, pub, q, u, v) => PublicAt(prog, pub2, q, u, v))
          /\ \A q \in Parties : \A u \in Tasks : \A v : q # p \/ u # t =>
               (PublicAt(prog, pub, q, u, v) => PublicAt(prog, pub2, q, u, v))
      <4>1. pub2 = Put(pub, p, t, OnThread(x)) /\ pub[p][t] = InQueue
        BY <2>2, <3>1 DEF PublicAt
      <4>2. PublicAt(prog, pub2, p, t, OnThread(x))
        BY <1>4, <3>1, <4>1, ReadMoves
      <4>3. \A q \in Parties : \A u \in Tasks : \A v : q # p \/ u # t =>
               (PublicAt(prog, pub, q, u, v) => PublicAt(prog, pub2, q, u, v))
        BY <1>4, <4>1, ReadMoves
      <4>4. \A v : PublicAt(prog, pub, p, t, v) => v = InQueue
        BY <4>1 DEF PublicAt
      <4> HIDE DEF pub2
      <4> QED BY <4>2, <4>3, <4>4
    <3>3. \A q, u, v : PublicAt(prog, pub2, q, u, v)' <=> PublicAt(prog, pub2, q, u, v)
      BY DEF PublicAt
    <3> HIDE DEF pub2
    <3>4. ASSUME NEW q \in Parties, NEW n \in reads'[q], n.kind = "public"
          PROVE  PublicAt(prog, pub2, q, n.task, InQueue)
      <4>1. n \in reads[q] /\ (q # p \/ n # m) /\ n.task \in Tasks
        BY <1>1, <1>6, <3>4, TasksNamed
      <4>2. q # p \/ n.task # t
        BY <1>4, <2>2, <3>4, <4>1
      <4> QED BY <1>1, <3>2, <3>4, <4>1, <4>2 DEF PublicData
    <3>5. ASSUME NEW q \in Parties, NEW y \in Threads(q)
          PROVE  /\ Brings(q, y, "public")' => PublicAt(prog, pub2, q, thr'[q][y].task, OnThread(y))
                 /\ Requests(q, y)' /\ thr'[q][y].hit =>
                      PublicAt(prog, pub2, q, thr'[q][y].task, FromCache)
      <4>1. CASE q = p /\ y = x
        BY <1>5, <1>16, <3>2, <4>1
      <4>2. CASE q # p \/ y # x
        <5>1. Brings(q, y, "public") => PublicAt(prog, pub2, q, thr[q][y].task, OnThread(y))
          BY <1>1, <3>2, PlaceFacts, TasksNamed DEF PublicData
        <5>2. Requests(q, y) /\ thr[q][y].hit => PublicAt(prog, pub2, q, thr[q][y].task, FromCache)
          BY <1>1, <3>2, PlaceFacts, TasksNamed DEF PublicData
        <5> QED BY <1>15, <4>2, <5>1, <5>2
      <4> QED BY <4>1, <4>2
    <3>6. \A q \in Parties : /\ NoChunk \notin cached[q]
                             /\ \A u \in Tasks : slot[q][u].pub => PublicAt(prog, pub2, q, u, InSlot)
      BY <1>1, <3>2, PlaceFacts DEF PublicData
    <3> QED BY <1>11, <3>3, <3>4, <3>5, <3>6 DEF PublicData
  <2> QED BY <2>1, <2>2
<1>18. PrivateData(prog, priv2)'
  <2>1. CASE m.kind # "private"
    <3>1. \A q \in Parties : reads'[q] \subseteq reads[q]
      BY <1>6
    <3> QED BY <1>1, <1>2, <1>4, <1>5, <1>9, <1>10, <1>11, <2>1, <3>1, PrivatePlain DEF BringsNo
  <2>2. CASE m.kind = "private"
    <3>1. PrivateAt(prog, priv, p, t, InQueue)
      BY <1>1, <2>2 DEF PrivateData, t
    <3>2. /\ PrivateAt(prog, priv2, p, t, OnThread(x))
          /\ \A q \in Parties : \A u \in Tasks : \A v : v # InQueue =>
               (PrivateAt(prog, priv, q, u, v) => PrivateAt(prog, priv2, q, u, v))
          /\ \A q \in Parties : \A u \in Tasks : \A v : q # p \/ u # t =>
               (PrivateAt(prog, priv, q, u, v) => PrivateAt(prog, priv2, q, u, v))
      <4>1. priv2 = Put(priv, p, t, OnThread(x)) /\ priv[p][t] = InQueue
        BY <2>2, <3>1 DEF PrivateAt
      <4>2. PrivateAt(prog, priv2, p, t, OnThread(x))
        BY <1>4, <3>1, <4>1, ReadMoves
      <4>3. \A q \in Parties : \A u \in Tasks : \A v : q # p \/ u # t =>
               (PrivateAt(prog, priv, q, u, v) => PrivateAt(prog, priv2, q, u, v))
        BY <1>4, <4>1, ReadMoves
      <4>4. \A v : PrivateAt(prog, priv, p, t, v) => v = InQueue
        BY <4>1 DEF PrivateAt
      <4> HIDE DEF priv2
      <4> QED BY <4>2, <4>3, <4>4
    <3>3. \A q, u, v : PrivateAt(prog, priv2, q, u, v)' <=> PrivateAt(prog, priv2, q, u, v)
      BY DEF PrivateAt
    <3> HIDE DEF priv2
    <3>4. ASSUME NEW q \in Parties, NEW n \in reads'[q], n.kind = "private"
          PROVE  PrivateAt(prog, priv2, q, n.task, InQueue)
      <4>1. n \in reads[q] /\ (q # p \/ n # m) /\ n.task \in Tasks
        BY <1>1, <1>6, <3>4, TasksNamed
      <4>2. q # p \/ n.task # t
        BY <1>4, <2>2, <3>4, <4>1
      <4> QED BY <1>1, <3>2, <3>4, <4>1, <4>2 DEF PrivateData
    <3>5. ASSUME NEW q \in Parties, NEW y \in Threads(q), Brings(q, y, "private")'
          PROVE  PrivateAt(prog, priv2, q, thr'[q][y].task, OnThread(y))
      <4>1. CASE q = p /\ y = x
        BY <1>5, <1>16, <3>2, <4>1
      <4>2. CASE q # p \/ y # x
        <5>1. Brings(q, y, "private") => PrivateAt(prog, priv2, q, thr[q][y].task, OnThread(y))
          BY <1>1, <3>2, PlaceFacts, TasksNamed DEF PrivateData
        <5> QED BY <1>15, <3>5, <4>2, <5>1
      <4> QED BY <4>1, <4>2
    <3>6. \A q \in Parties : \A u \in Tasks : slot[q][u].priv => PrivateAt(prog, priv2, q, u, InSlot)
      BY <1>1, <3>2, PlaceFacts DEF PrivateData
    <3> QED BY <1>11, <3>3, <3>4, <3>5, <3>6 DEF PrivateData
  <2> QED BY <2>1, <2>2
<1>19. Inv(prog, place, msg, pub2, priv2, chal)'
  BY <1>8, <1>12, <1>13, <1>14, <1>17, <1>18 DEF Inv, Data
<1> QED BY <1>19 DEF IInv

-----------------------------------------------------------------------------
(***************************************************************************)
(* The runner threads and the main thread.  A step changes the progress or *)
(* the place of at most one stage.                                         *)
(***************************************************************************)
LEMMA LaunchedMoves ==
  ASSUME NEW f, NEW g, NEW place, NEW place2, Launched(f, place),
         NEW p \in Parties, NEW x \in Threads(p), NEW r, Moves(p, x, r), NEW t \in Tasks,
         ThreadTypes, SharedTypes,
         \A q \in Parties : \A u \in Tasks :
           q # p \/ u # t => g[q][u] = f[q][u] /\ place2[q][u] = place[q][u],
         \/ f[p][t] = 0
         \/ place[p][t] = OnThread(x)
         \/ \E e : place[p][t] = InRunQueue(e) /\ e \notin runQueue'[p],
         StageAt(g, place2, p, x, r),
         \A q \in Parties : runQueue'[q] \subseteq runQueue[q],
         UNCHANGED slot
  PROVE  Launched(g, place2)'
<1>1. ASSUME NEW q \in Parties, NEW u \in Tasks, NEW v \in Nat, NEW w,
             Stands(f, place, q, u, v, w), v > 0,
             \/ \E y : w = OnThread(y) /\ (q # p \/ y # x)
             \/ \E e \in runQueue'[q] : w = InRunQueue(e)
             \/ w = InSlot
      PROVE  Stands(g, place2, q, u, v, w)
  <2>1. q # p \/ u # t
    BY <1>1, PlaceFacts DEF Stands
  <2> QED BY <1>1, <2>1 DEF Stands
<1>2. \A q \in Parties : \A e \in runQueue[q] : e.task \in Tasks /\ e.step \in Nat
  BY DEF SharedTypes, Stages
<1>3. ASSUME NEW q \in Parties, NEW y \in Threads(q)
      PROVE  StageAt(g, place2, q, y, thr'[q][y])
  <2>1. CASE q = p /\ y = x
    BY <2>1 DEF Moves
  <2>2. CASE q # p \/ y # x
    <3> DEFINE s == thr[q][y]
    <3>1. thr'[q][y] = s
      BY <2>2 DEF Moves
    <3>2. s.step \in Nat /\ (s.pc \in Working => s.task \in Tasks)
      BY RecordFacts
    <3>3. StageAt(f, place, q, y, s)
      BY DEF Launched
    <3>4. \A v \in Nat : v > 0 /\ s.task \in Tasks /\ Stands(f, place, q, s.task, v, OnThread(y)) =>
            Stands(g, place2, q, s.task, v, OnThread(y))
      BY <1>1, <2>2
    <3> HIDE DEF s
    <3>5. /\ 1 \in Nat /\ 1 > 0 /\ 3 * s.step + 2 \in Nat /\ 3 * s.step + 2 > 0
          /\ 3 * s.step + 3 \in Nat /\ 3 * s.step + 3 > 0
          /\ 3 * s.step + 4 \in Nat /\ 3 * s.step + 4 > 0
      BY <3>2
    <3> QED BY <3>1, <3>2, <3>3, <3>4, <3>5 DEF StageAt, Working
  <2> QED BY <2>1, <2>2
<1>4. ASSUME NEW q \in Parties, NEW e \in runQueue'[q]
      PROVE  /\ Stands(g, place2, q, e.task, 3 * e.step + 3, InRunQueue(e))
             /\ e.got = IF WantIncoming(q, e.task, e.step)
                        THEN RoundFor(q, e.task, e.step) ELSE -1
  <2>1. e \in runQueue[q] /\ e.task \in Tasks /\ e.step \in Nat
    BY <1>2
  <2>2. 3 * e.step + 3 \in Nat /\ 3 * e.step + 3 > 0
    BY <2>1
  <2> QED BY <1>1, <1>4, <2>1, <2>2 DEF Launched
<1>5. ASSUME NEW q \in Parties, NEW u \in Tasks, slot[q][u].req >= 0
      PROVE  Stands(g, place2, q, u, 3 * slot[q][u].req + 2, InSlot)
  <2>1. slot[q][u].req \in Nat
    BY <1>5, SlotFacts
  <2>2. 3 * slot[q][u].req + 2 \in Nat /\ 3 * slot[q][u].req + 2 > 0
    BY <2>1
  <2> QED BY <1>1, <1>5, <2>2 DEF Launched
<1> QED BY <1>3, <1>4, <1>5 DEF Launched, StageAt, Stands

LEMMA ConservedMoves ==
  ASSUME NEW f, NEW g, Conserved(f),
         NEW p \in Parties, NEW x \in Threads(p), NEW r, Moves(p, x, r), NEW t \in Tasks,
         \A q \in Parties : \A u \in Tasks : q # p \/ u # t => g[q][u] = f[q][u],
         g[p][t] \in 0 .. Done(p, t),
         g[p][t] # 0 /\ g[p][t] < Done(p, t) => Carries(p, x, t)',
         \A u : Carries(p, x, u) => u = t,
         \A q \in Parties : \A e \in runQueue[q] :
           e \in runQueue'[q] \/ (q = p /\ e.task = t),
         \A q \in Parties : \A u \in Tasks : q # p \/ u # t =>
           deps'[q][u] = deps[q][u] /\ (InTodo(q, u)' <=> InTodo(q, u)),
         g[p][t] = 0 <=> deps'[p][t] > 0 \/ InTodo(p, t)',
         UNCHANGED slot
  PROVE  Conserved(g)'
<1> SUFFICES ASSUME NEW q \in Parties, NEW u \in Tasks
             PROVE  /\ g[q][u] \in 0 .. Done(q, u)
                    /\ g[q][u] # 0 /\ g[q][u] < Done(q, u) =>
                         \/ \E y \in Threads(q) : Carries(q, y, u)'
                         \/ \E e \in runQueue'[q] : e.task = u
                         \/ slot[q][u].req >= 0
                    /\ g[q][u] = 0 <=> deps'[q][u] > 0 \/ InTodo(q, u)'
  BY DEF Conserved
<1>1. CASE q = p /\ u = t
  BY <1>1
<1>2. CASE q # p \/ u # t
  <2>1. \A y \in Threads(q) : Carries(q, y, u) => Carries(q, y, u)'
    <3> SUFFICES ASSUME NEW y \in Threads(q), Carries(q, y, u) PROVE Carries(q, y, u)'
      OBVIOUS
    <3>1. q # p \/ y # x
      BY <1>2
    <3>2. thr'[q][y] = thr[q][y]
      BY <3>1 DEF Moves
    <3> QED BY <3>2 DEF Carries
  <2>2. \A e \in runQueue[q] : e.task = u => e \in runQueue'[q]
    BY <1>2
  <2> QED BY <1>2, <2>1, <2>2 DEF Conserved
<1> QED BY <1>1, <1>2

(* A thread that holds no stage before and after.                          *)
StageFree(r) ==
  r.pc \notin {"launch", "send", "blocked", "result", "getslot", "update"}

LEMMA StagesSame ==
  ASSUME NEW f, NEW place, Launched(f, place), Conserved(f),
         NEW p \in Parties, NEW x \in Threads(p), NEW r, Moves(p, x, r),
         StageFree(thr[p][x]), StageFree(r),
         \A q \in Parties : \/ runQueue'[q] = runQueue[q]
                            \/ /\ runQueue'[q] = {}
                               /\ \A u \in Tasks : ~(f[q][u] < Done(q, u)),
         \A q \in Parties : \A u \in Tasks : InTodo(q, u)' <=> InTodo(q, u),
         UNCHANGED <<slot, deps>>
  PROVE  Launched(f, place)' /\ Conserved(f)'
<1>1. \A q \in Parties : \A y \in Threads(q) :
        /\ StageAt(f, place, q, y, thr'[q][y])
        /\ \A u : Carries(q, y, u) => Carries(q, y, u)'
  <2> SUFFICES ASSUME NEW q \in Parties, NEW y \in Threads(q)
               PROVE  /\ StageAt(f, place, q, y, thr'[q][y])
                      /\ \A u : Carries(q, y, u) => Carries(q, y, u)'
    OBVIOUS
  <2>1. CASE q = p /\ y = x
    BY <2>1 DEF Moves, StageFree, StageAt, Carries
  <2>2. CASE q # p \/ y # x
    BY <2>2 DEF Moves, Launched, Carries
  <2> QED BY <2>1, <2>2
<1>2. Launched(f, place)'
  BY <1>1 DEF Launched, StageAt, Stands
<1>3. Conserved(f)'
  <2> SUFFICES ASSUME NEW q \in Parties, NEW u \in Tasks
               PROVE  /\ f[q][u] \in 0 .. Done(q, u)
                      /\ f[q][u] # 0 /\ f[q][u] < Done(q, u) =>
                           \/ \E y \in Threads(q) : Carries(q, y, u)'
                           \/ \E e \in runQueue'[q] : e.task = u
                           \/ slot[q][u].req >= 0
                      /\ f[q][u] = 0 <=> deps[q][u] > 0 \/ InTodo(q, u)'
    BY DEF Conserved
  <2> QED BY <1>1 DEF Conserved
<1> QED BY <1>2, <1>3

(* What an action of a runner or the main thread has in common with the    *)
(* others.                                                                 *)
LEMMA WorkStep ==
  ASSUME Types, NoPanic, NEW p \in Parties, NEW x \in Threads(p),
         NEW r \in Records, Do(p, x, r), r.pc \in Working => r.task \in Tasks, Shape(p, x, r),
         SharedTypes', UNCHANGED panicked
  PROVE  Moves(p, x, r) /\ Types' /\ Shapes' /\ NoPanic'
<1>1. Moves(p, x, r) /\ ThreadTypes' /\ Shapes'
  BY MoveKeepsShape DEF Types
<1> QED BY <1>1 DEF Types, NoPanic

LEMMA PlainData ==
  ASSUME Types, Shapes', NEW f, NEW g, Numbers(f), Numbers(g), Grows(f, g),
         NEW msg, NEW pub, NEW priv, NEW chal, Data(f, msg, pub, priv, chal),
         NEW p \in Parties, NEW x \in Threads(p), NEW r, Plain(p, x, r),
         r.pc \notin {"read", "write"},
         r.pc = "getslot" => r.brings = "request" /\ ~r.hit,
         UNCHANGED <<slot, cached, chalNet, net>>,
         \A q \in Parties : reads'[q] \subseteq reads[q],
         chalq' = chalq \/ chalq' = <<>>,
         \A q \in Parties : outq'[q] = outq[q] \/ outq'[q] = <<>>
  PROVE  Data(g, msg, pub, priv, chal)'
<1>1. BringsNo(r, "public") /\ BringsNo(r, "private") /\ BringsNo(r, "challenge")
        /\ BringsNo(r, "incoming")
  BY DEF BringsNo
<1>2. SlotTable' /\ PublicData(g, pub)' /\ PrivateData(g, priv)'
        /\ Challenges(g, chal)' /\ Causal(g)'
  BY <1>1, DataPlain
<1>3. Flights(g, msg)'
  BY <1>1, FlightsPlain DEF Data
<1> QED BY <1>2, <1>3 DEF Data

LEMMA TakeStageKeeps ==
  ASSUME NEW prog, NEW place, NEW msg, NEW pub, NEW priv, NEW chal,
         Inv(prog, place, msg, pub, priv, chal),
         NEW p \in Parties, NEW x \in Runners(p), TakeStage(p, x)
  PROVE  IInv'
<1>1. Types /\ NoPanic /\ Graph(prog, place) /\ Data(prog, msg, pub, priv, chal)
      /\ ThreadTypes /\ SharedTypes /\ Shapes /\ Conserved(prog) /\ Launched(prog, place)
      /\ Counts(prog) /\ Closing
  BY DEF Inv, Types, Graph
<1>2. x \in Threads(p) /\ x[1] = "run" /\ x # Main
  BY KindFacts
<1>3. PICK e \in runQueue[p] :
        /\ thr[p][x].pc = "idle"
        /\ IF (e.got >= 0) # Incoming(p, e.task, e.step)
           THEN Panic(p, x)
           ELSE /\ runQueue' = [runQueue EXCEPT ![p] = @ \ {e}]
                /\ Do(p, x, [Idle EXCEPT
                              !.pc = IF Outgoing(p, e.task, e.step) THEN "send" ELSE "result",
                              !.task = e.task, !.step = e.step])
                /\ UNCHANGED <<runOpen, slot, graphVars, diskVars, outVars, chalVars, endVars>>
  BY DEF TakeStage, Best
<1> DEFINE t == e.task
           s == e.step
           sends == Outgoing(p, t, s)
           v == IF sends THEN 3 * s + 3 ELSE 3 * s + 4
           r == [Idle EXCEPT !.pc = IF sends THEN "send" ELSE "result", !.task = t, !.step = s]
           prog2 == Put(prog, p, t, v)
           place2 == Put(place, p, t, OnThread(x))
<1>4. t \in Tasks /\ s \in Nat
  BY <1>1 DEF SharedTypes, Stages
<1>5. /\ prog[p][t] = 3 * s + 3 /\ 3 * s + 3 < Done(p, t) /\ place[p][t] = InRunQueue(e)
      /\ e.got = IF WantIncoming(p, t, s) THEN RoundFor(p, t, s) ELSE -1
  BY <1>1 DEF Launched, Stands
<1>6. (e.got >= 0) = Incoming(p, t, s)
  <2>1. s < ExpectedSteps(p, t)
    BY <1>4, <1>5, StageFacts DEF Done
  <2>2. WantIncoming(p, t, s) <=> Incoming(p, t, s)
    BY <1>4, <2>1, StageFacts
  <2>3. Incoming(p, t, s) => RoundFor(p, t, s) \in Nat
    BY <1>4, RoundFacts
  <2>4. (e.got >= 0) <=> Incoming(p, t, s)
    BY <1>5, <2>2, <2>3
  <2>5. CASE IsA(p, t)
    BY <2>4, <2>5 DEF Incoming
  <2>6. CASE ~IsA(p, t)
    BY <2>4, <2>6 DEF Incoming
  <2> QED BY <2>5, <2>6
<1>7. /\ thr[p][x].pc = "idle" /\ Do(p, x, r)
      /\ runQueue' = [runQueue EXCEPT ![p] = @ \ {e}]
      /\ UNCHANGED <<runOpen, slot, graphVars, diskVars, outVars, chalVars, endVars>>
  BY <1>3, <1>6
<1> HIDE DEF t, s
<1>8. v \in Nat /\ v > 0 /\ v < Done(p, t) /\ v >= prog[p][t] /\ v >= 3 * s + 3 /\ v <= 3 * s + 4
  <2>1. Done(p, t) = 3 * ExpectedSteps(p, t) + 2 /\ ExpectedSteps(p, t) \in Nat
    BY <1>4, StageFacts DEF Done
  <2> QED BY <1>4, <1>5, <2>1
<1>9. /\ r \in Records /\ r.pc = (IF sends THEN "send" ELSE "result") /\ r.task = t /\ r.step = s
      /\ r.todo = <<>> /\ r.hit = FALSE
  BY <1>4, IdleFacts, TasksFinite DEF Records, Working
<1> HIDE DEF r
<1>10. SharedTypes'
  <2>1. runQueue' \in [Parties -> SUBSET Stages]
    BY <1>1, <1>7 DEF SharedTypes
  <2> QED
    BY <1>1, <1>7, <2>1 DEF SharedTypes, graphVars, diskVars, outVars, chalVars, endVars
<1>11. Moves(p, x, r) /\ Types' /\ Shapes' /\ NoPanic'
  <2>1. Shape(p, x, r)
    BY <1>2, <1>9 DEF Shape, RunShape
  <2> QED BY <1>1, <1>2, <1>4, <1>7, <1>9, <1>10, <2>1, WorkStep DEF endVars
<1>12. /\ prog2[p][t] = v /\ place2[p][t] = OnThread(x)
       /\ \A q \in Parties : \A u \in Tasks : q # p \/ u # t =>
            prog2[q][u] = prog[q][u] /\ place2[q][u] = place[q][u]
  <2>1. \A f, w : /\ Put(f, p, t, w)[p][t] = w
                   /\ \A q \in Parties : \A u \in Tasks :
                        q # p \/ u # t => Put(f, p, t, w)[q][u] = f[q][u]
    BY <1>4, PutFacts
  <2> HIDE DEF v
  <2> QED BY <2>1
<1>13. Numbers(prog) /\ Numbers(prog2) /\ Grows(prog, prog2)
  <2>1. Numbers(prog)
    BY <1>1, DoneFacts
  <2>2. \A j \in Nat : v >= 3 * j + 3 => prog[p][t] >= 3 * j + 3
    BY <1>4, <1>5, <1>8
  <2> HIDE DEF v
  <2> QED BY <1>4, <1>8, <2>1, <2>2, GrowsPut
<1>14. /\ runQueue'[p] = runQueue[p] \ {e}
       /\ \A q \in Parties : q # p => runQueue'[q] = runQueue[q]
  BY <1>1, <1>7 DEF SharedTypes
<1> HIDE DEF prog2, place2
<1>15. Launched(prog2, place2)'
  <2>1. StageAt(prog2, place2, p, x, r)
    <3>1. Stands(prog2, place2, p, t, v, OnThread(x))
      BY <1>8, <1>12 DEF Stands
    <3> QED BY <1>9, <3>1 DEF StageAt
  <2>2. UNCHANGED slot /\ \A q \in Parties : runQueue'[q] \subseteq runQueue[q]
    BY <1>7, <1>14
  <2> HIDE DEF v
  <2> QED BY <1>1, <1>2, <1>4, <1>5, <1>11, <1>12, <1>14, <2>1, <2>2, LaunchedMoves
<1>16. Conserved(prog2)'
  <2>1. Carries(p, x, t)' /\ \A u : ~Carries(p, x, u)
    BY <1>7, <1>9, <1>11 DEF Carries, Moves
  <2>2. \A q \in Parties : \A d \in runQueue[q] :
          d \in runQueue'[q] \/ (q = p /\ d.task = t)
    BY <1>14 DEF t
  <2>3. UNCHANGED <<slot, deps>> /\ \A q \in Parties : \A u \in Tasks : InTodo(q, u)' <=> InTodo(q, u)
    BY <1>2, <1>7, <1>11, KindFacts DEF graphVars, InTodo, Moves
  <2>4. ~(deps[p][t] > 0 \/ InTodo(p, t)) /\ prog[p][t] # 0
    BY <1>1, <1>4, <1>5 DEF Conserved
  <2>5. prog2[p][t] \in 0 .. Done(p, t) /\ prog2[p][t] # 0
    BY <1>8, <1>12, <1>4, StageFacts DEF Done
  <2> HIDE DEF v
  <2> QED BY <1>1, <1>2, <1>4, <1>11, <1>12, <2>1, <2>2, <2>3, <2>4, <2>5, ConservedMoves
<1>17. Counts(prog2)'
  <2>1. \A q \in Parties : \A u \in Tasks :
           /\ prog2[q][u] < Done(q, u) <=> prog[q][u] < Done(q, u)
           /\ prog2[q][u] = Done(q, u) <=> prog[q][u] = Done(q, u)
           /\ prog2[q][u] <= 1 <=> prog[q][u] <= 1
    <3>1. Done(p, t) \in Nat
      BY <1>1, <1>4, DoneFacts
    <3> QED BY <1>4, <1>5, <1>8, <1>12, <3>1
  <2>2. \A q \in Parties : \A y \in Threads(q) :
           /\ y[1] = "run" => thr'[q][y].todo = thr[q][y].todo
           /\ Notifying(q, y)' <=> Notifying(q, y)
    <3>1. thr[p][x].todo = <<>>
      BY <1>1, <1>2, <1>7 DEF Shapes, Shape, RunShape
    <3> QED BY <1>7, <1>9, <1>11, <3>1 DEF Moves, Notifying
  <2>3. \A q \in Parties : thr'[q][Main].todo = thr[q][Main].todo
    BY <1>2, <1>11, KindFacts DEF Moves
  <2> QED BY <1>1, <1>7, <2>1, <2>2, <2>3, CountsSame
<1>18. Closing'
  <2>1. \A q \in Parties : thr'[q][Main] = thr[q][Main]
    BY <1>2, <1>11, KindFacts DEF Moves
  <2> QED BY <1>1, <1>7, <2>1 DEF Closing, graphVars
<1>19. Data(prog2, msg, pub, priv, chal)'
  <2>1. UNCHANGED <<reads, cached, chalq, chalNet, outq, net, slot>>
    BY <1>7 DEF diskVars, chalVars, outVars
  <2>2. Plain(p, x, r) /\ r.pc \notin {"read", "write", "getslot"}
    BY <1>7, <1>9, <1>11 DEF Plain
  <2> QED BY <1>1, <1>2, <1>11, <1>13, <2>1, <2>2, PlainData
<1>20. Inv(prog2, place2, msg, pub, priv, chal)'
  BY <1>11, <1>15, <1>16, <1>17, <1>18, <1>19 DEF Inv, Graph
<1> QED BY <1>20 DEF IInv

LEMMA AllEnded ==
  ASSUME NEW prog, Counts(prog), Closing, NEW p \in Parties, noTasks[p]
  PROVE  /\ \A t \in Tasks : ~(prog[p][t] < Done(p, t))
         /\ \A x \in Runners(p) : ~Notifying(p, x)
<1> DEFINE A == {t \in Tasks : prog[p][t] < Done(p, t)}
           B == {x \in Runners(p) : Notifying(p, x)}
<1>1. Cardinality(A) + Cardinality(B) = 0
  BY DEF Counts, Closing
<1>2. IsFiniteSet(A) /\ IsFiniteSet(B)
  BY TasksFinite, RunnersFinite, FS_Subset
<1> HIDE DEF A, B
<1>3. Cardinality(A) \in Nat /\ Cardinality(B) \in Nat
  BY <1>2, FS_CardinalityType
<1>4. Cardinality(A) = 0 /\ Cardinality(B) = 0
  BY <1>1, <1>3
<1>5. A = {} /\ B = {}
  BY <1>2, <1>4, FS_EmptySet
<1> QED BY <1>5 DEF A, B

(* The main thread waits and closes: no stage, read or count moves.        *)
LEMMA MainRests ==
  ASSUME NEW prog, NEW place, NEW msg, NEW pub, NEW priv, NEW chal,
         Inv(prog, place, msg, pub, priv, chal),
         NEW p \in Parties, NEW pc, Goto(p, Main, pc),
         pc \in {"closereads", "closeout", "closechal", "closerun", "finalize", "done"},
         StageFree(thr[p][Main]), thr[p][Main].pc # "update", thr[p][Main].todo = <<>>,
         SharedTypes', UNCHANGED <<slot, graphVars, cached, net, chalNet, panicked>>,
         \A q \in Parties : reads'[q] \subseteq reads[q],
         chalq' = chalq \/ chalq' = <<>>,
         \A q \in Parties : outq'[q] = outq[q] \/ outq'[q] = <<>>,
         \A q \in Parties : runQueue'[q] = runQueue[q] \/ (runQueue'[q] = {} /\ noTasks[q]),
         noTasks[p], \A q \in Parties : ~runOpen'[q] => noTasks[q]
  PROVE  Inv(prog, place, msg, pub, priv, chal)'
<1> DEFINE r == [Idle EXCEPT !.pc = pc]
<1>1. Types /\ NoPanic /\ Graph(prog, place) /\ Data(prog, msg, pub, priv, chal)
      /\ ThreadTypes /\ SharedTypes /\ Shapes /\ Conserved(prog) /\ Launched(prog, place)
      /\ Counts(prog) /\ Closing
  BY DEF Inv, Types, Graph
<1>2. Main \in Threads(p) /\ Main[1] = "main"
  BY KindFacts
<1>3. /\ r \in Records /\ r.pc = pc /\ r.todo = <<>> /\ Do(p, Main, r)
  BY IdleFacts DEF Records, Resting, Goto
<1> HIDE DEF r
<1>4. Moves(p, Main, r) /\ Types' /\ Shapes' /\ NoPanic'
  <2>1. Shape(p, Main, r)
    BY <1>2, <1>3 DEF Shape, MainShape
  <2>2. r.pc \notin Working
    BY <1>3 DEF Working
  <2> QED BY <1>1, <1>2, <1>3, <2>1, <2>2, WorkStep
<1>5. \A q \in Parties : thr'[q][Main].todo = thr[q][Main].todo
  BY <1>3, <1>4, KindFacts DEF Moves
<1>6. Launched(prog, place)' /\ Conserved(prog)'
  <2>1. \A q \in Parties : \/ runQueue'[q] = runQueue[q]
                           \/ /\ runQueue'[q] = {}
                              /\ \A u \in Tasks : ~(prog[q][u] < Done(q, u))
    BY <1>1, AllEnded
  <2>2. \A q \in Parties : \A u \in Tasks : InTodo(q, u)' <=> InTodo(q, u)
    BY <1>5 DEF InTodo
  <2>3. StageFree(r)
    BY <1>3 DEF StageFree
  <2>4. UNCHANGED <<slot, deps>>
    BY DEF graphVars
  <2> QED BY <1>1, <1>2, <1>4, <2>1, <2>2, <2>3, <2>4, StagesSame
<1>7. Counts(prog)'
  <2>1. \A q \in Parties : \A y \in Threads(q) :
           /\ y[1] = "run" => thr'[q][y].todo = thr[q][y].todo
           /\ Notifying(q, y)' <=> Notifying(q, y)
    BY <1>2, <1>4 DEF Moves, Notifying
  <2> QED BY <1>1, <1>5, <2>1, CountsSame
<1>8. Closing'
  <2>1. \A q \in Parties : q # p => thr'[q][Main] = thr[q][Main]
    BY <1>4, KindFacts DEF Moves
  <2>2. UNCHANGED <<noTasks, remaining>>
    BY DEF graphVars
  <2> QED BY <1>1, <2>1, <2>2 DEF Closing
<1>9. Data(prog, msg, pub, priv, chal)'
  <2>1. Numbers(prog) /\ Grows(prog, prog)
    BY <1>1, DoneFacts, GrowsSame
  <2>2. Plain(p, Main, r) /\ r.pc \notin {"read", "write", "getslot"}
    BY <1>3, <1>4 DEF Plain
  <2> QED BY <1>1, <1>2, <1>4, <2>1, <2>2, PlainData
<1> QED BY <1>4, <1>6, <1>7, <1>8, <1>9 DEF Inv, Graph

LEMMA MainFacts ==
  ASSUME Types, Closing, NEW p \in Parties,
         thr[p][Main].pc \in {"closereads", "closeout", "closechal", "closerun", "finalize"}
  PROVE  /\ StageFree(thr[p][Main]) /\ thr[p][Main].pc # "update"
         /\ thr[p][Main].todo = <<>> /\ noTasks[p]
<1>1. Shape(p, Main, thr[p][Main]) /\ Main[1] = "main"
  BY KindFacts DEF Types, Shapes
<1> QED BY <1>1 DEF Shape, MainShape, StageFree, Closing

LEMMA MainWaitKeeps ==
  ASSUME NEW prog, NEW place, NEW msg, NEW pub, NEW priv, NEW chal,
         Inv(prog, place, msg, pub, priv, chal), NEW p \in Parties,
         MainWait(p) \/ Finalize(p)
  PROVE  Inv(prog, place, msg, pub, priv, chal)'
<1>1. Types /\ SharedTypes /\ Closing
  BY DEF Inv, Types, Graph
<1>2. UNCHANGED <<runVars, slot, graphVars, diskVars, outVars, chalVars, panicked>>
  BY DEF MainWait, Finalize, endVars
<1>3. SharedTypes'
  BY <1>1, <1>2 DEF SharedTypes, runVars, graphVars, diskVars, outVars, chalVars
<1>4. /\ UNCHANGED <<runQueue, runOpen, reads, cached, chalq, chalNet, outq, net>>
      /\ \A q \in Parties : ~runOpen'[q] => noTasks[q]
  BY <1>1, <1>2 DEF runVars, diskVars, outVars, chalVars, Closing
<1>5. PICK pc \in {"closereads", "done"} : Goto(p, Main, pc)
  BY DEF MainWait, Finalize
<1>6. /\ StageFree(thr[p][Main]) /\ thr[p][Main].pc # "update" /\ thr[p][Main].todo = <<>>
      /\ noTasks[p]
  BY <1>1, MainFacts DEF MainWait, Finalize, At, StageFree
<1> QED BY <1>2, <1>3, <1>4, <1>5, <1>6, MainRests

LEMMA CloseReadsKeeps ==
  ASSUME NEW prog, NEW place, NEW msg, NEW pub, NEW priv, NEW chal,
         Inv(prog, place, msg, pub, priv, chal), NEW p \in Parties, CloseReads(p)
  PROVE  Inv(prog, place, msg, pub, priv, chal)'
<1>1. Types /\ SharedTypes /\ Closing
  BY DEF Inv, Types, Graph
<1>2. /\ Goto(p, Main, "closeout") /\ thr[p][Main].pc = "closereads"
      /\ reads' = [reads EXCEPT ![p] = {}] /\ readsOpen' = [readsOpen EXCEPT ![p] = FALSE]
      /\ UNCHANGED <<runVars, slot, graphVars, cached, outVars, chalVars, panicked>>
  BY DEF CloseReads, At
<1>3. SharedTypes' /\ \A q \in Parties : reads'[q] \subseteq reads[q]
  BY <1>1, <1>2 DEF SharedTypes, runVars, graphVars, outVars, chalVars
<1>4. /\ UNCHANGED <<runQueue, runOpen, chalq, chalNet, outq, net>>
      /\ \A q \in Parties : ~runOpen'[q] => noTasks[q]
  BY <1>1, <1>2 DEF runVars, outVars, chalVars, Closing
<1> QED BY <1>1, <1>2, <1>3, <1>4, MainFacts, MainRests

LEMMA CloseOutgoingKeeps ==
  ASSUME NEW prog, NEW place, NEW msg, NEW pub, NEW priv, NEW chal,
         Inv(prog, place, msg, pub, priv, chal), NEW p \in Parties, CloseOutgoing(p)
  PROVE  Inv(prog, place, msg, pub, priv, chal)'
<1>1. Types /\ SharedTypes /\ Closing
  BY DEF Inv, Types, Graph
<1>2. /\ thr[p][Main].pc = "closeout"
      /\ outq' = [outq EXCEPT ![p] = <<>>] /\ outOpen' = [outOpen EXCEPT ![p] = FALSE]
      /\ UNCHANGED <<runVars, slot, graphVars, diskVars, net, chalVars, panicked>>
  BY DEF CloseOutgoing, At
<1>3. PICK pc \in {"closechal", "closerun"} : Goto(p, Main, pc)
  BY DEF CloseOutgoing
<1>4. SharedTypes' /\ \A q \in Parties : outq'[q] = outq[q] \/ outq'[q] = <<>>
  <2>1. outq' \in [Parties -> Seq(Messages)] /\ Len(<<>>) <= OutCapacity
    BY <1>1, <1>2, RunnerAssumption DEF SharedTypes
  <2>2. \A q \in Parties : outq'[q] = outq[q] \/ outq'[q] = <<>>
    BY <1>1, <1>2 DEF SharedTypes
  <2> QED BY <1>1, <1>2, <2>1, <2>2 DEF SharedTypes, runVars, graphVars, diskVars, chalVars
<1>5. /\ UNCHANGED <<runQueue, runOpen, reads, cached, chalq, chalNet>>
      /\ \A q \in Parties : ~runOpen'[q] => noTasks[q]
  BY <1>1, <1>2 DEF runVars, diskVars, chalVars, Closing
<1> QED BY <1>1, <1>2, <1>3, <1>4, <1>5, MainFacts, MainRests

LEMMA CloseChallengesKeeps ==
  ASSUME NEW prog, NEW place, NEW msg, NEW pub, NEW priv, NEW chal,
         Inv(prog, place, msg, pub, priv, chal), CloseChallenges
  PROVE  Inv(prog, place, msg, pub, priv, chal)'
<1>1. Types /\ SharedTypes /\ Closing /\ "verifier" \in Parties
  BY DEF Inv, Types, Graph, Parties
<1>2. /\ Goto("verifier", Main, "closerun") /\ thr["verifier"][Main].pc = "closechal"
      /\ chalq' = <<>>
      /\ UNCHANGED <<runVars, slot, graphVars, diskVars, outVars, chalNet, panicked>>
  BY DEF CloseChallenges, At
<1>3. SharedTypes'
  BY <1>1, <1>2 DEF SharedTypes, runVars, graphVars, diskVars, outVars
<1>4. /\ UNCHANGED <<runQueue, runOpen, reads, cached, outq, net>>
      /\ \A q \in Parties : ~runOpen'[q] => noTasks[q]
  BY <1>1, <1>2 DEF runVars, diskVars, outVars, Closing
<1> QED BY <1>1, <1>2, <1>3, <1>4, MainFacts, MainRests

LEMMA CloseRunQueueKeeps ==
  ASSUME NEW prog, NEW place, NEW msg, NEW pub, NEW priv, NEW chal,
         Inv(prog, place, msg, pub, priv, chal), NEW p \in Parties, CloseRunQueue(p)
  PROVE  Inv(prog, place, msg, pub, priv, chal)'
<1>1. Types /\ SharedTypes /\ Closing
  BY DEF Inv, Types, Graph
<1>2. /\ Goto(p, Main, "finalize") /\ thr[p][Main].pc = "closerun"
      /\ runQueue' = [runQueue EXCEPT ![p] = {}] /\ runOpen' = [runOpen EXCEPT ![p] = FALSE]
      /\ UNCHANGED <<slot, graphVars, diskVars, outVars, chalVars, panicked>>
  BY DEF CloseRunQueue, At
<1>3. SharedTypes'
  BY <1>1, <1>2 DEF SharedTypes, graphVars, diskVars, outVars, chalVars
<1>4. UNCHANGED <<reads, cached, chalq, chalNet, outq, net>>
  BY <1>2 DEF diskVars, chalVars, outVars
<1>5. noTasks[p]
  BY <1>1, <1>2, MainFacts
<1>6. /\ \A q \in Parties : runQueue'[q] = runQueue[q] \/ (runQueue'[q] = {} /\ noTasks[q])
      /\ \A q \in Parties : ~runOpen'[q] => noTasks[q]
  BY <1>1, <1>2, <1>5 DEF SharedTypes, Closing
<1> QED BY <1>1, <1>2, <1>3, <1>4, <1>6, MainFacts, MainRests

(* The stage a runner thread holds goes on and stays with the thread.      *)
LEMMA Advances ==
  ASSUME Types, Types', NEW prog, NEW place, Graph(prog, place),
         NEW p \in Parties, NEW x \in Runners(p), NEW r, Moves(p, x, r),
         NEW t \in Tasks, thr[p][x].task = t, r.task = t, r.todo = thr[p][x].todo,
         thr[p][x].pc \in {"send", "blocked", "result"},
         r.pc \in {"send", "blocked", "result", "getslot"},
         r.pc = "getslot" => r.brings = "request" /\ r.step # 0,
         NEW v \in Nat, v > 1, v < Done(p, t), prog[p][t] > 1, prog[p][t] < Done(p, t),
         place[p][t] = OnThread(x),
         StageAt(Put(prog, p, t, v), place, p, x, r),
         UNCHANGED <<runVars, slot, graphVars>>
  PROVE  Graph(Put(prog, p, t, v), place)'
<1> DEFINE prog2 == Put(prog, p, t, v)
<1>1. Launched(prog, place) /\ Conserved(prog) /\ Counts(prog) /\ Closing
      /\ ThreadTypes /\ SharedTypes
  BY DEF Graph, Types
<1>2. x \in Threads(p) /\ x[1] = "run" /\ x # Main
  BY KindFacts
<1>3. /\ prog2[p][t] = v
      /\ \A q \in Parties : \A u \in Tasks : q # p \/ u # t => prog2[q][u] = prog[q][u]
  BY PutFacts
<1>4. prog[p][t] \in Nat /\ Done(p, t) \in Nat
  BY <1>1, DoneFacts DEF Numbers
<1> HIDE DEF prog2
<1>5. Launched(prog2, place)'
  <2>1. \A q \in Parties : runQueue'[q] \subseteq runQueue[q]
    BY DEF runVars
  <2>2. StageAt(prog2, place, p, x, r)
    BY DEF prog2
  <2> QED BY <1>1, <1>2, <1>3, <2>1, <2>2, LaunchedMoves
<1>6. Conserved(prog2)'
  <2>1. Carries(p, x, t)' /\ \A u : Carries(p, x, u) => u = t
    BY <1>2 DEF Carries, Moves
  <2>2. UNCHANGED <<slot, deps>> /\ \A q \in Parties : \A u \in Tasks : InTodo(q, u)' <=> InTodo(q, u)
    BY <1>2, KindFacts DEF graphVars, InTodo, Moves
  <2>3. ~(deps[p][t] > 0 \/ InTodo(p, t))
    BY <1>1, <1>4 DEF Conserved
  <2>4. prog2[p][t] \in 0 .. Done(p, t) /\ prog2[p][t] # 0
    BY <1>3, <1>4
  <2>5. \A q \in Parties : runQueue'[q] = runQueue[q]
    BY DEF runVars
  <2> QED BY <1>1, <1>2, <1>3, <2>1, <2>2, <2>3, <2>4, <2>5, ConservedMoves
<1>7. Counts(prog2)'
  <2>1. \A q \in Parties : \A u \in Tasks :
           /\ prog2[q][u] < Done(q, u) <=> prog[q][u] < Done(q, u)
           /\ prog2[q][u] = Done(q, u) <=> prog[q][u] = Done(q, u)
           /\ prog2[q][u] <= 1 <=> prog[q][u] <= 1
    BY <1>3, <1>4
  <2>2. \A q \in Parties : \A y \in Threads(q) :
           /\ y[1] = "run" => thr'[q][y].todo = thr[q][y].todo
           /\ Notifying(q, y)' <=> Notifying(q, y)
    BY DEF Moves, Notifying
  <2>3. \A q \in Parties : thr'[q][Main].todo = thr[q][Main].todo
    BY <1>2, KindFacts DEF Moves
  <2> QED BY <1>1, <2>1, <2>2, <2>3, CountsSame
<1>8. Closing'
  <2>1. \A q \in Parties : thr'[q][Main] = thr[q][Main]
    BY <1>2, KindFacts DEF Moves
  <2> QED BY <1>1, <2>1 DEF Closing, graphVars, runVars
<1> QED BY <1>5, <1>6, <1>7, <1>8 DEF Graph, prog2

LEMMA NextStageKeeps ==
  ASSUME NEW prog, NEW place, NEW msg, NEW pub, NEW priv, NEW chal,
         Inv(prog, place, msg, pub, priv, chal),
         NEW p \in Parties, NEW x \in Runners(p), NextStage(p, x)
  PROVE  IInv'
<1>1. Types /\ NoPanic /\ Graph(prog, place) /\ Data(prog, msg, pub, priv, chal)
      /\ ThreadTypes /\ SharedTypes /\ Shapes /\ Conserved(prog) /\ Launched(prog, place)
  BY DEF Inv, Types, Graph
<1>2. x \in Threads(p) /\ x[1] = "run"
  BY KindFacts
<1>3. thr[p][x].pc = "result" /\ thr[p][x] \in Records
      /\ thr[p][x].task \in Tasks /\ thr[p][x].step \in Nat
  BY <1>1, <1>2, RecordFacts DEF NextStage, Working
<1>4. PICK t \in Tasks : t = thr[p][x].task
  BY <1>3
<1>5. PICK s \in Nat : s = thr[p][x].step
  BY <1>3
<1> DEFINE o == thr[p][x]
           r == [o EXCEPT !.pc = "getslot", !.step = s + 1, !.brings = "request"]
           v == 3 * s + 5
           prog2 == Put(prog, p, t, v)
<1>6. prog[p][t] = 3 * s + 4 /\ 3 * s + 4 < Done(p, t) /\ place[p][t] = OnThread(x)
  <2>1. StageAt(prog, place, p, x, o)
    BY <1>1, <1>2 DEF Launched
  <2> QED BY <1>3, <1>4, <1>5, <2>1 DEF StageAt, Stands
<1>7. s + 1 < ExpectedSteps(p, t) /\ ExpectedSteps(p, t) \in Nat
  BY <1>4, <1>5, StageFacts DEF NextStage
<1>8. /\ Do(p, x, r)
      /\ UNCHANGED <<runVars, slot, graphVars, diskVars, outVars, chalVars, endVars>>
  BY <1>4, <1>5, <1>7 DEF NextStage
<1>9. /\ r \in Records /\ r.pc = "getslot" /\ r.task = t /\ r.step = s + 1
      /\ r.brings = "request" /\ r.todo = o.todo /\ r.hit = o.hit
  <2>1. o \in Records /\ o.task = t
    BY <1>3, <1>4
  <2> DEFINE s1 == s + 1
  <2>2. s1 \in Nat
    OBVIOUS
  <2> HIDE DEF o, s1
  <2>3. r = [o EXCEPT !.pc = "getslot", !.step = s1, !.brings = "request"]
    BY DEF s1
  <2> HIDE DEF r
  <2>4. r \in Records
    BY <2>1, <2>2, <2>3 DEF Records, Working, Cargo
  <2>5. /\ r.pc = "getslot" /\ r.task = o.task /\ r.step = s1
        /\ r.brings = "request" /\ r.todo = o.todo /\ r.hit = o.hit
    BY <2>1, <2>3 DEF Records
  <2> QED BY <2>1, <2>4, <2>5 DEF s1
<1> HIDE DEF r
<1>10. o.todo = <<>> /\ o.hit = FALSE
  <2>1. o.hit \in BOOLEAN
    BY <1>1, <1>2, RecordFacts
  <2> QED BY <1>1, <1>2, <1>3, <2>1 DEF Shapes, Shape, RunShape
<1>11. SharedTypes'
  BY <1>1, <1>8 DEF SharedTypes, runVars, graphVars, diskVars, outVars, chalVars, endVars
<1>12. Moves(p, x, r) /\ Types' /\ Shapes' /\ NoPanic'
  <2>1. Shape(p, x, r)
    BY <1>2, <1>9, <1>10 DEF Shape, RunShape
  <2>2. UNCHANGED panicked
    BY <1>8 DEF endVars
  <2> QED BY <1>1, <1>2, <1>8, <1>9, <1>11, <2>1, <2>2, WorkStep
<1>13. v \in Nat /\ v > 1 /\ v < Done(p, t) /\ v = 3 * (s + 1) + 2
  BY <1>7 DEF Done
<1>14. Numbers(prog) /\ Numbers(prog2) /\ Grows(prog, prog2)
  <2>1. Numbers(prog)
    BY <1>1, DoneFacts
  <2>2. v >= prog[p][t] /\ \A j \in Nat : v >= 3 * j + 3 => prog[p][t] >= 3 * j + 3
    BY <1>6
  <2> HIDE DEF v
  <2> QED BY <1>13, <2>1, <2>2, GrowsPut
<1>15. Graph(prog2, place)'
  <2>1. StageAt(prog2, place, p, x, r)
    <3>1. prog2[p][t] = v
      <4> HIDE DEF v
      <4> QED BY DEF Put
    <3>2. Stands(prog2, place, p, t, v, OnThread(x))
      BY <1>6, <1>13, <3>1 DEF Stands
    <3> QED BY <1>9, <1>13, <3>2 DEF StageAt
  <2>2. r.step # 0
    BY <1>9
  <2>3. prog[p][t] > 1
    BY <1>6
  <2> HIDE DEF v
  <2> QED BY <1>1, <1>3, <1>4, <1>6, <1>8, <1>9, <1>12, <1>13, <2>1, <2>2, <2>3, Advances
<1>16. Data(prog2, msg, pub, priv, chal)'
  <2>1. UNCHANGED <<reads, cached, chalq, chalNet, outq, net, slot>>
    BY <1>8 DEF diskVars, chalVars, outVars
  <2>2. Plain(p, x, r)
    BY <1>3, <1>9, <1>12 DEF Plain
  <2> QED BY <1>1, <1>2, <1>9, <1>10, <1>12, <1>14, <2>1, <2>2, PlainData
<1>17. Inv(prog2, place, msg, pub, priv, chal)'
  BY <1>12, <1>15, <1>16 DEF Inv
<1> QED BY <1>17 DEF IInv

(* A stage that has not sent yet has no older message of its task under    *)
(* way: it would not have started before the peer took that up.            *)
LEMMA NoneUnderWay ==
  ASSUME NEW prog, NEW msg, Numbers(prog), Causal(prog), NEW p \in Parties, NEW t \in Tasks,
         NEW k \in Nat, Outgoing(p, t, k), prog[p][t] = 3 * k + 3,
         NEW j \in Nat, NEW w, UnderWay(prog, msg, p, t, j, w)
  PROVE  FALSE
<1> DEFINE q == Peer(p)
<1>1. q \in Parties /\ prog[q][t] \in Nat
  BY Peers DEF Numbers
<1>2. j < k
  BY DEF UnderWay
<1>3. k < ExpectedSteps(p, t) /\ k \in 0 .. ExpectedSteps(p, t) - 1 /\ Incoming(p, t, k)
  BY <1>2, MessageFacts, StageFacts
<1>4. prog[q][t] >= 3 * RoundFor(p, t, k) + 4
  BY <1>3 DEF Causal
<1>5. prog[q][t] < 3 * StageFor(q, t, j) + 3
  BY DEF UnderWay
<1>6. IsA(q, t) <=> ~IsA(p, t)
  BY ManifestAssumption DEF IsA, Parties, Peer
<1> HIDE DEF q
<1> QED BY <1>1, <1>2, <1>4, <1>5, <1>6 DEF RoundFor, StageFor

LEMMA SendOutgoingKeeps ==
  ASSUME NEW prog, NEW place, NEW msg, NEW pub, NEW priv, NEW chal,
         Inv(prog, place, msg, pub, priv, chal),
         NEW p \in Parties, NEW x \in Runners(p), SendOutgoing(p, x)
  PROVE  IInv'
<1>1. Types /\ NoPanic /\ Graph(prog, place) /\ Data(prog, msg, pub, priv, chal)
      /\ ThreadTypes /\ SharedTypes /\ Shapes /\ Conserved(prog) /\ Launched(prog, place)
      /\ Flights(prog, msg) /\ Causal(prog)
  BY DEF Inv, Types, Graph, Data
<1>2. x \in Threads(p) /\ x[1] = "run"
  BY KindFacts
<1>3. thr[p][x].pc \in {"send", "blocked"} /\ thr[p][x] \in Records
      /\ thr[p][x].task \in Tasks /\ thr[p][x].step \in Nat
  BY <1>1, <1>2, RecordFacts DEF SendOutgoing, Working
<1>4. PICK t \in Tasks : t = thr[p][x].task
  BY <1>3
<1>5. PICK s \in Nat : s = thr[p][x].step
  BY <1>3
<1> DEFINE o == thr[p][x]
           m == [task |-> t, round |-> s]
<1>6. /\ prog[p][t] = 3 * s + 3 /\ 3 * s + 3 < Done(p, t) /\ place[p][t] = OnThread(x)
      /\ Outgoing(p, t, s)
  <2>1. StageAt(prog, place, p, x, o)
    BY <1>1, <1>2 DEF Launched
  <2> QED BY <1>3, <1>4, <1>5, <2>1 DEF StageAt, Stands
<1>7. UNCHANGED <<runVars, slot, graphVars, diskVars, outOpen, net, chalVars, rootConn, panicked>>
  BY DEF SendOutgoing
<1>8. PICK pc \in {"blocked", "result"} :
        /\ Do(p, x, [o EXCEPT !.pc = pc])
        /\ \/ outq' = outq
           \/ /\ pc = "result" /\ ~(Len(outq[p]) >= OutCapacity)
              /\ outq' = [outq EXCEPT ![p] = Append(@, m)]
  BY <1>4, <1>5 DEF SendOutgoing, Queued, Message
<1> DEFINE r == [o EXCEPT !.pc = pc]
           v == IF pc = "result" THEN 3 * s + 4 ELSE 3 * s + 3
           prog2 == Put(prog, p, t, v)
<1>9. /\ r \in Records /\ r.pc = pc /\ r.task = t /\ r.step = s /\ r.brings = o.brings
      /\ r.todo = o.todo /\ r.hit = o.hit
  <2>1. o \in Records /\ o.task = t /\ o.step = s
    BY <1>3, <1>4, <1>5
  <2> HIDE DEF o
  <2> QED BY <2>1 DEF Records, Working
<1>10. Do(p, x, r)
  BY <1>8
<1> HIDE DEF r
<1>11. o.todo = <<>> /\ o.hit = FALSE
  <2>1. o.hit \in BOOLEAN
    BY <1>1, <1>2, RecordFacts
  <2> QED BY <1>1, <1>2, <1>3, <2>1 DEF Shapes, Shape, RunShape
<1>12. outq[p] \in Seq(Messages) /\ m \in Messages /\ m.task = t /\ m.round = s
  BY <1>1 DEF SharedTypes, Messages
<1> HIDE DEF m
<1>13. SharedTypes'
  <2>1. CASE outq' = outq
    BY <1>1, <1>7, <2>1 DEF SharedTypes, runVars, graphVars, diskVars, chalVars
  <2>2. CASE /\ ~(Len(outq[p]) >= OutCapacity)
             /\ outq' = [outq EXCEPT ![p] = Append(@, m)]
    <3>1. outq' \in [Parties -> Seq(Messages)]
      BY <1>1, <1>12, <2>2, AppendFacts DEF SharedTypes
    <3>2. outq'[p] = Append(outq[p], m) /\ \A q \in Parties : q # p => outq'[q] = outq[q]
      BY <1>1, <2>2 DEF SharedTypes
    <3>3. Len(outq'[p]) <= OutCapacity
      <4>1. OutCapacity \in Nat
        BY RunnerAssumption
      <4>2. Len(outq'[p]) = Len(outq[p]) + 1 /\ Len(outq[p]) \in Nat
        BY <1>12, <3>2, AppendFacts
      <4> QED BY <2>2, <4>1, <4>2
    <3> QED BY <1>1, <1>7, <3>1, <3>2, <3>3 DEF SharedTypes, runVars, graphVars, diskVars, chalVars
  <2> QED BY <1>8, <2>1, <2>2
<1>14. Moves(p, x, r) /\ Types' /\ Shapes' /\ NoPanic'
  <2>1. Shape(p, x, r)
    BY <1>2, <1>9, <1>11 DEF Shape, RunShape
  <2> QED BY <1>1, <1>2, <1>4, <1>7, <1>9, <1>10, <1>13, <2>1, WorkStep
<1>15. v \in Nat /\ v > 1 /\ v < Done(p, t) /\ v >= 3 * s + 3 /\ v <= 3 * s + 4
  <2>1. Done(p, t) = 3 * ExpectedSteps(p, t) + 2 /\ ExpectedSteps(p, t) \in Nat
    BY <1>4, StageFacts DEF Done
  <2> QED BY <1>6, <2>1
<1>16. Numbers(prog) /\ Numbers(prog2) /\ Grows(prog, prog2)
  <2>1. Numbers(prog)
    BY <1>1, DoneFacts
  <2>2. v >= prog[p][t] /\ \A j \in Nat : v >= 3 * j + 3 => prog[p][t] >= 3 * j + 3
    BY <1>6, <1>15
  <2> HIDE DEF v
  <2> QED BY <1>15, <2>1, <2>2, GrowsPut
<1>17. prog2[p][t] = v
  BY DEF Put
<1>18. Graph(prog2, place)'
  <2>1. StageAt(prog2, place, p, x, r)
    <3>1. Stands(prog2, place, p, t, v, OnThread(x))
      BY <1>6, <1>15, <1>17 DEF Stands
    <3> QED BY <1>6, <1>9, <3>1 DEF StageAt
  <2>2. prog[p][t] > 1
    BY <1>6
  <2> HIDE DEF v
  <2> QED BY <1>1, <1>3, <1>4, <1>6, <1>7, <1>9, <1>14, <1>15, <2>1, <2>2, Advances
<1>19. Plain(p, x, r) /\ r.pc \notin {"read", "write", "getslot"}
  BY <1>3, <1>9, <1>14 DEF Plain
<1>20. UNCHANGED <<reads, cached, chalq, chalNet, net, slot>>
  BY <1>7 DEF diskVars, chalVars
<1>21. CASE outq' = outq
  <2>1. Data(prog2, msg, pub, priv, chal)'
    BY <1>1, <1>2, <1>14, <1>16, <1>19, <1>20, <1>21, PlainData
  <2>2. Inv(prog2, place, msg, pub, priv, chal)'
    BY <1>14, <1>18, <2>1 DEF Inv
  <2> QED BY <2>2 DEF IInv
<1>22. CASE pc = "result" /\ outq' = [outq EXCEPT ![p] = Append(@, m)]
  <2> DEFINE msg2 == Put(msg, p, t, InQueue)
  <2>1. SlotTable' /\ PublicData(prog2, pub)' /\ PrivateData(prog2, priv)'
          /\ Challenges(prog2, chal)' /\ Causal(prog2)'
    BY <1>1, <1>2, <1>14, <1>16, <1>19, <1>20, DataPlain DEF BringsNo
  <2>2. \A q \in Parties : \A u \in Tasks : \A j \in Nat : \A w :
          UnderWay(prog, msg, q, u, j, w) =>
            /\ q # p \/ u # t
            /\ UnderWay(prog2, msg2, q, u, j, w)
    <3> SUFFICES ASSUME NEW q \in Parties, NEW u \in Tasks, NEW j \in Nat, NEW w,
                        UnderWay(prog, msg, q, u, j, w)
                 PROVE  /\ q # p \/ u # t
                        /\ UnderWay(prog2, msg2, q, u, j, w)
      OBVIOUS
    <3>1. q # p \/ u # t
      BY <1>1, <1>6, <1>16, NoneUnderWay
    <3>2. UnderWay(prog2, msg, q, u, j, w)
      <4> HIDE DEF prog2
      <4> QED BY <1>16, UnderWayGrows
    <3> HIDE DEF prog2
    <3> QED BY <3>1, <3>2, UnderWayMoves
  <2>3. UnderWay(prog2, msg2, p, t, s, InQueue)
    <3> DEFINE q == Peer(p)
               z == StageFor(q, t, s)
    <3>1. /\ q \in Parties /\ q # p /\ Peer(q) = p /\ z \in 0 .. ExpectedSteps(q, t) - 1
          /\ Incoming(q, t, z) /\ RoundFor(q, t, z) = s
      BY <1>6, Peers, MessageFacts, StageFacts
    <3>2. prog2[q][t] = prog[q][t] /\ prog[q][t] \in Nat
      BY <1>16, <3>1, PutFacts DEF Numbers, Put
    <3>3. prog[q][t] < 3 * z + 3
      <4>1. SUFFICES ASSUME prog[q][t] >= 3 * z + 3 PROVE FALSE
        BY <3>1, <3>2
      <4>2. prog[p][t] >= 3 * s + 4
        BY <1>1, <3>1, <4>1 DEF Causal
      <4> QED BY <1>6, <4>2
    <3>4. prog2[p][t] >= 3 * s + 4 /\ msg2[p][t] = InQueue
      BY <1>17, <1>22 DEF Put
    <3> HIDE DEF prog2, msg2
    <3> QED BY <1>6, <3>2, <3>3, <3>4 DEF UnderWay
  <2>4. Flights(prog2, msg2)'
    <3> SUFFICES ASSUME NEW q \in Parties PROVE SentBy(prog2, msg2, q)'
      BY FlightsBySender
    <3>1. SentBy(prog, msg, q) /\ Peer(q) \in Parties
      BY <1>1, FlightsBySender, Peers
    <3>2. /\ \A y \in Ins : thr'[Peer(q)][y] = thr[Peer(q)][y]
          /\ \A y \in Outs : thr'[q][y] = thr[q][y]
          /\ slot' = slot /\ net' = net
      BY <1>2, <1>14, <1>20, <3>1, KindFacts DEF Moves
    <3>3. \A u, j, w : UnderWay(prog2, msg2, q, u, j, w)' <=> UnderWay(prog2, msg2, q, u, j, w)
      BY DEF UnderWay
    <3> HIDE DEF prog2, msg2
    <3>4. \A i \in DOMAIN outq'[q] :
           /\ UnderWay(prog2, msg2, q, outq'[q][i].task, outq'[q][i].round, InQueue)
           /\ \A j \in DOMAIN outq'[q] : outq'[q][i].task = outq'[q][j].task => i = j
      <4>1. \A i \in DOMAIN outq[q] :
              /\ UnderWay(prog2, msg2, q, outq[q][i].task, outq[q][i].round, InQueue)
              /\ \A j \in DOMAIN outq[q] : outq[q][i].task = outq[q][j].task => i = j
              /\ q # p \/ outq[q][i].task # t
        BY <1>1, <2>2, <3>1, MessagesNamed DEF SentBy
      <4>2. CASE q # p
        <5>1. outq'[q] = outq[q]
          BY <1>1, <1>22, <4>2 DEF SharedTypes
        <5> QED BY <4>1, <5>1
      <4>3. CASE q = p
        <5>1. outq'[p] = Append(outq[p], m)
          BY <1>1, <1>22 DEF SharedTypes
        <5>2. \A i \in DOMAIN outq'[p] :
                \/ i \in DOMAIN outq[p] /\ outq'[p][i] = outq[p][i]
                \/ i = Len(outq[p]) + 1 /\ outq'[p][i] = m
          BY <1>12, <5>1, AppendFacts
        <5>3. \A i \in DOMAIN outq'[p] :
                UnderWay(prog2, msg2, p, outq'[p][i].task, outq'[p][i].round, InQueue)
          BY <1>12, <2>3, <4>1, <4>3, <5>2
        <5>4. \A i, j \in DOMAIN outq'[p] : outq'[p][i].task = outq'[p][j].task => i = j
          BY <1>12, <4>1, <4>3, <5>2
        <5> QED BY <4>3, <5>3, <5>4
      <4> QED BY <4>2, <4>3
    <3>5. \A y \in Outs : thr'[q][y].pc = "write" =>
            UnderWay(prog2, msg2, q, thr'[q][y].task, thr'[q][y].step, OnThread(y))
      BY <1>1, <2>2, <3>1, <3>2, MessagesNamed, KindFacts DEF SentBy
    <3>6. \A c \in 1 .. NumConns : \A i \in DOMAIN net[q][c] :
           /\ UnderWay(prog2, msg2, q, net[q][c][i].task, net[q][c][i].round, OnNet(c))
           /\ \A j \in DOMAIN net[q][c] : net[q][c][i].task = net[q][c][j].task => i = j
      BY <1>1, <2>2, <3>1, MessagesNamed DEF SentBy
    <3>7. \A y \in Ins : thr'[Peer(q)][y].pc \in {"getslot", "update"} =>
           UnderWay(prog2, msg2, q, thr'[Peer(q)][y].task, thr'[Peer(q)][y].step, OnThread(y))
      BY <1>1, <2>2, <3>1, <3>2, MessagesNamed, KindFacts DEF SentBy
    <3>8. \A u \in Tasks : slot[Peer(q)][u].inc >= 0 =>
           UnderWay(prog2, msg2, q, u, slot[Peer(q)][u].inc, InSlot)
      BY <1>1, <2>2, <3>1, MessagesNamed DEF SentBy
    <3> QED BY <3>2, <3>3, <3>4, <3>5, <3>6, <3>7, <3>8 DEF SentBy
  <2>5. Inv(prog2, place, msg2, pub, priv, chal)'
    BY <1>14, <1>18, <2>1, <2>4 DEF Inv, Data
  <2> QED BY <2>5 DEF IInv
<1> QED BY <1>8, <1>21, <1>22

LEMMA CountsFacts ==
  ASSUME NEW prog, Counts(prog), NEW p \in Parties
  PROVE  /\ \A t \in Tasks :
              /\ IsFiniteSet(Pending(p, t))
              /\ deps[p][t] = Cardinality(Waiting(prog, p, t)) + Cardinality(Pending(p, t))
              /\ deps[p][t] <= Len(Inputs[t])
              /\ left[p][t] = Cardinality(Untaken(prog, p, t))
              /\ t \in held[p] <=> prog[p][t] = Done(p, t) /\ left[p][t] > 0
         /\ remaining[p] = Cardinality({t \in Tasks : prog[p][t] < Done(p, t)})
                             + Cardinality({x \in Runners(p) : Notifying(p, x)})
         /\ \A i \in DOMAIN thr[p][Main].todo :
              /\ Inputs[thr[p][Main].todo[i]] = <<>>
              /\ \A j \in DOMAIN thr[p][Main].todo :
                   thr[p][Main].todo[i] = thr[p][Main].todo[j] => i = j
BY DEF Counts

LEMMA CountsTask ==
  ASSUME NEW prog, Counts(prog), NEW p \in Parties, NEW t \in Tasks
  PROVE  /\ IsFiniteSet(Pending(p, t))
         /\ deps[p][t] = Cardinality(Waiting(prog, p, t)) + Cardinality(Pending(p, t))
         /\ deps[p][t] <= Len(Inputs[t])
         /\ left[p][t] = Cardinality(Untaken(prog, p, t))
         /\ t \in held[p] <=> prog[p][t] = Done(p, t) /\ left[p][t] > 0
BY DEF Counts

(* The sets that are counted are finite.                                   *)
LEMMA CountedFinite ==
  ASSUME NEW f, NEW p \in Parties, NEW t \in Tasks
  PROVE  /\ IsFiniteSet(Waiting(f, p, t)) /\ Cardinality(Waiting(f, p, t)) \in Nat
         /\ IsFiniteSet(Untaken(f, p, t)) /\ Cardinality(Untaken(f, p, t)) \in Nat
         /\ LET A == {u \in Tasks : f[p][u] < Done(p, u)}
            IN  IsFiniteSet(A) /\ Cardinality(A) \in Nat
         /\ LET B == {x \in Runners(p) : Notifying(p, x)}
            IN  IsFiniteSet(B) /\ Cardinality(B) \in Nat
<1> DEFINE A == {u \in Tasks : f[p][u] < Done(p, u)}
           B == {x \in Runners(p) : Notifying(p, x)}
<1>1. IsFiniteSet(Waiting(f, p, t))
  BY InputsType, FS_Subset DEF Waiting
<1>2. IsFiniteSet(Untaken(f, p, t))
  BY UsesOrdered, FS_Subset DEF Untaken
<1>3. IsFiniteSet(A)
  BY TasksFinite, FS_Subset
<1>4. IsFiniteSet(B)
  BY RunnersFinite, FS_Subset
<1> HIDE DEF A, B
<1>5. \A S : IsFiniteSet(S) => Cardinality(S) \in Nat
  BY FS_CardinalityType
<1> QED BY <1>1, <1>2, <1>3, <1>4, <1>5 DEF A, B

LEMMA TailBack ==
  ASSUME NEW S, NEW s \in Seq(S), s # <<>>, NEW i \in DOMAIN s, i # 1
  PROVE  i - 1 \in DOMAIN Tail(s) /\ Tail(s)[i - 1] = s[i]
<1>1. i \in 2 .. Len(s) /\ Len(Tail(s)) = Len(s) - 1
  OBVIOUS
<1> QED BY <1>1

(* The main thread takes the next of the tasks that are ready initially.   *)
LEMMA MainNextKeeps ==
  ASSUME NEW prog, NEW place, NEW msg, NEW pub, NEW priv, NEW chal,
         Inv(prog, place, msg, pub, priv, chal), NEW p \in Parties, MainNext(p)
  PROVE  IInv'
<1>1. Types /\ NoPanic /\ Graph(prog, place) /\ Data(prog, msg, pub, priv, chal)
      /\ ThreadTypes /\ SharedTypes /\ Shapes /\ Conserved(prog) /\ Launched(prog, place)
      /\ Counts(prog) /\ Closing
  BY DEF Inv, Types, Graph
<1> DEFINE x == Main
           o == thr[p][x]
<1>2. x \in Threads(p) /\ x[1] = "main"
  BY KindFacts
<1>3. o.pc = "todo" /\ o.todo # <<>> /\ o \in Records /\ o.todo \in Seq(Tasks)
  BY <1>1, <1>2, RecordFacts DEF MainNext
<1>4. PICK t \in Tasks : t = Head(o.todo)
  BY <1>3, TailFacts
<1> DEFINE r == [o EXCEPT !.pc = "launch", !.task = t, !.todo = Tail(o.todo)]
           prog2 == Put(prog, p, t, 1)
           place2 == Put(place, p, t, OnThread(x))
<1>5. /\ Do(p, x, r)
      /\ UNCHANGED <<runVars, slot, graphVars, diskVars, outVars, chalVars, endVars>>
  BY <1>4 DEF MainNext
<1>6. Tail(o.todo) \in Seq(Tasks)
  BY <1>3, TailFacts
<1>7. r \in Records /\ r.pc = "launch" /\ r.task = t /\ r.todo = Tail(o.todo)
  <2>1. t \in Nat
    BY TasksFinite
  <2> DEFINE w == Tail(o.todo)
  <2> HIDE DEF o, w
  <2>2. r = [o EXCEPT !.pc = "launch", !.task = t, !.todo = w]
    BY DEF w
  <2> HIDE DEF r
  <2>3. w \in Seq(Tasks)
    BY <1>6 DEF w
  <2>4. r \in Records
    BY <1>3, <2>1, <2>2, <2>3 DEF Records, Working
  <2>5. r.pc = "launch" /\ r.task = t /\ r.todo = w
    BY <1>3, <2>2 DEF Records
  <2> QED BY <2>4, <2>5 DEF w
<1> HIDE DEF r
<1>8. SharedTypes'
  BY <1>1, <1>5 DEF SharedTypes, runVars, graphVars, diskVars, outVars, chalVars, endVars
<1>9. Moves(p, x, r) /\ Types' /\ Shapes' /\ NoPanic'
  <2>1. Shape(p, x, r)
    BY <1>2, <1>7 DEF Shape, MainShape
  <2>2. UNCHANGED panicked
    BY <1>5 DEF endVars
  <2> QED BY <1>1, <1>2, <1>5, <1>7, <1>8, <2>1, <2>2, WorkStep
(* Nothing else lists the task, and it has no inputs. *)
<1>10. InTodo(p, t) /\ ~InTodo(p, t)' /\ \A u \in Tasks \ {t} : InTodo(p, u)' <=> InTodo(p, u)
  <2> DEFINE w == o.todo
  <2>1. thr'[p][Main].todo = Tail(w)
    BY <1>7, <1>9 DEF Moves
  <2>2. /\ \A i \in DOMAIN Tail(w) : i + 1 \in DOMAIN w /\ Tail(w)[i] = w[i + 1] /\ i + 1 # 1
        /\ 1 \in DOMAIN w /\ w[1] = t
    BY <1>3, <1>4, TailFacts
  <2>3. \A i, j \in DOMAIN w : w[i] = w[j] => i = j
    BY <1>1 DEF Counts
  <2>4. \A i \in DOMAIN w : i # 1 => i - 1 \in DOMAIN Tail(w) /\ Tail(w)[i - 1] = w[i]
    BY <1>3, TailBack
  <2>5. InTodo(p, t)
    BY <2>2 DEF InTodo
  <2>6. ~InTodo(p, t)'
    BY <2>1, <2>2, <2>3 DEF InTodo
  <2> HIDE DEF w
  <2>7. ASSUME NEW u \in Tasks \ {t} PROVE InTodo(p, u)' <=> InTodo(p, u)
    <3>1. InTodo(p, u)' <=> \E i \in DOMAIN Tail(w) : Tail(w)[i] = u
      BY <2>1 DEF InTodo
    <3>2. InTodo(p, u) <=> \E i \in DOMAIN w : w[i] = u
      BY DEF InTodo, w
    <3> QED BY <2>2, <2>4, <3>1, <3>2
  <2> QED BY <2>5, <2>6, <2>7
<1>11. deps[p][t] = 0 /\ prog[p][t] = 0
  <2>1. Inputs[t] = <<>>
    <3>1. \A i \in DOMAIN o.todo : Inputs[o.todo[i]] = <<>>
      BY <1>1 DEF Counts
    <3>2. 1 \in DOMAIN o.todo /\ o.todo[1] = t
      BY <1>3, <1>4, TailFacts
    <3> QED BY <3>1, <3>2
  <2>2. deps[p][t] \in Nat /\ deps[p][t] <= 0
    <3>1. deps[p][t] \in Nat /\ deps[p][t] <= Len(Inputs[t])
      BY <1>1, CountsFacts DEF SharedTypes
    <3> QED BY <2>1, <3>1
  <2> QED BY <1>1, <1>10, <2>2 DEF Conserved
<1>12. /\ prog2[p][t] = 1 /\ place2[p][t] = OnThread(x)
       /\ \A q \in Parties : \A u \in Tasks : q # p \/ u # t =>
            prog2[q][u] = prog[q][u] /\ place2[q][u] = place[q][u]
  BY DEF Put
<1>13. Numbers(prog) /\ Numbers(prog2) /\ Grows(prog, prog2)
  <2>1. Numbers(prog)
    BY <1>1, DoneFacts
  <2>2. 1 >= prog[p][t] /\ \A j \in Nat : 1 >= 3 * j + 3 => prog[p][t] >= 3 * j + 3
    BY <1>11
  <2> QED BY <2>1, <2>2, GrowsPut
<1>14. Done(p, t) \in Nat /\ Done(p, t) >= 5
  BY <1>1, DoneFacts
<1> HIDE DEF prog2, place2
<1>15. Launched(prog2, place2)'
  <2>1. StageAt(prog2, place2, p, x, r)
    BY <1>7, <1>12, <1>14 DEF StageAt, Stands
  <2>2. UNCHANGED slot /\ \A q \in Parties : runQueue'[q] \subseteq runQueue[q]
    BY <1>5 DEF runVars
  <2> QED BY <1>1, <1>2, <1>9, <1>11, <1>12, <2>1, <2>2, LaunchedMoves
<1>16. Conserved(prog2)'
  <2>1. Carries(p, x, t)' /\ \A u : ~Carries(p, x, u)
    BY <1>3, <1>7, <1>9 DEF Carries, Moves
  <2>2. UNCHANGED <<runQueue, slot, deps>>
    BY <1>5 DEF runVars, graphVars
  <2>3. \A q \in Parties : \A u \in Tasks : q # p \/ u # t => (InTodo(q, u)' <=> InTodo(q, u))
    <3>1. \A q \in Parties : q # p => thr'[q][Main] = thr[q][Main]
      BY <1>9, KindFacts DEF Moves
    <3> QED BY <1>10, <3>1 DEF InTodo
  <2>4. prog2[p][t] \in 0 .. Done(p, t) /\ prog2[p][t] # 0
    BY <1>12, <1>14
  <2> QED BY <1>1, <1>2, <1>9, <1>10, <1>11, <1>12, <2>1, <2>2, <2>3, <2>4, ConservedMoves
<1>17. Counts(prog2)'
  <2>1. \A q \in Parties : \A u \in Tasks :
           /\ prog2[q][u] < Done(q, u) <=> prog[q][u] < Done(q, u)
           /\ prog2[q][u] = Done(q, u) <=> prog[q][u] = Done(q, u)
           /\ prog2[q][u] <= 1 <=> prog[q][u] <= 1
    BY <1>11, <1>12, <1>14
  <2>2. \A q \in Parties : \A y \in Threads(q) :
           /\ y[1] = "run" => thr'[q][y].todo = thr[q][y].todo
           /\ Notifying(q, y)' <=> Notifying(q, y)
    BY <1>2, <1>9 DEF Moves, Notifying
  <2>3. \A q \in Parties :
           \/ thr'[q][Main].todo = thr[q][Main].todo
           \/ /\ thr[q][Main].todo \in Seq(Tasks) /\ thr[q][Main].todo # <<>>
              /\ thr'[q][Main].todo = Tail(thr[q][Main].todo)
    BY <1>3, <1>7, <1>9, KindFacts DEF Moves
  <2> QED BY <1>1, <1>5, <2>1, <2>2, <2>3, CountsSame
<1>18. Closing'
  <2>1. thr'[p][Main].pc = "launch" /\ \A q \in Parties : q # p => thr'[q][Main] = thr[q][Main]
    BY <1>7, <1>9, KindFacts DEF Moves
  <2> QED BY <1>1, <1>5, <2>1 DEF Closing, graphVars, runVars
<1>19. Data(prog2, msg, pub, priv, chal)'
  <2>1. UNCHANGED <<reads, cached, chalq, chalNet, outq, net, slot>>
    BY <1>5 DEF diskVars, chalVars, outVars
  <2>2. Plain(p, x, r) /\ r.pc \notin {"read", "write", "getslot"}
    BY <1>3, <1>7, <1>9 DEF Plain
  <2> QED BY <1>1, <1>2, <1>9, <1>13, <2>1, <2>2, PlainData
<1>20. Inv(prog2, place2, msg, pub, priv, chal)'
  BY <1>9, <1>15, <1>16, <1>17, <1>18, <1>19 DEF Inv, Graph
<1> QED BY <1>20 DEF IInv

(* How the places in the lists of dependents move with one list.           *)
LEMMA PendingMoves ==
  ASSUME ThreadTypes, ThreadTypes', NEW p \in Parties, NEW x \in Runners(p), NEW r,
         Moves(p, x, r), NEW t \in Tasks, IsFiniteSet(Pending(p, t))
  PROVE  /\ IsFiniteSet(Pending(p, t)')
         /\ Cardinality(Pending(p, t)') + Cardinality(Occurs(thr[p][x].todo, t))
              = Cardinality(Pending(p, t)) + Cardinality(Occurs(r.todo, t))
<1> DEFINE R == {yj \in Pending(p, t) : yj[1] # x}
           A == Occurs(thr[p][x].todo, t)
           B == Occurs(r.todo, t)
           PA == {x} \X A
           PB == {x} \X B
<1>1. x \in Threads(p) /\ Runners(p) \subseteq Threads(p)
  BY KindFacts
<1>2. thr[p][x].todo \in Seq(Tasks) /\ r.todo \in Seq(Tasks)
  BY <1>1 DEF ThreadTypes, Records, Moves
<1>3. IsFiniteSet(A) /\ A \subseteq Nat /\ IsFiniteSet(B) /\ B \subseteq Nat
      /\ Cardinality(A) \in Nat /\ Cardinality(B) \in Nat
  BY <1>2, OccursType
<1>4. Pending(p, t) = R \cup PA
  BY <1>3 DEF Pending
<1>5. Pending(p, t)' = R \cup PB
  <2>1. Pending(p, t)' = {yj \in Runners(p) \X Nat : yj[2] \in Occurs(thr'[p][yj[1]].todo, t)}
    BY DEF Pending, Occurs
  <2>2. thr'[p][x] = r /\ \A y \in Runners(p) : y # x => thr'[p][y] = thr[p][y]
    BY <1>1 DEF Moves
  <2>3. R = {yj \in Runners(p) \X Nat : yj[1] # x /\ yj[2] \in Occurs(thr[p][yj[1]].todo, t)}
    BY DEF Pending
  <2> HIDE DEF R
  <2> QED BY <1>3, <2>1, <2>2, <2>3
<1>6. IsFiniteSet(R) /\ R \cap PA = {} /\ R \cap PB = {}
  BY FS_Subset
<1>7. /\ IsFiniteSet(PA) /\ Cardinality(PA) = Cardinality(A)
      /\ IsFiniteSet(PB) /\ Cardinality(PB) = Cardinality(B)
  <2>1. IsFiniteSet({x}) /\ Cardinality({x}) = 1
    BY FS_Singleton
  <2> HIDE DEF A, B
  <2>2. \A S : IsFiniteSet(S) => IsFiniteSet({x} \X S) /\ Cardinality({x} \X S) = 1 * Cardinality(S)
    BY <2>1, FS_Product
  <2> QED BY <1>3, <2>2
<1> HIDE DEF R, PA, PB, A, B
<1>8. IsFiniteSet(R \cup PB)
  BY <1>6, <1>7, FS_Union
<1>9. /\ Cardinality(R \cup PA) = Cardinality(R) + Cardinality(PA) - Cardinality(R \cap PA)
      /\ Cardinality(R \cup PB) = Cardinality(R) + Cardinality(PB) - Cardinality(R \cap PB)
  BY <1>6, <1>7, FS_Union
<1>10. Cardinality(R) \in Nat /\ Cardinality(R \cap PA) = 0 /\ Cardinality(R \cap PB) = 0
  BY <1>6, FS_CardinalityType, FS_EmptySet
<1> QED BY <1>3, <1>4, <1>5, <1>7, <1>8, <1>9, <1>10 DEF A, B

LEMMA PendingStays ==
  ASSUME NEW p \in Parties, NEW x \in Threads(p), NEW r, Moves(p, x, r),
         NEW q \in Parties, q # p \/ x \notin Runners(p) \/ r.todo = thr[p][x].todo, NEW t \in Tasks
  PROVE  Pending(q, t)' = Pending(q, t)
<1>1. \A y \in Runners(q) : thr'[q][y].todo = thr[q][y].todo
  BY KindFacts DEF Moves
<1> QED BY <1>1 DEF Pending, Occurs

(* No task of p ends, none takes its inputs. *)
NoneEnds(f, g, p) == \A u \in Tasks : g[p][u] < Done(p, u) <=> f[p][u] < Done(p, u)
NoneTakes(f, g, p) == \A u \in Tasks : g[p][u] <= 1 <=> f[p][u] <= 1

LEMMA WaitingSame ==
  ASSUME NEW f, NEW g, NEW p \in Parties, NoneEnds(f, g, p)
  PROVE  \A t \in Tasks : Waiting(g, p, t) = Waiting(f, p, t)
BY InputsType DEF Waiting, NoneEnds

LEMMA UntakenSame ==
  ASSUME NEW f, NEW g, NEW p \in Parties, NoneTakes(f, g, p)
  PROVE  \A t \in Tasks : Untaken(g, p, t) = Untaken(f, p, t)
<1> SUFFICES ASSUME NEW t \in Tasks, NEW ti \in UsesOf(t) PROVE ti[1] \in Tasks
  BY DEF Untaken, NoneTakes
<1> QED BY UsesOrdered

(* The counts after a step that leaves the main thread's list alone.       *)
LEMMA CountsNext ==
  ASSUME NEW f, NEW g, Counts(f),
         \A p \in Parties : thr'[p][Main].todo = thr[p][Main].todo,
         \A p \in Parties : \A t \in Tasks :
           /\ IsFiniteSet(Pending(p, t)')
           /\ deps'[p][t] = Cardinality(Waiting(g, p, t)) + Cardinality(Pending(p, t)')
           /\ deps'[p][t] <= Len(Inputs[t])
           /\ left'[p][t] = Cardinality(Untaken(g, p, t))
           /\ t \in held'[p] <=> g[p][t] = Done(p, t) /\ left'[p][t] > 0,
         \A p \in Parties :
           remaining'[p] = Cardinality({t \in Tasks : g[p][t] < Done(p, t)})
                             + Cardinality({y \in Runners(p) : Notifying(p, y)'})
  PROVE  Counts(g)'
<1> SUFFICES ASSUME NEW p \in Parties
             PROVE
    /\ \A t \in Tasks :
         /\ IsFiniteSet(Pending(p, t)')
         /\ deps'[p][t] = Cardinality(Waiting(g, p, t)) + Cardinality(Pending(p, t)')
         /\ deps'[p][t] <= Len(Inputs[t])
         /\ left'[p][t] = Cardinality(Untaken(g, p, t))
         /\ t \in held'[p] <=> g[p][t] = Done(p, t) /\ left'[p][t] > 0
    /\ remaining'[p] = Cardinality({t \in Tasks : g[p][t] < Done(p, t)})
                        + Cardinality({y \in Runners(p) : Notifying(p, y)'})
    /\ \A i \in DOMAIN thr'[p][Main].todo :
         /\ Inputs[thr'[p][Main].todo[i]] = <<>>
         /\ \A j \in DOMAIN thr'[p][Main].todo :
              thr'[p][Main].todo[i] = thr'[p][Main].todo[j] => i = j
  BY DEF Counts
<1>1. \A i \in DOMAIN thr[p][Main].todo :
        /\ Inputs[thr[p][Main].todo[i]] = <<>>
        /\ \A j \in DOMAIN thr[p][Main].todo :
             thr[p][Main].todo[i] = thr[p][Main].todo[j] => i = j
  BY DEF Counts
<1>2. thr'[p][Main].todo = thr[p][Main].todo
  OBVIOUS
<1> QED BY <1>1, <1>2

(* A runner thread has told all dependents: one task less remains.         *)
LEMMA TaskDoneKeeps ==
  ASSUME NEW prog, NEW place, NEW msg, NEW pub, NEW priv, NEW chal,
         Inv(prog, place, msg, pub, priv, chal),
         NEW p \in Parties, NEW x \in Runners(p), TaskDone(p, x)
  PROVE  Inv(prog, place, msg, pub, priv, chal)'
<1>1. Types /\ NoPanic /\ Graph(prog, place) /\ Data(prog, msg, pub, priv, chal)
      /\ ThreadTypes /\ SharedTypes /\ Shapes /\ Conserved(prog) /\ Launched(prog, place)
      /\ Counts(prog) /\ Closing
  BY DEF Inv, Types, Graph
<1>2. x \in Threads(p) /\ x[1] = "run" /\ x # Main /\ Main \in Threads(p)
  BY KindFacts
<1>3. thr[p][x].pc = "todo" /\ thr[p][x].todo = <<>>
  BY DEF TaskDone
<1> DEFINE A == {t \in Tasks : prog[p][t] < Done(p, t)}
           B == {y \in Runners(p) : Notifying(p, y)}
           n == Cardinality(A) + Cardinality(B)
<1>4. x \in B
  BY <1>2, <1>3 DEF Notifying
<1>5. /\ IsFiniteSet(B) /\ Cardinality(B) \in Nat /\ Cardinality(A) \in Nat
      /\ Cardinality(B) # 0 /\ Cardinality(B \ {x}) = Cardinality(B) - 1
  <2>1. IsFiniteSet(A) /\ IsFiniteSet(B)
    BY TasksFinite, RunnersFinite, FS_Subset
  <2> HIDE DEF A, B
  <2>2. Cardinality(A) \in Nat /\ Cardinality(B) \in Nat
    BY <2>1, FS_CardinalityType
  <2>3. Cardinality(B) # 0
    BY <1>4, <2>1, FS_EmptySet
  <2>4. Cardinality(B \ {x}) = Cardinality(B) - 1
    BY <1>4, <2>1, FS_RemoveElement
  <2> QED BY <2>1, <2>2, <2>3, <2>4
<1>6. remaining[p] = Cardinality(A) + Cardinality(B)
  BY <1>1, CountsFacts
<1> HIDE DEF A, B
<1>7. remaining[p] # 0 /\ remaining[p] \in Nat
  BY <1>5, <1>6
<1>8. /\ remaining' = [remaining EXCEPT ![p] = @ - 1]
      /\ noTasks' = [noTasks EXCEPT ![p] = @ \/ remaining[p] = 1]
      /\ Do(p, x, Idle)
      /\ UNCHANGED <<runVars, slot, deps, left, held, diskVars, outVars, chalVars, endVars>>
  BY <1>7 DEF TaskDone, LastTask
<1>9. /\ remaining'[p] = remaining[p] - 1 /\ noTasks'[p] = (noTasks[p] \/ remaining[p] = 1)
      /\ \A q \in Parties : q # p => remaining'[q] = remaining[q] /\ noTasks'[q] = noTasks[q]
      /\ remaining' \in [Parties -> Nat] /\ noTasks' \in [Parties -> BOOLEAN]
  BY <1>1, <1>7, <1>8 DEF SharedTypes
<1>10. SharedTypes'
  BY <1>1, <1>8, <1>9 DEF SharedTypes, runVars, diskVars, outVars, chalVars, endVars
<1>11. Moves(p, x, Idle) /\ Types' /\ Shapes' /\ NoPanic'
  <2>1. Shape(p, x, Idle) /\ Idle \in Records /\ Idle.pc \notin Working
    BY <1>2, IdleFacts DEF Shape, RunShape, Working
  <2>2. UNCHANGED panicked
    BY <1>8 DEF endVars
  <2> QED BY <1>1, <1>2, <1>8, <1>10, <2>1, <2>2, WorkStep
<1>12. \A q \in Parties : thr'[q][Main] = thr[q][Main]
  BY <1>2, <1>11, KindFacts DEF Moves
<1>13. Launched(prog, place)' /\ Conserved(prog)'
  <2>1. StageFree(thr[p][x]) /\ StageFree(Idle)
    BY <1>3, IdleFacts DEF StageFree
  <2>2. \A q \in Parties : \A u \in Tasks : InTodo(q, u)' <=> InTodo(q, u)
    BY <1>12 DEF InTodo
  <2>3. UNCHANGED <<runQueue, slot, deps>>
    BY <1>8 DEF runVars
  <2> QED BY <1>1, <1>2, <1>11, <2>1, <2>2, <2>3, StagesSame
<1>14. Counts(prog)'
  <2>1. ASSUME NEW q \in Parties
        PROVE  remaining'[q] = Cardinality({t \in Tasks : prog[q][t] < Done(q, t)})
                                + Cardinality({y \in Runners(q) : Notifying(q, y)'})
    <3>1. CASE q = p
      <4>1. {y \in Runners(p) : Notifying(p, y)'} = B \ {x}
        <5>1. ~Notifying(p, x)' /\ \A y \in Runners(p) : y # x => (Notifying(p, y)' <=> Notifying(p, y))
          BY <1>11, KindFacts, IdleFacts DEF Moves, Notifying
        <5> QED BY <5>1 DEF B
      <4>2. Cardinality(A) + Cardinality(B \ {x}) = remaining'[p]
        BY <1>5, <1>6, <1>9
      <4> QED BY <3>1, <4>1, <4>2 DEF A
    <3>2. CASE q # p
      <4>1. \A y \in Runners(q) : Notifying(q, y)' <=> Notifying(q, y)
        BY <1>11, <3>2, KindFacts DEF Moves, Notifying
      <4>2. {y \in Runners(q) : Notifying(q, y)'} = {y \in Runners(q) : Notifying(q, y)}
        BY <4>1
      <4>3. remaining[q] = Cardinality({t \in Tasks : prog[q][t] < Done(q, t)})
                             + Cardinality({y \in Runners(q) : Notifying(q, y)})
        BY <1>1, CountsFacts
      <4>4. remaining'[q] = remaining[q]
        BY <1>9, <3>2
      <4> QED BY <4>2, <4>3, <4>4
    <3> QED BY <3>1, <3>2
  <2>2. \A q \in Parties : \A t \in Tasks : Pending(q, t)' = Pending(q, t)
    BY <1>2, <1>3, <1>11, IdleFacts, PendingStays
  <2>3. UNCHANGED <<deps, left, held>>
    BY <1>8
  <2>4. \A q \in Parties : \A t \in Tasks :
          /\ IsFiniteSet(Pending(q, t)')
          /\ deps'[q][t] = Cardinality(Waiting(prog, q, t)) + Cardinality(Pending(q, t)')
          /\ deps'[q][t] <= Len(Inputs[t])
          /\ left'[q][t] = Cardinality(Untaken(prog, q, t))
          /\ t \in held'[q] <=> prog[q][t] = Done(q, t) /\ left'[q][t] > 0
    <3> SUFFICES ASSUME NEW q \in Parties, NEW t \in Tasks
                 PROVE  /\ IsFiniteSet(Pending(q, t)')
                        /\ deps[q][t] = Cardinality(Waiting(prog, q, t)) + Cardinality(Pending(q, t)')
                        /\ deps[q][t] <= Len(Inputs[t])
                        /\ left[q][t] = Cardinality(Untaken(prog, q, t))
                        /\ t \in held[q] <=> prog[q][t] = Done(q, t) /\ left[q][t] > 0
      BY <2>3
    <3>1. Pending(q, t)' = Pending(q, t)
      BY <2>2
    <3>2. /\ IsFiniteSet(Pending(q, t))
          /\ deps[q][t] = Cardinality(Waiting(prog, q, t)) + Cardinality(Pending(q, t))
          /\ deps[q][t] <= Len(Inputs[t])
          /\ left[q][t] = Cardinality(Untaken(prog, q, t))
          /\ t \in held[q] <=> prog[q][t] = Done(q, t) /\ left[q][t] > 0
      BY <1>1, CountsFacts
    <3> QED BY <3>1, <3>2
  <2> QED BY <1>1, <1>12, <2>1, <2>4, CountsNext
<1>15. Closing'
  <2>1. /\ noTasks'[p] => remaining'[p] = 0
        /\ noTasks[p] => noTasks'[p]
    BY <1>1, <1>7, <1>9 DEF Closing
  <2>2. UNCHANGED runOpen
    BY <1>8 DEF runVars
  <2> QED BY <1>1, <1>9, <1>12, <2>1, <2>2 DEF Closing
<1>16. Data(prog, msg, pub, priv, chal)'
  <2>1. UNCHANGED <<reads, cached, chalq, chalNet, outq, net, slot>>
    BY <1>8 DEF diskVars, chalVars, outVars
  <2>2. Plain(p, x, Idle) /\ Idle.pc \notin {"read", "write", "getslot"}
    BY <1>3, <1>11, IdleFacts DEF Plain
  <2>3. Numbers(prog) /\ Grows(prog, prog)
    BY <1>1, DoneFacts, GrowsSame
  <2> QED BY <1>1, <1>2, <1>11, <2>1, <2>2, <2>3, PlainData
<1> QED BY <1>11, <1>13, <1>14, <1>15, <1>16 DEF Inv, Graph

LEMMA OccursCounts ==
  ASSUME NEW s \in Seq(Tasks), s # <<>>, NEW t
  PROVE  LET n == Cardinality(Occurs(s, t))
             m == Cardinality(Occurs(Tail(s), t))
         IN  /\ n \in Nat /\ m \in Nat
             /\ n = IF Head(s) = t THEN m + 1 ELSE m
<1> DEFINE S == Occurs(s, t)
           T == Occurs(Tail(s), t)
<1>1. IsFiniteSet(S) /\ Cardinality(S) \in Nat
  BY OccursType
<1>2. Tail(s) \in Seq(Tasks)
  BY TailFacts
<1>3. Cardinality(T) \in Nat
  BY <1>2, OccursType
<1>4. T = S \ {Len(s)} /\ (Len(s) \in S <=> Head(s) = t)
  BY OccursTail
<1> HIDE DEF S, T
<1>5. CASE Head(s) = t
  <2>1. Cardinality(T) = Cardinality(S) - 1
    BY <1>1, <1>4, <1>5, FS_RemoveElement
  <2> QED BY <1>1, <1>3, <1>5, <2>1 DEF S, T
<1>6. CASE Head(s) # t
  <2>1. T = S
    BY <1>4, <1>6
  <2> QED BY <1>1, <1>6, <2>1 DEF S, T
<1> QED BY <1>5, <1>6

(* A runner thread tells a dependent, and takes it when it was the last    *)
(* thing the dependent waited for.                                         *)
LEMMA NotifyDependentKeeps ==
  ASSUME NEW prog, NEW place, NEW msg, NEW pub, NEW priv, NEW chal,
         Inv(prog, place, msg, pub, priv, chal),
         NEW p \in Parties, NEW x \in Runners(p), NotifyDependent(p, x)
  PROVE  IInv'
<1>1. Types /\ NoPanic /\ Graph(prog, place) /\ Data(prog, msg, pub, priv, chal)
      /\ ThreadTypes /\ SharedTypes /\ Shapes /\ Conserved(prog) /\ Launched(prog, place)
      /\ Counts(prog) /\ Closing
  BY DEF Inv, Types, Graph
<1>2. x \in Threads(p) /\ x[1] = "run" /\ x # Main /\ Main \in Threads(p)
  BY KindFacts
<1> DEFINE o == thr[p][x]
           w == o.todo
<1>3. o.pc = "todo" /\ w # <<>> /\ o \in Records /\ w \in Seq(Tasks)
  BY <1>1, <1>2, RecordFacts DEF NotifyDependent
<1>4. PICK d \in Tasks : d = Head(w)
  BY <1>3, TailFacts
<1>5. Tail(w) \in Seq(Tasks)
  BY <1>3, TailFacts
(* The dependent still waits for something, so it was not launched. *)
<1>6. /\ deps[p][d] \in Nat /\ deps[p][d] >= 1 /\ prog[p][d] = 0 /\ ~InTodo(p, d)
      /\ deps[p][d] <= Len(Inputs[d]) /\ IsFiniteSet(Pending(p, d))
  <2>1. <<x, Len(w)>> \in Pending(p, d)
    <3>1. Len(w) \in Occurs(w, d) /\ Len(w) \in Nat
      BY <1>3, <1>4, OccursTail
    <3> QED BY <3>1 DEF Pending
  <2>2. /\ IsFiniteSet(Pending(p, d))
        /\ deps[p][d] = Cardinality(Waiting(prog, p, d)) + Cardinality(Pending(p, d))
        /\ deps[p][d] <= Len(Inputs[d])
    BY <1>1, CountsTask
  <2>3. Cardinality(Pending(p, d)) \in Nat /\ Cardinality(Pending(p, d)) # 0
    BY <2>1, <2>2, FS_CardinalityType, FS_EmptySet
  <2>4. Cardinality(Waiting(prog, p, d)) \in Nat
    BY CountedFinite
  <2>5. deps[p][d] >= 1 /\ deps[p][d] \in Nat
    BY <2>2, <2>3, <2>4
  <2>6. prog[p][d] = 0
    BY <1>1, <2>5 DEF Conserved
  <2>7. ~InTodo(p, d)
    <3>1. SUFFICES ASSUME InTodo(p, d) PROVE FALSE
      OBVIOUS
    <3>2. Inputs[d] = <<>>
      BY <1>1, <3>1, CountsFacts, ZenonT(40) DEF InTodo
    <3> QED BY <2>2, <2>5, <3>2
  <2> QED BY <2>2, <2>5, <2>6, <2>7
<1>7. PICK v \in {0, 1} : v = 1 <=> deps[p][d] = 1
  <2>1. CASE deps[p][d] = 1
    BY <2>1
  <2>2. CASE deps[p][d] # 1
    <3>1. 0 \in {0, 1} /\ (0 = 1 <=> deps[p][d] = 1)
      BY <2>2
    <3> QED BY <3>1
  <2> QED BY <2>1, <2>2
<1> DEFINE r == IF v = 1 THEN [o EXCEPT !.pc = "launch", !.task = d, !.todo = Tail(w)]
                ELSE [o EXCEPT !.todo = Tail(w)]
           prog2 == Put(prog, p, d, v)
           place2 == Put(place, p, d, OnThread(x))
<1>8. /\ deps' = [deps EXCEPT ![p][d] = @ - 1]
      /\ Do(p, x, r)
      /\ UNCHANGED <<runVars, slot, left, held, remaining, noTasks,
                     diskVars, outVars, chalVars, endVars>>
  <2>1. ~(deps[p][Head(w)] = 0)
    <3>1. deps[p][d] # 0
      BY <1>6
    <3> QED BY <1>4, <3>1
  <2>2. /\ deps' = [deps EXCEPT ![p][Head(w)] = @ - 1]
        /\ Do(p, x, IF LaunchAt(deps[p][Head(w)])
                    THEN [o EXCEPT !.pc = "launch", !.task = Head(w), !.todo = Tail(@)]
                    ELSE [o EXCEPT !.todo = Tail(@)])
        /\ UNCHANGED <<runVars, slot, left, held, remaining, noTasks,
                       diskVars, outVars, chalVars, endVars>>
    BY <2>1 DEF NotifyDependent
  <2> QED BY <1>4, <1>7, <2>2 DEF LaunchAt
<1>9. r \in Records /\ r.todo = Tail(w)
      /\ IF v = 1 THEN r.pc = "launch" /\ r.task = d ELSE r.pc = "todo"
  <2>1. d \in Nat
    BY TasksFinite
  <2> DEFINE y == Tail(w)
  <2>2. o \in Records /\ o.pc = "todo" /\ y \in Seq(Tasks)
    BY <1>3, <1>5
  <2>3. r = IF v = 1 THEN [o EXCEPT !.pc = "launch", !.task = d, !.todo = y]
            ELSE [o EXCEPT !.todo = y]
    OBVIOUS
  <2> HIDE DEF o, y, r
  <2>4. CASE v = 1
    BY <2>1, <2>2, <2>3, <2>4 DEF Records, Working, y
  <2>5. CASE v # 1
    BY <2>2, <2>3, <2>5 DEF Records, Resting, y
  <2> QED BY <2>4, <2>5
<1> HIDE DEF r
<1>10. /\ deps' \in [Parties -> [Tasks -> Nat]]
       /\ deps'[p][d] = deps[p][d] - 1
       /\ \A q \in Parties : \A t \in Tasks : q # p \/ t # d => deps'[q][t] = deps[q][t]
  <2>1. deps \in [Parties -> [Tasks -> Nat]]
    BY <1>1 DEF SharedTypes
  <2> QED BY <1>6, <1>8, <2>1
<1>11. SharedTypes'
  BY <1>1, <1>8, <1>10 DEF SharedTypes, runVars, diskVars, outVars, chalVars, endVars
<1>12. Moves(p, x, r) /\ Types' /\ Shapes' /\ NoPanic'
  <2>1. Shape(p, x, r)
    BY <1>2, <1>9 DEF Shape, RunShape
  <2>2. UNCHANGED panicked
    BY <1>8 DEF endVars
  <2>3. r.pc \in Working => r.task \in Tasks
    BY <1>9 DEF Working
  <2> QED BY <1>1, <1>2, <1>8, <1>9, <1>11, <2>1, <2>2, <2>3, WorkStep
<1>13. \A q \in Parties : thr'[q][Main] = thr[q][Main]
  BY <1>2, <1>12, KindFacts DEF Moves
<1>14. /\ prog2[p][d] = v /\ place2[p][d] = OnThread(x)
       /\ \A q \in Parties : \A u \in Tasks : q # p \/ u # d =>
            prog2[q][u] = prog[q][u] /\ place2[q][u] = place[q][u]
  BY DEF Put
<1>15. Done(p, d) \in Nat /\ Done(p, d) >= 5
  BY <1>1, DoneFacts
<1>16. Numbers(prog) /\ Numbers(prog2) /\ Grows(prog, prog2)
  <2>1. Numbers(prog)
    BY <1>1, DoneFacts
  <2>2. v \in Nat /\ v >= prog[p][d] /\ \A j \in Nat : v >= 3 * j + 3 => prog[p][d] >= 3 * j + 3
    BY <1>6
  <2> QED BY <2>1, <2>2, GrowsPut
<1> HIDE DEF prog2, place2
<1>17. Launched(prog2, place2)'
  <2>1. StageAt(prog2, place2, p, x, r)
    BY <1>9, <1>14, <1>15 DEF StageAt, Stands
  <2>2. UNCHANGED slot /\ \A q \in Parties : runQueue'[q] \subseteq runQueue[q]
    BY <1>8 DEF runVars
  <2> QED BY <1>1, <1>2, <1>6, <1>12, <1>14, <2>1, <2>2, LaunchedMoves
<1>18. Conserved(prog2)'
  <2>1. \A u : ~Carries(p, x, u)
    BY <1>3 DEF Carries
  <2>2. v # 0 => Carries(p, x, d)'
    BY <1>9, <1>12 DEF Carries, Moves
  <2>3. UNCHANGED <<runQueue, slot>>
    BY <1>8 DEF runVars
  <2>4. \A q \in Parties : \A u \in Tasks : InTodo(q, u)' <=> InTodo(q, u)
    BY <1>13 DEF InTodo
  <2>5. prog2[p][d] \in 0 .. Done(p, d)
    BY <1>14, <1>15
  <2>6. prog2[p][d] = 0 <=> deps'[p][d] > 0 \/ InTodo(p, d)'
    BY <1>6, <1>7, <1>10, <1>14, <2>4
  <2> QED BY <1>1, <1>2, <1>10, <1>12, <1>14, <2>1, <2>2, <2>3, <2>4, <2>5, <2>6, ConservedMoves
<1>19. Counts(prog2)'
  <2>1. \A q \in Parties : \A u \in Tasks :
           /\ prog2[q][u] < Done(q, u) <=> prog[q][u] < Done(q, u)
           /\ prog2[q][u] = Done(q, u) <=> prog[q][u] = Done(q, u)
           /\ prog2[q][u] <= 1 <=> prog[q][u] <= 1
    BY <1>6, <1>14, <1>15
  <2>2. \A q \in Parties : \A y \in Runners(q) : Notifying(q, y)' <=> Notifying(q, y)
    BY <1>2, <1>3, <1>9, <1>12, KindFacts DEF Moves, Notifying
  <2>3. ASSUME NEW q \in Parties, NEW t \in Tasks
        PROVE  /\ IsFiniteSet(Pending(q, t)')
               /\ deps'[q][t] = Cardinality(Waiting(prog2, q, t)) + Cardinality(Pending(q, t)')
               /\ deps'[q][t] <= Len(Inputs[t])
               /\ left'[q][t] = Cardinality(Untaken(prog2, q, t))
               /\ t \in held'[q] <=> prog2[q][t] = Done(q, t) /\ left'[q][t] > 0
    <3>1. /\ IsFiniteSet(Pending(q, t))
          /\ deps[q][t] = Cardinality(Waiting(prog, q, t)) + Cardinality(Pending(q, t))
          /\ deps[q][t] <= Len(Inputs[t])
          /\ left[q][t] = Cardinality(Untaken(prog, q, t))
          /\ t \in held[q] <=> prog[q][t] = Done(q, t) /\ left[q][t] > 0
      BY <1>1, CountsFacts
    <3>2. Waiting(prog2, q, t) = Waiting(prog, q, t) /\ Untaken(prog2, q, t) = Untaken(prog, q, t)
      <4>1. NoneEnds(prog, prog2, q) /\ NoneTakes(prog, prog2, q)
        BY <2>1 DEF NoneEnds, NoneTakes
      <4> QED BY <4>1, WaitingSame, UntakenSame
    <3>3. /\ left'[q][t] = Cardinality(Untaken(prog2, q, t))
          /\ t \in held'[q] <=> prog2[q][t] = Done(q, t) /\ left'[q][t] > 0
      BY <1>8, <2>1, <3>1, <3>2
    <3>4. CASE q = p
      <4>1. /\ IsFiniteSet(Pending(p, t)')
            /\ Cardinality(Pending(p, t)') + Cardinality(Occurs(w, t))
                 = Cardinality(Pending(p, t)) + Cardinality(Occurs(r.todo, t))
        BY <1>1, <1>12, <3>1, <3>4, PendingMoves DEF Types
      <4> DEFINE n == Cardinality(Occurs(w, t))
                 m == Cardinality(Occurs(Tail(w), t))
                 c == Cardinality(Pending(p, t)')
                 b == Cardinality(Pending(p, t))
                 a == Cardinality(Waiting(prog, p, t))
      <4>2. n \in Nat /\ m \in Nat /\ n = IF d = t THEN m + 1 ELSE m
        BY <1>3, <1>4, OccursCounts
      <4>3. c + n = b + m
        BY <1>9, <4>1
      <4>4. a \in Nat /\ b \in Nat /\ c \in Nat
        BY <3>1, <3>4, <4>1, CountedFinite, FS_CardinalityType
      <4>5. deps[p][t] = a + b
        BY <3>1, <3>4
      <4>6. deps'[p][t] = IF d = t THEN deps[p][t] - 1 ELSE deps[p][t]
        BY <1>10
      <4> HIDE DEF a, b, c, n, m
      <4>7. deps'[p][t] = a + c
        BY <4>2, <4>3, <4>4, <4>5, <4>6
      <4>8. deps'[p][t] <= Len(Inputs[t])
        BY <3>1, <3>4, <4>4, <4>5, <4>6, InputsType
      <4> QED BY <3>2, <3>3, <3>4, <4>1, <4>7, <4>8 DEF a, c
    <3>5. CASE q # p
      <4>1. Pending(q, t)' = Pending(q, t) /\ deps'[q][t] = deps[q][t]
        BY <1>2, <1>10, <1>12, <3>5, PendingStays
      <4> QED BY <3>1, <3>2, <3>3, <4>1
    <3> QED BY <3>4, <3>5
  <2>4. ASSUME NEW q \in Parties
        PROVE  remaining'[q] = Cardinality({t \in Tasks : prog2[q][t] < Done(q, t)})
                                 + Cardinality({y \in Runners(q) : Notifying(q, y)'})
    <3>1. {t \in Tasks : prog2[q][t] < Done(q, t)} = {t \in Tasks : prog[q][t] < Done(q, t)}
      BY <2>1
    <3>2. {y \in Runners(q) : Notifying(q, y)'} = {y \in Runners(q) : Notifying(q, y)}
      BY <2>2
    <3>3. remaining[q] = Cardinality({t \in Tasks : prog[q][t] < Done(q, t)})
                           + Cardinality({y \in Runners(q) : Notifying(q, y)})
      BY <1>1, CountsFacts
    <3> QED BY <1>8, <3>1, <3>2, <3>3
  <2> QED BY <1>1, <1>13, <2>3, <2>4, CountsNext
<1>20. Closing'
  BY <1>1, <1>8, <1>13 DEF Closing, runVars
<1>21. Data(prog2, msg, pub, priv, chal)'
  <2>1. UNCHANGED <<reads, cached, chalq, chalNet, outq, net, slot>>
    BY <1>8 DEF diskVars, chalVars, outVars
  <2>2. Plain(p, x, r) /\ r.pc \notin {"read", "write", "getslot"}
    BY <1>3, <1>9, <1>12 DEF Plain
  <2> QED BY <1>1, <1>2, <1>12, <1>16, <2>1, <2>2, PlainData
<1>22. Inv(prog2, place2, msg, pub, priv, chal)'
  BY <1>12, <1>17, <1>18, <1>19, <1>20, <1>21 DEF Inv, Graph
<1> QED BY <1>22 DEF IInv

(* A task ends: its output is kept for those who will take it, and the     *)
(* thread turns to its dependents.                                         *)
LEMMA FinishKeeps ==
  ASSUME NEW prog, NEW place, NEW msg, NEW pub, NEW priv, NEW chal,
         Inv(prog, place, msg, pub, priv, chal),
         NEW p \in Parties, NEW x \in Runners(p), Finish(p, x)
  PROVE  IInv'
<1>1. Types /\ NoPanic /\ Graph(prog, place) /\ Data(prog, msg, pub, priv, chal)
      /\ ThreadTypes /\ SharedTypes /\ Shapes /\ Conserved(prog) /\ Launched(prog, place)
      /\ Counts(prog) /\ Closing
  BY DEF Inv, Types, Graph
<1>2. x \in Threads(p) /\ x[1] = "run" /\ x # Main /\ Main \in Threads(p)
  BY KindFacts
<1> DEFINE o == thr[p][x]
<1>3. o.pc = "result" /\ o \in Records /\ o.task \in Tasks /\ o.step \in Nat
  BY <1>1, <1>2, RecordFacts DEF Finish, Working
<1>4. PICK t \in Tasks : t = o.task
  BY <1>3
<1>5. PICK v \in Nat : v = Done(p, t)
  BY <1>1, DoneFacts
<1> DEFINE r == [Idle EXCEPT !.pc = "todo", !.todo = DependentsOf[t]]
           prog2 == Put(prog, p, t, v)
           E == ExpectedSteps(p, t)
<1>6. /\ prog[p][t] = 3 * o.step + 4 /\ prog[p][t] < v /\ place[p][t] = OnThread(x)
      /\ o.step = E - 1 /\ E \in Nat /\ v = 3 * E + 2
  <2>1. StageAt(prog, place, p, x, o)
    BY <1>1, <1>2 DEF Launched
  <2>2. Stands(prog, place, p, t, 3 * o.step + 4, OnThread(x))
    BY <1>3, <1>4, <2>1 DEF StageAt
  <2>3. prog[p][t] = 3 * o.step + 4 /\ 3 * o.step + 4 < v /\ place[p][t] = OnThread(x)
    BY <1>5, <2>2 DEF Stands
  <2>4. Finishes(p, t, o.step)
    BY <1>4 DEF Finish
  <2>5. E \in Nat /\ o.step + 1 >= E
    BY <1>3, <2>4, StageFacts
  <2>6. v = 3 * E + 2
    BY <1>5 DEF Done
  <2> HIDE DEF E, o
  <2>7. o.step \in Nat
    BY <1>3
  <2> QED BY <2>3, <2>5, <2>6, <2>7
<1>7. t \notin held[p]
  <2>1. prog[p][t] # Done(p, t)
    BY <1>5, <1>6
  <2> QED BY <1>1, <2>1, CountsTask
<1>8. /\ held' = [held EXCEPT ![p] = Kept(p, t)]
      /\ Do(p, x, r)
      /\ UNCHANGED <<runVars, slot, deps, left, remaining, noTasks,
                     diskVars, outVars, chalVars, endVars>>
  <2>1. ~(o.step # ExpectedSteps(p, t) - 1 \/ t \in held[p])
    BY <1>6, <1>7
  <2> QED BY <1>4, <2>1 DEF Finish
<1>9. r \in Records /\ r.pc = "todo" /\ r.todo = DependentsOf[t] /\ DependentsOf[t] \in Seq(Tasks)
  <2> DEFINE y == DependentsOf[t]
  <2>1. y \in Seq(Tasks)
    BY DependentsFacts
  <2>2. r = [Idle EXCEPT !.pc = "todo", !.todo = y]
    OBVIOUS
  <2> HIDE DEF r, y
  <2>3. Idle \in Records
    BY IdleFacts
  <2>4. r \in Records /\ r.pc = "todo" /\ r.todo = y
    BY <2>1, <2>2, <2>3 DEF Records, Resting
  <2> QED BY <2>1, <2>4 DEF y
<1> HIDE DEF r
<1>10. o.todo = <<>>
  BY <1>1, <1>2, <1>3 DEF Shapes, Shape, RunShape
<1>11. /\ held' \in [Parties -> SUBSET Tasks] /\ held'[p] = Kept(p, t)
       /\ \A q \in Parties : q # p => held'[q] = held[q]
  <2>1. held \in [Parties -> SUBSET Tasks]
    BY <1>1 DEF SharedTypes
  <2>2. Kept(p, t) \in SUBSET Tasks
    BY <2>1 DEF Kept
  <2> QED BY <1>8, <2>1, <2>2
<1>12. SharedTypes'
  BY <1>1, <1>8, <1>11 DEF SharedTypes, runVars, diskVars, outVars, chalVars, endVars
<1>13. Moves(p, x, r) /\ Types' /\ Shapes' /\ NoPanic'
  <2>1. Shape(p, x, r)
    BY <1>2, <1>9 DEF Shape, RunShape
  <2>2. UNCHANGED panicked
    BY <1>8 DEF endVars
  <2>3. r.pc \notin Working
    BY <1>9 DEF Working
  <2> QED BY <1>1, <1>2, <1>8, <1>9, <1>12, <2>1, <2>2, <2>3, WorkStep
<1>14. \A q \in Parties : thr'[q][Main] = thr[q][Main]
  BY <1>2, <1>13, KindFacts DEF Moves
<1>15. /\ prog2[p][t] = v
       /\ \A q \in Parties : \A u \in Tasks : q # p \/ u # t => prog2[q][u] = prog[q][u]
  BY DEF Put
<1>16. Numbers(prog) /\ Numbers(prog2) /\ Grows(prog, prog2)
  <2>1. Numbers(prog)
    BY <1>1, DoneFacts
  <2>2. v >= prog[p][t] /\ \A j \in Nat : v >= 3 * j + 3 => prog[p][t] >= 3 * j + 3
    <3> HIDE DEF E, o
    <3> QED BY <1>6
  <2> QED BY <2>1, <2>2, GrowsPut
<1>17. prog[p][t] > 1 /\ prog[p][t] \in Nat
  BY <1>3, <1>6
<1> HIDE DEF prog2, E
<1>18. Launched(prog2, place)'
  <2>1. StageAt(prog2, place, p, x, r)
    BY <1>9 DEF StageAt
  <2>2. UNCHANGED slot /\ \A q \in Parties : runQueue'[q] \subseteq runQueue[q]
    BY <1>8 DEF runVars
  <2> QED BY <1>1, <1>2, <1>6, <1>13, <1>15, <2>1, <2>2, LaunchedMoves
<1>19. Conserved(prog2)'
  <2>1. \A u : Carries(p, x, u) => u = t
    BY <1>4 DEF Carries
  <2>2. UNCHANGED <<runQueue, slot, deps>>
    BY <1>8 DEF runVars
  <2>3. \A q \in Parties : \A u \in Tasks : InTodo(q, u)' <=> InTodo(q, u)
    BY <1>14 DEF InTodo
  <2>4. prog2[p][t] \in 0 .. Done(p, t) /\ ~(prog2[p][t] < Done(p, t)) /\ prog2[p][t] # 0
    BY <1>5, <1>6, <1>15, <1>17
  <2>5. ~(deps[p][t] > 0 \/ InTodo(p, t))
    BY <1>1, <1>17 DEF Conserved
  <2> QED BY <1>1, <1>2, <1>13, <1>15, <2>1, <2>2, <2>3, <2>4, <2>5, ConservedMoves
<1>20. Counts(prog2)'
  <2>1. \A q \in Parties : \A u \in Tasks :
           /\ q # p \/ u # t =>
                /\ prog2[q][u] < Done(q, u) <=> prog[q][u] < Done(q, u)
                /\ prog2[q][u] = Done(q, u) <=> prog[q][u] = Done(q, u)
           /\ prog2[q][u] <= 1 <=> prog[q][u] <= 1
    BY <1>6, <1>15, <1>17
  <2>2. ASSUME NEW q \in Parties, NEW u \in Tasks
        PROVE  /\ IsFiniteSet(Pending(q, u)')
               /\ deps'[q][u] = Cardinality(Waiting(prog2, q, u)) + Cardinality(Pending(q, u)')
               /\ deps'[q][u] <= Len(Inputs[u])
               /\ left'[q][u] = Cardinality(Untaken(prog2, q, u))
               /\ u \in held'[q] <=> prog2[q][u] = Done(q, u) /\ left'[q][u] > 0
    <3>1. /\ IsFiniteSet(Pending(q, u))
          /\ deps[q][u] = Cardinality(Waiting(prog, q, u)) + Cardinality(Pending(q, u))
          /\ deps[q][u] <= Len(Inputs[u])
          /\ left[q][u] = Cardinality(Untaken(prog, q, u))
          /\ u \in held[q] <=> prog[q][u] = Done(q, u) /\ left[q][u] > 0
      BY <1>1, CountsTask
    <3>2. Untaken(prog2, q, u) = Untaken(prog, q, u)
      <4>1. NoneTakes(prog, prog2, q)
        BY <2>1 DEF NoneTakes
      <4> QED BY <4>1, UntakenSame
    <3>3. left'[q][u] = Cardinality(Untaken(prog2, q, u)) /\ deps'[q][u] <= Len(Inputs[u])
      BY <1>8, <3>1, <3>2
    <3>4. u \in held'[q] <=> prog2[q][u] = Done(q, u) /\ left'[q][u] > 0
      <4>1. left' = left /\ left[q][u] \in Nat
        BY <1>8, <3>1, CountedFinite
      <4>2. CASE q = p /\ u = t
        <5>1. prog2[p][t] = Done(p, t)
          BY <1>5, <1>15
        <5>2. t \in Kept(p, t) <=> left[p][t] # 0
          BY <1>7 DEF Kept
        <5> QED BY <1>11, <4>1, <4>2, <5>1, <5>2
      <4>3. CASE q # p \/ u # t
        <5>1. u \in held'[q] <=> u \in held[q]
          BY <1>11, <4>3 DEF Kept
        <5> QED BY <2>1, <3>1, <4>1, <4>3, <5>1
      <4> QED BY <4>2, <4>3
    <3>5. CASE q = p
      <4>1. /\ IsFiniteSet(Pending(p, u)')
            /\ Cardinality(Pending(p, u)') + Cardinality(Occurs(o.todo, u))
                 = Cardinality(Pending(p, u)) + Cardinality(Occurs(r.todo, u))
        BY <1>1, <1>13, <3>1, <3>5, PendingMoves DEF Types
      <4>2. Cardinality(Occurs(o.todo, u)) = 0
        BY <1>10, OccursEmpty, FS_EmptySet
      <4>3. Cardinality(Occurs(r.todo, u)) = Mult(u, t) /\ Mult(u, t) \in Nat
        BY <1>9, DependentsFacts, MultFacts
      <4>4. Cardinality(Waiting(prog, p, u)) = Cardinality(Waiting(prog2, p, u)) + Mult(u, t)
        <5>1. prog[p][t] < Done(p, t) /\ ~(prog2[p][t] < Done(p, t))
          BY <1>5, <1>6, <1>15
        <5>2. \A w \in Tasks \ {t} : prog2[p][w] = prog[p][w]
          BY <1>15
        <5> QED BY <5>1, <5>2, WaitingFinishes
      <4> DEFINE a == Cardinality(Waiting(prog, p, u))
                 a2 == Cardinality(Waiting(prog2, p, u))
                 b == Cardinality(Pending(p, u))
                 b2 == Cardinality(Pending(p, u)')
                 n == Mult(u, t)
      <4>5. a \in Nat /\ a2 \in Nat /\ b \in Nat /\ b2 \in Nat
        BY <3>1, <3>5, <4>1, CountedFinite, FS_CardinalityType
      <4>6. b2 + 0 = b + n /\ a = a2 + n /\ n \in Nat
        BY <4>1, <4>2, <4>3, <4>4
      <4>7. deps'[p][u] = a + b
        BY <1>8, <3>1, <3>5
      <4> HIDE DEF a, a2, b, b2, n
      <4>8. deps'[p][u] = a2 + b2
        BY <4>5, <4>6, <4>7
      <4> QED BY <3>3, <3>4, <3>5, <4>1, <4>8 DEF a2, b2
    <3>6. CASE q # p
      <4>1. Pending(q, u)' = Pending(q, u)
        BY <1>2, <1>13, <3>6, PendingStays
      <4>2. NoneEnds(prog, prog2, q)
        BY <2>1, <3>6 DEF NoneEnds
      <4>4. Waiting(prog2, q, u) = Waiting(prog, q, u)
        BY <4>2, WaitingSame
      <4>5. deps' = deps
        BY <1>8
      <4> QED BY <3>1, <3>3, <3>4, <4>1, <4>4, <4>5
    <3> QED BY <3>5, <3>6
  <2>3. ASSUME NEW q \in Parties
        PROVE  remaining'[q] = Cardinality({u \in Tasks : prog2[q][u] < Done(q, u)})
                                 + Cardinality({y \in Runners(q) : Notifying(q, y)'})
    <3> DEFINE A == {u \in Tasks : prog[q][u] < Done(q, u)}
               A2 == {u \in Tasks : prog2[q][u] < Done(q, u)}
               B == {y \in Runners(q) : Notifying(q, y)}
               B2 == {y \in Runners(q) : Notifying(q, y)'}
    <3>1. remaining[q] = Cardinality(A) + Cardinality(B) /\ remaining' = remaining
      BY <1>1, <1>8, CountsFacts
    <3>2. CASE q = p
      <4>1. A2 = A \ {t} /\ t \in A
        <5>1. prog[p][t] < Done(p, t) /\ ~(prog2[p][t] < Done(p, t))
          BY <1>5, <1>6, <1>15
        <5> QED BY <2>1, <3>2, <5>1
      <4>2. B2 = B \cup {x} /\ x \notin B
        <5>1. ~Notifying(p, x) /\ Notifying(p, x)'
          BY <1>2, <1>3, <1>9, <1>13 DEF Moves, Notifying
        <5>2. \A y \in Runners(p) : y # x => (Notifying(p, y)' <=> Notifying(p, y))
          BY <1>13, KindFacts DEF Moves, Notifying
        <5> QED BY <3>2, <5>1, <5>2
      <4>3. IsFiniteSet(A) /\ IsFiniteSet(B)
        BY TasksFinite, RunnersFinite, FS_Subset
      <4> HIDE DEF A, B, A2, B2
      <4>4. Cardinality(A2) = Cardinality(A) - 1 /\ Cardinality(A) \in Nat
        BY <4>1, <4>3, FS_RemoveElement, FS_CardinalityType
      <4>5. Cardinality(B2) = Cardinality(B) + 1 /\ Cardinality(B) \in Nat
        BY <4>2, <4>3, FS_AddElement, FS_CardinalityType
      <4>6. remaining'[q] = Cardinality(A2) + Cardinality(B2)
        BY <3>1, <4>4, <4>5
      <4> QED BY <4>6 DEF A2, B2
    <3>3. CASE q # p
      <4>1. A2 = A
        BY <2>1, <3>3
      <4>2. B2 = B
        BY <1>13, <3>3, KindFacts DEF Moves, Notifying
      <4> QED BY <3>1, <4>1, <4>2
    <3> QED BY <3>2, <3>3
  <2> QED BY <1>1, <1>14, <2>2, <2>3, CountsNext
<1>21. Closing'
  BY <1>1, <1>8, <1>14 DEF Closing, runVars
<1>22. Data(prog2, msg, pub, priv, chal)'
  <2>1. UNCHANGED <<reads, cached, chalq, chalNet, outq, net, slot>>
    BY <1>8 DEF diskVars, chalVars, outVars
  <2>2. Plain(p, x, r) /\ r.pc \notin {"read", "write", "getslot"}
    BY <1>3, <1>9, <1>13 DEF Plain
  <2> QED BY <1>1, <1>2, <1>13, <1>16, <2>1, <2>2, PlainData
<1>23. Inv(prog2, place, msg, pub, priv, chal)'
  BY <1>13, <1>18, <1>19, <1>20, <1>21, <1>22 DEF Inv, Graph
<1> QED BY <1>23 DEF IInv

(* A task that is launched waits for nothing: its inputs have ended, and   *)
(* their outputs are kept, with a use left for each that it takes.         *)
LEMMA InputsKept ==
  ASSUME NEW prog, Conserved(prog), Counts(prog), SharedTypes,
         NEW p \in Parties, NEW t \in Tasks, prog[p][t] = 1, NEW g, ~(g[p][t] <= 1),
         \A u \in Tasks \ {t} : g[p][u] = prog[p][u], NEW u \in Tasks
  PROVE  /\ left[p][u] = Cardinality(Untaken(g, p, u)) + Mult(t, u)
         /\ left[p][u] \in Nat /\ Cardinality(Untaken(g, p, u)) \in Nat /\ Mult(t, u) \in Nat
         /\ Mult(t, u) > 0 => u \in held[p]
<1>1. Mult(t, u) \in Nat /\ Cardinality(Untaken(g, p, u)) \in Nat
  BY MultFacts, CountedFinite
<1>2. left[p][u] = Cardinality(Untaken(prog, p, u))
  BY CountsTask
<1>3. Cardinality(Untaken(prog, p, u)) = Cardinality(Untaken(g, p, u)) + Mult(t, u)
  <2>1. prog[p][t] <= 1 /\ \A w \in Tasks \ {t} : g[p][w] <= 1 <=> prog[p][w] <= 1
    OBVIOUS
  <2> QED BY <2>1, UntakenTakes
<1>4. Mult(t, u) > 0 => u \in held[p]
  <2> SUFFICES ASSUME Mult(t, u) > 0 PROVE u \in held[p]
    OBVIOUS
  <2>1. PICK i \in DOMAIN Inputs[t] : Inputs[t][i] = u
    BY MultFacts
  <2>2. ~(deps[p][t] > 0) /\ deps[p][t] \in Nat
    BY DEF Conserved, SharedTypes
  <2>3. Waiting(prog, p, t) = {}
    <3> DEFINE a == Cardinality(Waiting(prog, p, t))
               b == Cardinality(Pending(p, t))
    <3>1. a \in Nat /\ b \in Nat /\ deps[p][t] = a + b /\ IsFiniteSet(Waiting(prog, p, t))
      BY CountsTask, CountedFinite, FS_CardinalityType
    <3> HIDE DEF a, b
    <3>2. a = 0
      BY <2>2, <3>1
    <3> QED BY <3>1, <3>2, FS_EmptySet DEF a
  <2>4. ~(prog[p][u] < Done(p, u))
    BY <2>1, <2>3 DEF Waiting
  <2>5. prog[p][u] = Done(p, u)
    <3>1. Done(p, u) \in Nat /\ prog[p][u] \in Nat /\ prog[p][u] <= Done(p, u)
      BY DoneFacts DEF Numbers
    <3> QED BY <2>4, <3>1
  <2>6. left[p][u] > 0
    BY <1>1, <1>2, <1>3
  <2> QED BY <2>5, <2>6, CountsTask
<1> QED BY <1>1, <1>2, <1>3, <1>4

(* What launching a task changes, when it makes the tasks' progress g.     *)
Launches(p, x, t, g) ==
  /\ left' \in [Parties -> [Tasks -> Int]] /\ held' \in [Parties -> SUBSET Tasks]
  /\ \A q \in Parties : q # p => left'[q] = left[q] /\ held'[q] = held[q]
  /\ \A u \in Tasks :
       /\ left'[p][u] = Cardinality(Untaken(g, p, u))
       /\ u \in held'[p] <=> g[p][u] = Done(p, u) /\ left'[p][u] > 0
  /\ \E hit \in BOOLEAN :
       /\ hit => Chunk[t] \in cached[p]
       /\ reads' = [reads EXCEPT ![p] = @ \cup Reads(p, t, hit)]
       /\ Do(p, x, [thr[p][x] EXCEPT !.pc = "getslot", !.step = 0, !.hit = hit,
                                     !.brings = "request"])
  /\ chalq' = IF p = "verifier" /\ WantChallenge(t, 0)
              THEN Append(chalq, t) ELSE chalq
  /\ UNCHANGED <<runVars, slot, deps, remaining, noTasks, readsOpen,
                 cached, outVars, chalOpen, chalNet, endVars>>

LEMMA LaunchActs ==
  ASSUME NEW prog, NEW place, Types, Graph(prog, place),
         NEW p \in Parties, NEW x \in Threads(p), Launch(p, x),
         NEW t \in Tasks, t = thr[p][x].task, NEW g, g[p][t] = 2,
         \A u \in Tasks \ {t} : g[p][u] = prog[p][u]
  PROVE  prog[p][t] = 1 /\ place[p][t] = OnThread(x) /\ Launches(p, x, t, g)
<1>1. Types /\ Conserved(prog) /\ Launched(prog, place) /\ Counts(prog) /\ SharedTypes
  BY DEF Types, Graph
<1>2. thr[p][x].pc = "launch"
  BY DEF Launch
<1>3. prog[p][t] = 1 /\ place[p][t] = OnThread(x)
  <2>1. StageAt(prog, place, p, x, thr[p][x])
    BY <1>1 DEF Launched
  <2> QED BY <1>2, <2>1 DEF StageAt, Stands
<1>4. ASSUME NEW u \in Tasks
      PROVE  /\ left[p][u] = Cardinality(Untaken(g, p, u)) + Mult(t, u)
             /\ left[p][u] \in Nat /\ Cardinality(Untaken(g, p, u)) \in Nat /\ Mult(t, u) \in Nat
             /\ Mult(t, u) > 0 => u \in held[p]
  BY <1>1, <1>3, InputsKept
<1> DEFINE after == [u \in Tasks |-> left[p][u] - Mult(t, u)]
<1>5. \A u \in Tasks : after[u] = Cardinality(Untaken(g, p, u)) /\ after[u] \in Nat
  BY <1>4
<1>6. ~\E u \in Tasks : Mult(t, u) > 0 /\ (u \notin held[p] \/ after[u] < 0)
  BY <1>4, <1>5
<1>7. /\ left' = [left EXCEPT ![p] = after]
      /\ held' = [held EXCEPT ![p] = {u \in @ : after[u] > 0 \/ Mult(t, u) = 0}]
      /\ \E hit \in {FALSE} \cup {Chunk[t] \in cached[p]} :
            /\ reads' = [reads EXCEPT ![p] = @ \cup Reads(p, t, hit)]
            /\ Do(p, x, [thr[p][x] EXCEPT !.pc = "getslot", !.step = 0, !.hit = hit,
                                          !.brings = "request"])
      /\ chalq' = IF p = "verifier" /\ WantChallenge(t, 0)
                  THEN Append(chalq, t) ELSE chalq
      /\ UNCHANGED <<runVars, slot, deps, remaining, noTasks, readsOpen,
                     cached, outVars, chalOpen, chalNet, endVars>>
  <2> DEFINE b == [u \in Tasks |-> left[p][u] - Uses(t, u)]
  <2>1. b = after
    BY DEF Uses
  <2>2. ~\E u \in Tasks : Uses(t, u) > 0 /\ (u \notin held[p] \/ b[u] < 0)
    <3> HIDE DEF b, after
    <3> QED BY <1>6, <2>1 DEF Uses
  <2>3. /\ left' = [left EXCEPT ![p] = b]
        /\ held' = [held EXCEPT ![p] = {u \in @ : b[u] > 0 \/ Uses(t, u) = 0}]
        /\ \E hit \in {FALSE} \cup {Chunk[t] \in cached[p]} :
              /\ reads' = [reads EXCEPT ![p] = @ \cup Reads(p, t, hit)]
              /\ Do(p, x, [thr[p][x] EXCEPT !.pc = "getslot", !.step = 0, !.hit = hit,
                                            !.brings = "request"])
        /\ chalq' = IF p = "verifier" /\ WantChallenge(t, 0)
                    THEN Append(chalq, t) ELSE chalq
        /\ UNCHANGED <<runVars, slot, deps, remaining, noTasks, readsOpen,
                       cached, outVars, chalOpen, chalNet, endVars>>
    BY <2>2, ZenonT(60) DEF Launch
  <2> HIDE DEF b, after
  <2> QED BY <2>1, <2>3 DEF Uses
<1> HIDE DEF after
<1>8. left \in [Parties -> [Tasks -> Int]] /\ held \in [Parties -> SUBSET Tasks]
  BY <1>1 DEF SharedTypes
<1>9. after \in [Tasks -> Int]
  BY <1>5 DEF after
<1>10. /\ left' \in [Parties -> [Tasks -> Int]] /\ held' \in [Parties -> SUBSET Tasks]
       /\ \A q \in Parties : q # p => left'[q] = left[q] /\ held'[q] = held[q]
       /\ left'[p] = after /\ held'[p] = {u \in held[p] : after[u] > 0 \/ Mult(t, u) = 0}
  BY <1>7, <1>8, <1>9
<1>11. ASSUME NEW u \in Tasks
       PROVE  /\ left'[p][u] = Cardinality(Untaken(g, p, u))
              /\ u \in held'[p] <=> g[p][u] = Done(p, u) /\ left'[p][u] > 0
  <2>1. left'[p][u] = after[u] /\ left'[p][u] = Cardinality(Untaken(g, p, u))
    BY <1>5, <1>10
  <2>2. u \in held[p] <=> prog[p][u] = Done(p, u) /\ left[p][u] > 0
    BY <1>1, CountsTask
  <2>3. u \in held'[p] <=> u \in held[p] /\ (left'[p][u] > 0 \/ Mult(t, u) = 0)
    BY <1>10, <2>1
  <2>4. Mult(t, u) = 0 => left'[p][u] = left[p][u]
    BY <1>4, <2>1
  <2>5. left'[p][u] > 0 => left[p][u] > 0
    BY <1>4, <2>1
  <2>6. prog[p][u] = Done(p, u) <=> g[p][u] = Done(p, u)
    <3>1. Done(p, t) \in Nat /\ Done(p, t) >= 5
      BY <1>1, DoneFacts
    <3> QED BY <1>3, <3>1
  <2>7. u \in held'[p] <=> g[p][u] = Done(p, u) /\ left'[p][u] > 0
    BY <2>2, <2>3, <2>4, <2>5, <2>6
  <2> QED BY <2>1, <2>7
<1>12. \E hit \in BOOLEAN :
         /\ hit => Chunk[t] \in cached[p]
         /\ reads' = [reads EXCEPT ![p] = @ \cup Reads(p, t, hit)]
         /\ Do(p, x, [thr[p][x] EXCEPT !.pc = "getslot", !.step = 0, !.hit = hit,
                                       !.brings = "request"])
  <2>1. PICK hit \in {FALSE} \cup {Chunk[t] \in cached[p]} :
         /\ reads' = [reads EXCEPT ![p] = @ \cup Reads(p, t, hit)]
         /\ Do(p, x, [thr[p][x] EXCEPT !.pc = "getslot", !.step = 0, !.hit = hit,
                                       !.brings = "request"])
    BY <1>7
  <2>2. hit \in BOOLEAN
    <3>1. (Chunk[t] \in cached[p]) \in BOOLEAN
      OBVIOUS
    <3>2. \A b \in BOOLEAN : \A h \in {FALSE} \cup {b} : h \in BOOLEAN
      OBVIOUS
    <3> QED BY <3>1, <3>2
  <2>3. hit => Chunk[t] \in cached[p]
    <3>1. CASE hit = FALSE
      BY <3>1
    <3>2. CASE hit = (Chunk[t] \in cached[p])
      BY <3>2
    <3> QED BY <3>1, <3>2
  <2> QED BY <2>1, <2>2, <2>3
<1> QED BY <1>3, <1>7, <1>10, <1>11, <1>12 DEF Launches

(* What launching a task changes of the data: the reads and the challenge  *)
(* it asks for are the first of the task.                                  *)
LEMMA LaunchData ==
  ASSUME Types, Shapes', NEW prog, NEW msg, NEW pub, NEW priv, NEW chal,
         Numbers(prog), Data(prog, msg, pub, priv, chal),
         NEW p \in Parties, NEW x \in Threads(p), NEW r, Plain(p, x, r),
         NEW t \in Tasks, prog[p][t] = 1, r.pc = "getslot", r.brings = "request", r.task = t,
         NEW hit \in BOOLEAN, r.hit = hit, hit => Chunk[t] \in cached[p],
         reads' = [reads EXCEPT ![p] = @ \cup Reads(p, t, hit)],
         chalq' = IF p = "verifier" /\ WantChallenge(t, 0) THEN Append(chalq, t) ELSE chalq,
         UNCHANGED <<slot, cached, chalNet, outq, net>>,
         NEW prog2, Numbers(prog2), Grows(prog, prog2), prog2[p][t] = 2
  PROVE  \E pub2, priv2, chal2 : Data(prog2, msg, pub2, priv2, chal2)'
<1>1. ThreadTypes /\ SharedTypes /\ Shapes
  BY DEF Types
<1>2. BringsNo(r, "public") /\ BringsNo(r, "private") /\ BringsNo(r, "challenge")
      /\ BringsNo(r, "incoming")
  BY DEF BringsNo
<1>3. Moves(p, x, r)
  BY DEF Plain
<1>4. SlotTable' /\ Causal(prog2)' /\ Flights(prog2, msg)'
  <2>1. SlotTable'
    BY SlotTablePlain DEF Data
  <2>2. Causal(prog2)'
    BY CausalGrows DEF Data
  <2>3. Flights(prog2, msg)'
    BY <1>2, FlightsPlain DEF Data
  <2> QED BY <2>1, <2>2, <2>3
<1> DEFINE where == IF hit THEN FromCache ELSE InQueue
           pub2 == Put(pub, p, t, where)
           priv2 == Put(priv, p, t, InQueue)
           chal2 == [u \in Tasks |-> IF p = "verifier" /\ u = t THEN InQueue ELSE chal[u]]
<1>5. reads \in [Parties -> SUBSET ReadRequests]
  BY <1>1 DEF SharedTypes
<1>6. \A q \in Parties : \A m \in reads'[q] :
        m \in reads[q] \/ (q = p /\ m \in Reads(p, t, hit))
  BY <1>5
<1>7. \A m \in Reads(p, t, hit) :
        /\ m.task = t
        /\ m.kind = "public" => WantPublic(t, 0) /\ ~hit
        /\ m.kind = "private" => WantPrivate(p, t, 0)
  BY DEF Reads
<1>8. \A q \in Parties : \A u \in Tasks : \A w :
        PublicAt(prog, pub, q, u, w) => PublicAt(prog2, pub2, q, u, w)
  <2> SUFFICES ASSUME NEW q \in Parties, NEW u \in Tasks, NEW w, PublicAt(prog, pub, q, u, w)
               PROVE  PublicAt(prog2, pub2, q, u, w)
    OBVIOUS
  <2>1. q # p \/ u # t
    BY DEF PublicAt
  <2>2. PublicAt(prog2, pub, q, u, w)
    BY TokensGrow
  <2> HIDE DEF where
  <2>3. pub2[q][u] = pub[q][u]
    BY <2>1, PutFacts
  <2> QED BY <2>2, <2>3 DEF PublicAt
<1>9. \A q \in Parties : \A u \in Tasks : \A w :
        PrivateAt(prog, priv, q, u, w) => PrivateAt(prog2, priv2, q, u, w)
  <2> SUFFICES ASSUME NEW q \in Parties, NEW u \in Tasks, NEW w, PrivateAt(prog, priv, q, u, w)
               PROVE  PrivateAt(prog2, priv2, q, u, w)
    OBVIOUS
  <2>1. q # p \/ u # t
    BY DEF PrivateAt
  <2>2. PrivateAt(prog2, priv, q, u, w)
    BY TokensGrow
  <2>3. priv2[q][u] = priv[q][u]
    BY <2>1, PutFacts
  <2> QED BY <2>2, <2>3 DEF PrivateAt
<1>10. \A u \in Tasks : \A w : ChallengeAt(prog, chal, u, w) =>
         /\ p = "verifier" => u # t
         /\ ChallengeAt(prog2, chal2, u, w)
  <2> SUFFICES ASSUME NEW u \in Tasks, NEW w, ChallengeAt(prog, chal, u, w)
               PROVE  /\ p = "verifier" => u # t
                      /\ ChallengeAt(prog2, chal2, u, w)
    OBVIOUS
  <2>1. p = "verifier" => u # t
    BY DEF ChallengeAt
  <2>2. ChallengeAt(prog2, chal, u, w)
    BY TokensGrow
  <2>3. chal2[u] = chal[u]
    BY <2>1
  <2> HIDE DEF chal2
  <2> QED BY <2>1, <2>2, <2>3 DEF ChallengeAt
<1>11. pub2[p][t] = where /\ priv2[p][t] = InQueue
  BY DEF Put
<1>12. \A q \in Parties : \A y \in Threads(q) :
         \/ thr'[q][y] = thr[q][y]
         \/ q = p /\ y = x /\ thr'[q][y] = r
  BY <1>3 DEF Moves
<1> HIDE DEF pub2, priv2, chal2
<1>13. PublicData(prog2, pub2)'
  <2>1. \A q \in Parties : NoChunk \notin cached'[q]
    BY DEF Data, PublicData
  <2>2. \A q \in Parties : \A m \in reads'[q] :
          m.kind = "public" => PublicAt(prog2, pub2, q, m.task, InQueue)
    <3> SUFFICES ASSUME NEW q \in Parties, NEW m \in reads'[q], m.kind = "public"
                 PROVE  PublicAt(prog2, pub2, q, m.task, InQueue)
      OBVIOUS
    <3>1. CASE m \in reads[q]
      BY <1>1, <1>8, <3>1, TasksNamed DEF Data, PublicData
    <3>2. CASE q = p /\ m \in Reads(p, t, hit)
      BY <1>7, <1>11, <3>2 DEF PublicAt, WantPublic
    <3> QED BY <1>6, <3>1, <3>2
  <2>3. ASSUME NEW q \in Parties, NEW y \in Threads(q)
        PROVE  /\ Brings(q, y, "public")' => PublicAt(prog2, pub2, q, thr'[q][y].task, OnThread(y))
               /\ Requests(q, y)' /\ thr'[q][y].hit =>
                    PublicAt(prog2, pub2, q, thr'[q][y].task, FromCache)
    <3>1. CASE thr'[q][y] = thr[q][y]
      <4>1. /\ Brings(q, y, "public")' <=> Brings(q, y, "public")
            /\ Requests(q, y)' <=> Requests(q, y)
        BY <3>1 DEF Brings, Requests
      <4>2. Brings(q, y, "public") => PublicAt(prog2, pub2, q, thr[q][y].task, OnThread(y))
        BY <1>1, <1>8, TasksNamed DEF Data, PublicData
      <4>3. Requests(q, y) /\ thr[q][y].hit => PublicAt(prog2, pub2, q, thr[q][y].task, FromCache)
        BY <1>1, <1>8, TasksNamed DEF Data, PublicData
      <4> QED BY <3>1, <4>1, <4>2, <4>3
    <3>2. CASE q = p /\ y = x /\ thr'[q][y] = r
      <4>1. ~Brings(p, x, "public")'
        BY <3>2 DEF Brings
      <4>2. hit => Chunk[t] # NoChunk
        BY DEF Data, PublicData
      <4>3. hit => PublicAt(prog2, pub2, p, t, FromCache)
        BY <1>11, <4>2 DEF PublicAt
      <4> QED BY <3>2, <4>1, <4>3
    <3> QED BY <1>12, <3>1, <3>2
  <2>4. \A q \in Parties : \A u \in Tasks :
          slot'[q][u].pub => PublicAt(prog2, pub2, q, u, InSlot)
    BY <1>8 DEF Data, PublicData
  <2> QED BY <2>1, <2>2, <2>3, <2>4 DEF PublicData
<1>14. PrivateData(prog2, priv2)'
  <2>1. \A q \in Parties : \A m \in reads'[q] :
          m.kind = "private" => PrivateAt(prog2, priv2, q, m.task, InQueue)
    <3> SUFFICES ASSUME NEW q \in Parties, NEW m \in reads'[q], m.kind = "private"
                 PROVE  PrivateAt(prog2, priv2, q, m.task, InQueue)
      OBVIOUS
    <3>1. CASE m \in reads[q]
      BY <1>1, <1>9, <3>1, TasksNamed DEF Data, PrivateData
    <3>2. CASE q = p /\ m \in Reads(p, t, hit)
      BY <1>7, <1>11, <3>2 DEF PrivateAt, WantPrivate
    <3> QED BY <1>6, <3>1, <3>2
  <2>2. ASSUME NEW q \in Parties, NEW y \in Threads(q)
        PROVE  Brings(q, y, "private")' => PrivateAt(prog2, priv2, q, thr'[q][y].task, OnThread(y))
    <3>1. CASE thr'[q][y] = thr[q][y]
      <4>1. Brings(q, y, "private")' <=> Brings(q, y, "private")
        BY <3>1 DEF Brings
      <4>2. Brings(q, y, "private") => PrivateAt(prog2, priv2, q, thr[q][y].task, OnThread(y))
        BY <1>1, <1>9, TasksNamed DEF Data, PrivateData
      <4> QED BY <3>1, <4>1, <4>2
    <3>2. CASE q = p /\ y = x /\ thr'[q][y] = r
      BY <3>2 DEF Brings
    <3> QED BY <1>12, <3>1, <3>2
  <2>3. \A q \in Parties : \A u \in Tasks :
          slot'[q][u].priv => PrivateAt(prog2, priv2, q, u, InSlot)
    BY <1>9 DEF Data, PrivateData
  <2> QED BY <2>1, <2>2, <2>3 DEF PrivateData
<1>15. Challenges(prog2, chal2)'
  <2>0. "prover" \in Parties /\ "verifier" \in Parties /\ Chal \in Threads("prover")
    BY KindFacts DEF Parties
  <2>1. chalq \in Seq(Tasks) /\ chalNet' = chalNet /\ slot' = slot
    BY <1>1 DEF SharedTypes
  <2>2. /\ NoTwice(chalq) /\ NoTwice(chalNet)
        /\ \A i \in DOMAIN chalq : /\ ChallengeAt(prog2, chal2, chalq[i], InQueue)
                                   /\ p = "verifier" => chalq[i] # t
        /\ \A i \in DOMAIN chalNet : ChallengeAt(prog2, chal2, chalNet[i], OnNet(0))
    BY <1>1, <1>10, TasksNamed DEF Data, Challenges
  <2>3. NoTwice(chalq') /\ \A i \in DOMAIN chalq' : ChallengeAt(prog2, chal2, chalq'[i], InQueue)
    <3>1. CASE p = "verifier" /\ WantChallenge(t, 0)
      <4>1. chalq' = Append(chalq, t)
        BY <3>1
      <4>2. \A i \in DOMAIN chalq' : \/ i \in DOMAIN chalq /\ chalq'[i] = chalq[i]
                                     \/ i = Len(chalq) + 1 /\ chalq'[i] = t
        BY <2>1, <4>1, AppendFacts
      <4>3. ChallengeAt(prog2, chal2, t, InQueue)
        <5>1. chal2[t] = InQueue /\ t \in Challenge /\ prog2["verifier"][t] = 2
          BY <3>1 DEF WantChallenge, chal2
        <5>2. ~(prog["prover"][t] >= 3)
          BY <3>1, <5>1 DEF Data, Challenges
        <5>3. prog2["prover"][t] <= 2
          <6>1. prog["prover"][t] \in Nat /\ prog2["prover"][t] \in Nat
            BY <2>0 DEF Numbers
          <6>2. prog["prover"][t] >= 3 <=> prog2["prover"][t] >= 3
            BY <2>0, GrowsFacts
          <6> QED BY <5>2, <6>1, <6>2
        <5> QED BY <5>1, <5>3 DEF ChallengeAt
      <4>4. \A i, j \in DOMAIN chalq' : chalq'[i] = chalq'[j] => i = j
        BY <2>2, <3>1, <4>2 DEF NoTwice
      <4>5. \A i \in DOMAIN chalq' : ChallengeAt(prog2, chal2, chalq'[i], InQueue)
        BY <2>2, <4>2, <4>3
      <4> QED BY <4>4, <4>5 DEF NoTwice
    <3>2. CASE ~(p = "verifier" /\ WantChallenge(t, 0))
      <4>1. chalq' = chalq
        BY <3>2
      <4> QED BY <2>2, <4>1 DEF NoTwice
    <3> QED BY <3>1, <3>2
  <2>4. (NoTwice(chalNet))'
    BY <2>1, <2>2 DEF NoTwice
  <2>5. Brings("prover", Chal, "challenge")' =>
          ChallengeAt(prog2, chal2, thr'["prover"][Chal].task, OnThread(Chal))
    <3>1. CASE thr'["prover"][Chal] = thr["prover"][Chal]
      <4>1. Brings("prover", Chal, "challenge")' <=> Brings("prover", Chal, "challenge")
        BY <3>1 DEF Brings
      <4>2. Brings("prover", Chal, "challenge") =>
              ChallengeAt(prog2, chal2, thr["prover"][Chal].task, OnThread(Chal))
        BY <1>1, <1>10, <2>0, TasksNamed DEF Data, Challenges
      <4> QED BY <3>1, <4>1, <4>2
    <3>2. CASE thr'["prover"][Chal] = r
      BY <3>2 DEF Brings
    <3> QED BY <1>12, <2>0, <3>1, <3>2
  <2>6. ASSUME NEW u \in Tasks
        PROVE  /\ slot'["prover"][u].chal => ChallengeAt(prog2, chal2, u, InSlot)
               /\ slot'["verifier"][u].chal => u \in Challenge /\ slot'["verifier"][u].req = 0
               /\ u \in Challenge /\ prog2["prover"][u] >= 3 => prog2["verifier"][u] >= 2
    <3>1. /\ slot["prover"][u].chal => ChallengeAt(prog2, chal2, u, InSlot)
          /\ slot["verifier"][u].chal => u \in Challenge /\ slot["verifier"][u].req = 0
      BY <1>10 DEF Data, Challenges
    <3>2. u \in Challenge /\ prog["prover"][u] >= 3 => prog["verifier"][u] >= 2
      BY DEF Data, Challenges
    <3>3. /\ prog["prover"][u] >= 3 <=> prog2["prover"][u] >= 3
          /\ prog["verifier"][u] >= 2 => prog2["verifier"][u] >= 2
      BY <2>0, GrowsFacts
    <3> QED BY <2>1, <3>1, <3>2, <3>3
  <2>7. \A i \in DOMAIN chalNet : ChallengeAt(prog2, chal2, chalNet[i], OnNet(0))
    BY <2>2
  <2> QED BY <2>1, <2>3, <2>4, <2>5, <2>6, <2>7 DEF Challenges
<1>16. Data(prog2, msg, pub2, priv2, chal2)'
  BY <1>4, <1>13, <1>14, <1>15 DEF Data
<1> QED BY <1>16

(* A task is launched, by a runner thread or by the main thread.           *)
LEMMA LaunchKeeps ==
  ASSUME NEW prog, NEW place, NEW msg, NEW pub, NEW priv, NEW chal,
         Inv(prog, place, msg, pub, priv, chal),
         NEW p \in Parties, NEW x \in Threads(p), x[1] \in {"run", "main"}, Launch(p, x)
  PROVE  IInv'
<1>1. Types /\ NoPanic /\ Graph(prog, place) /\ Data(prog, msg, pub, priv, chal)
      /\ ThreadTypes /\ SharedTypes /\ Shapes /\ Conserved(prog) /\ Launched(prog, place)
      /\ Counts(prog) /\ Closing
  BY DEF Inv, Types, Graph
<1> DEFINE o == thr[p][x]
<1>2. o.pc = "launch" /\ o \in Records /\ o.task \in Tasks
  BY <1>1, RecordFacts DEF Launch, Working
<1>3. PICK t \in Tasks : t = o.task
  BY <1>2
<1> DEFINE prog2 == Put(prog, p, t, 2)
<1>4. /\ prog2[p][t] = 2
      /\ \A q \in Parties : \A u \in Tasks : q # p \/ u # t => prog2[q][u] = prog[q][u]
  BY DEF Put
<1> HIDE DEF prog2
<1>5. \A u \in Tasks \ {t} : prog2[p][u] = prog[p][u]
  BY <1>4
<1>0. prog[p][t] = 1 /\ place[p][t] = OnThread(x) /\ Launches(p, x, t, prog2)
  BY <1>1, <1>3, <1>4, <1>5, LaunchActs
<1>6. /\ left' \in [Parties -> [Tasks -> Int]] /\ held' \in [Parties -> SUBSET Tasks]
      /\ \A q \in Parties : q # p => left'[q] = left[q] /\ held'[q] = held[q]
      /\ \A u \in Tasks :
           /\ left'[p][u] = Cardinality(Untaken(prog2, p, u))
           /\ u \in held'[p] <=> prog2[p][u] = Done(p, u) /\ left'[p][u] > 0
      /\ \E hit \in BOOLEAN :
           /\ hit => Chunk[t] \in cached[p]
           /\ reads' = [reads EXCEPT ![p] = @ \cup Reads(p, t, hit)]
           /\ Do(p, x, [thr[p][x] EXCEPT !.pc = "getslot", !.step = 0, !.hit = hit,
                                         !.brings = "request"])
      /\ chalq' = IF p = "verifier" /\ WantChallenge(t, 0)
                  THEN Append(chalq, t) ELSE chalq
      /\ UNCHANGED <<runVars, slot, deps, remaining, noTasks, readsOpen,
                     cached, outVars, chalOpen, chalNet, endVars>>
  BY <1>0 DEF Launches
<1>7. PICK hit \in BOOLEAN :
        /\ hit => Chunk[t] \in cached[p]
        /\ reads' = [reads EXCEPT ![p] = @ \cup Reads(p, t, hit)]
        /\ Do(p, x, [o EXCEPT !.pc = "getslot", !.step = 0, !.hit = hit, !.brings = "request"])
  BY <1>6
<1> DEFINE r == [o EXCEPT !.pc = "getslot", !.step = 0, !.hit = hit, !.brings = "request"]
<1>8. r \in Records /\ r.pc = "getslot" /\ r.step = 0 /\ r.brings = "request" /\ r.hit = hit
      /\ r.task = t /\ r.todo = o.todo
  <2>1. o \in Records /\ o.task = t
    BY <1>2, <1>3
  <2> HIDE DEF o
  <2>2. r = [o EXCEPT !.pc = "getslot", !.step = 0, !.hit = hit, !.brings = "request"]
    OBVIOUS
  <2> HIDE DEF r
  <2>3. r \in Records
    BY <2>1, <2>2 DEF Records, Working, Cargo
  <2>4. r.pc = "getslot" /\ r.step = 0 /\ r.brings = "request" /\ r.hit = hit
        /\ r.task = t /\ r.todo = o.todo
    BY <2>1, <2>2 DEF Records
  <2> QED BY <2>3, <2>4
<1>9. Do(p, x, r)
  BY <1>7
<1> HIDE DEF r
<1>10. SharedTypes'
  <2>1. reads' \in [Parties -> SUBSET ReadRequests]
    <3>1. reads \in [Parties -> SUBSET ReadRequests]
      BY <1>1 DEF SharedTypes
    <3>2. Reads(p, t, hit) \subseteq ReadRequests
      BY DEF Reads, ReadRequests
    <3> QED BY <1>7, <3>1, <3>2
  <2>2. chalq' \in Seq(Tasks)
    <3>1. chalq \in Seq(Tasks)
      BY <1>1 DEF SharedTypes
    <3>2. Append(chalq, t) \in Seq(Tasks)
      BY <3>1, AppendFacts
    <3> QED BY <1>6, <3>1, <3>2
  <2> QED BY <1>1, <1>6, <2>1, <2>2 DEF SharedTypes, runVars, outVars, endVars
<1>11. Moves(p, x, r) /\ Types' /\ Shapes' /\ NoPanic'
  <2>1. Shape(p, x, r)
    BY <1>8 DEF Shape, RunShape, MainShape
  <2>2. UNCHANGED panicked
    BY <1>6 DEF endVars
  <2> QED BY <1>1, <1>8, <1>9, <1>10, <2>1, <2>2, WorkStep
<1>12. Done(p, t) \in Nat /\ Done(p, t) >= 5
  BY <1>1, DoneFacts
<1>13. Numbers(prog) /\ Numbers(prog2) /\ Grows(prog, prog2)
  <2>1. Numbers(prog)
    BY <1>1, DoneFacts
  <2>2. 2 >= prog[p][t] /\ \A j \in Nat : 2 >= 3 * j + 3 => prog[p][t] >= 3 * j + 3
    BY <1>0
  <2> QED BY <2>1, <2>2, GrowsPut DEF prog2
<1>14. \A q \in Parties : /\ thr'[q][Main].todo = thr[q][Main].todo
                          /\ thr'[q][Main].pc = thr[q][Main].pc \/ thr'[q][Main].pc = "getslot"
  <2> SUFFICES ASSUME NEW q \in Parties
               PROVE  /\ thr'[q][Main].todo = thr[q][Main].todo
                      /\ thr'[q][Main].pc = thr[q][Main].pc \/ thr'[q][Main].pc = "getslot"
    OBVIOUS
  <2>1. Main \in Threads(q)
    BY KindFacts
  <2>2. CASE q = p /\ x = Main
    BY <1>8, <1>11, <2>2 DEF Moves
  <2>3. CASE ~(q = p /\ x = Main)
    <3>1. thr'[q][Main] = thr[q][Main]
      BY <1>11, <2>1, <2>3 DEF Moves
    <3> QED BY <3>1
  <2> QED BY <2>2, <2>3
<1>15. Launched(prog2, place)'
  <2>1. StageAt(prog2, place, p, x, r)
    BY <1>0, <1>4, <1>8, <1>12 DEF StageAt, Stands
  <2>2. UNCHANGED slot /\ \A q \in Parties : runQueue'[q] \subseteq runQueue[q]
    BY <1>6 DEF runVars
  <2> QED BY <1>0, <1>1, <1>4, <1>11, <2>1, <2>2, LaunchedMoves
<1>16. Conserved(prog2)'
  <2>1. \A u : Carries(p, x, u) => u = t
    BY <1>3 DEF Carries
  <2>2. Carries(p, x, t)'
    BY <1>8, <1>11 DEF Carries, Moves
  <2>3. UNCHANGED <<runQueue, slot, deps>>
    BY <1>6 DEF runVars
  <2>4. \A q \in Parties : \A u \in Tasks : InTodo(q, u)' <=> InTodo(q, u)
    BY <1>14 DEF InTodo
  <2>5. prog2[p][t] \in 0 .. Done(p, t) /\ prog2[p][t] # 0
    BY <1>4, <1>12
  <2>6. ~(deps[p][t] > 0 \/ InTodo(p, t))
    BY <1>0, <1>1 DEF Conserved
  <2> QED BY <1>1, <1>4, <1>11, <2>1, <2>2, <2>3, <2>4, <2>5, <2>6, ConservedMoves
<1>17. Counts(prog2)'
  <2>1. \A q \in Parties : \A u \in Tasks :
           /\ prog2[q][u] < Done(q, u) <=> prog[q][u] < Done(q, u)
           /\ prog2[q][u] = Done(q, u) <=> prog[q][u] = Done(q, u)
           /\ q # p => (prog2[q][u] <= 1 <=> prog[q][u] <= 1)
    BY <1>0, <1>4, <1>12
  <2>2. \A q \in Parties : \A y \in Runners(q) :
          /\ thr'[q][y].todo = thr[q][y].todo
          /\ Notifying(q, y)' <=> Notifying(q, y)
    BY <1>2, <1>8, <1>11, KindFacts DEF Moves, Notifying
  <2>3. ASSUME NEW q \in Parties, NEW u \in Tasks
        PROVE  /\ IsFiniteSet(Pending(q, u)')
               /\ deps'[q][u] = Cardinality(Waiting(prog2, q, u)) + Cardinality(Pending(q, u)')
               /\ deps'[q][u] <= Len(Inputs[u])
               /\ left'[q][u] = Cardinality(Untaken(prog2, q, u))
               /\ u \in held'[q] <=> prog2[q][u] = Done(q, u) /\ left'[q][u] > 0
    <3>1. /\ IsFiniteSet(Pending(q, u))
          /\ deps[q][u] = Cardinality(Waiting(prog, q, u)) + Cardinality(Pending(q, u))
          /\ deps[q][u] <= Len(Inputs[u])
          /\ left[q][u] = Cardinality(Untaken(prog, q, u))
          /\ u \in held[q] <=> prog[q][u] = Done(q, u) /\ left[q][u] > 0
      BY <1>1, CountsTask
    <3>2. Pending(q, u)' = Pending(q, u)
      BY <2>2 DEF Pending
    <3>3. Waiting(prog2, q, u) = Waiting(prog, q, u)
      BY <2>1, InputsType DEF Waiting
    <3>4. /\ left'[q][u] = Cardinality(Untaken(prog2, q, u))
          /\ u \in held'[q] <=> prog2[q][u] = Done(q, u) /\ left'[q][u] > 0
      <4>1. CASE q = p
        BY <1>6, <4>1
      <4>2. CASE q # p
        <5>1. NoneTakes(prog, prog2, q)
          BY <2>1, <4>2 DEF NoneTakes
        <5>2. Untaken(prog2, q, u) = Untaken(prog, q, u)
          BY <5>1, UntakenSame
        <5> QED BY <1>6, <2>1, <3>1, <4>2, <5>2
      <4> QED BY <4>1, <4>2
    <3>5. deps' = deps
      BY <1>6
    <3> QED BY <3>1, <3>2, <3>3, <3>4, <3>5
  <2>4. ASSUME NEW q \in Parties
        PROVE  remaining'[q] = Cardinality({u \in Tasks : prog2[q][u] < Done(q, u)})
                                 + Cardinality({y \in Runners(q) : Notifying(q, y)'})
    <3>1. {u \in Tasks : prog2[q][u] < Done(q, u)} = {u \in Tasks : prog[q][u] < Done(q, u)}
      BY <2>1
    <3>2. {y \in Runners(q) : Notifying(q, y)'} = {y \in Runners(q) : Notifying(q, y)}
      BY <2>2
    <3>3. remaining[q] = Cardinality({u \in Tasks : prog[q][u] < Done(q, u)})
                           + Cardinality({y \in Runners(q) : Notifying(q, y)})
      BY <1>1, CountsFacts, SMTT(30)
    <3>4. remaining'[q] = remaining[q]
      BY <1>6
    <3> QED BY <3>1, <3>2, <3>3, <3>4
  <2>5. \A q \in Parties : thr'[q][Main].todo = thr[q][Main].todo
    BY <1>14
  <2> QED BY <1>1, <2>3, <2>4, <2>5, CountsNext
<1>18. Closing'
  BY <1>1, <1>6, <1>14 DEF Closing, runVars
<1>19. \E pub2, priv2, chal2 : Data(prog2, msg, pub2, priv2, chal2)'
  <2>1. Plain(p, x, r)
    BY <1>2, <1>8, <1>11 DEF Plain
  <2>2. UNCHANGED <<slot, cached, chalNet, outq, net>>
    BY <1>6 DEF outVars
  <2>3. reads' = [reads EXCEPT ![p] = @ \cup Reads(p, t, hit)] /\ (hit => Chunk[t] \in cached[p])
    BY <1>7
  <2>4. chalq' = IF p = "verifier" /\ WantChallenge(t, 0) THEN Append(chalq, t) ELSE chalq
    BY <1>6
  <2>5. Types /\ Shapes' /\ Numbers(prog) /\ Data(prog, msg, pub, priv, chal) /\ prog[p][t] = 1
        /\ Numbers(prog2) /\ Grows(prog, prog2) /\ prog2[p][t] = 2
    BY <1>0, <1>1, <1>4, <1>11, <1>13
  <2> QED BY <1>8, <2>1, <2>2, <2>3, <2>4, <2>5, LaunchData
<1>20. PICK pub2, priv2, chal2 : Data(prog2, msg, pub2, priv2, chal2)'
  BY <1>19
<1>21. Inv(prog2, place, msg, pub2, priv2, chal2)'
  BY <1>11, <1>15, <1>16, <1>17, <1>18, <1>20 DEF Inv, Graph
<1> QED BY <1>21 DEF IInv
=============================================================================
