--------------------------- MODULE Deletions_proofs ---------------------------
(***************************************************************************)
(* Deleting what is spread over many records: theorems about the deletion   *)
(* of an account (AccountDeletion) and about clearing the sample            *)
(* (SampleWorkspace), for every value of their constants.                   *)
(***************************************************************************)
EXTENDS AccountDeletion, SampleWorkspace, FiniteSetTheorems, SequenceTheorems, WellFoundedInduction, TLAPS

-----------------------------------------------------------------------------
(* AccountDeletion.                                                        *)

-----------------------------------------------------------------------------
(* The order of the commands.                                              *)

\* TurnsOf are ordered: one comes before the other, and none before itself.
LEMMA BeforeOrders ==
  ASSUME NEW t \in Nat \X Nat \X Nat, NEW u \in Nat \X Nat \X Nat, NEW w \in Nat \X Nat \X Nat
  PROVE  /\ ~Before(t, t)
         /\ (Before(t, u) /\ Before(u, w) => Before(t, w))
         /\ (t # u => Before(t, u) \/ Before(u, t))
<1>1. t = <<t[1], t[2], t[3]>> /\ t[1] \in Nat /\ t[2] \in Nat /\ t[3] \in Nat
  OBVIOUS
<1>2. u = <<u[1], u[2], u[3]>> /\ u[1] \in Nat /\ u[2] \in Nat /\ u[3] \in Nat
  OBVIOUS
<1>3. w[1] \in Nat /\ w[2] \in Nat /\ w[3] \in Nat
  OBVIOUS
<1>4. t # u => t[1] # u[1] \/ t[2] # u[2] \/ t[3] # u[3]
  BY <1>1, <1>2
<1> QED BY <1>1, <1>2, <1>3, <1>4 DEF Before

\* Counting those before it gives each of finitely many turns a number of its
\* own, in order, from one on.
LEMMA TurnsCounted ==
  ASSUME NEW T, T \subseteq Nat \X Nat \X Nat, IsFiniteSet(T)
  PROVE  LET turn(n) == CHOOSE t \in T : Cardinality({u \in T : Before(u, t)}) = n - 1 IN
         /\ Cardinality(T) \in Nat
         /\ \A n \in 1..Cardinality(T) : turn(n) \in T
         /\ \A t \in T : \E n \in 1..Cardinality(T) : turn(n) = t
         /\ \A m, n \in 1..Cardinality(T) : Before(turn(m), turn(n)) => m < n
<1> DEFINE N == Cardinality(T)
           below(t) == {u \in T : Before(u, t)}
           turn(n) == CHOOSE t \in T : Cardinality(below(t)) = n - 1
           rank == [t \in T |-> Cardinality(below(t)) + 1]
<1>1. N \in Nat
  BY FS_CardinalityType
<1>2. ASSUME NEW t \in T
      PROVE  Cardinality(below(t)) \in Nat /\ IsFiniteSet(below(t)) /\ Cardinality(below(t)) < N
  <2>1. below(t) \in SUBSET T /\ t \notin below(t)
    BY BeforeOrders
  <2>2. IsFiniteSet(below(t)) /\ Cardinality(below(t)) <= N /\ (N = Cardinality(below(t)) => T = below(t))
    BY <2>1, FS_Subset
  <2>3. Cardinality(below(t)) \in Nat
    BY <2>2, FS_CardinalityType
  <2> QED BY <1>1, <2>1, <2>2, <2>3
<1>3. ASSUME NEW t \in T, NEW u \in T, Before(t, u)
      PROVE  Cardinality(below(t)) < Cardinality(below(u))
  <2>1. below(t) \in SUBSET below(u)
    BY <1>3, BeforeOrders
  <2>2. t \in below(u) /\ t \notin below(t)
    BY <1>3, BeforeOrders
  <2> HIDE DEF below
  <2>3. Cardinality(below(t)) <= Cardinality(below(u)) /\ (Cardinality(below(u)) = Cardinality(below(t)) => below(u) = below(t))
    BY <1>2, <2>1, FS_Subset
  <2> QED BY <1>2, <2>2, <2>3
<1>4. \A t, u \in T : t # u => Before(t, u) \/ Before(u, t)
  BY BeforeOrders
<1> HIDE DEF below
<1>5. \A t \in T : rank[t] = Cardinality(below(t)) + 1 /\ rank[t] \in 1..N
  BY <1>1, <1>2
<1>6. rank \in [T -> 1..N]
  BY <1>5
<1>7. ASSUME NEW t \in T, NEW u \in T, rank[t] = rank[u] PROVE t = u
  BY <1>2, <1>3, <1>4, <1>5, <1>7
<1> HIDE DEF rank
<1>8. rank \in Injection(T, 1..N)
  BY <1>6, <1>7 DEF Injection, IsInjective
<1>9. IsFiniteSet(1..N) /\ Cardinality(1..N) = N
  BY <1>1, FS_Interval
<1>10. rank \in Surjection(T, 1..N)
  BY <1>8, <1>9, FS_Injection
<1>11. ASSUME NEW n \in 1..N PROVE turn(n) \in T /\ rank[turn(n)] = n
  <2>1. PICK t \in T : rank[t] = n
    BY <1>10 DEF Surjection
  <2>2. Cardinality(below(t)) = n - 1
    BY <1>2, <1>5, <2>1
  <2>3. turn(n) \in T /\ Cardinality(below(turn(n))) = n - 1
    BY <2>2
  <2> QED BY <1>2, <1>5, <2>3
<1>12. \A t \in T : \E n \in 1..N : turn(n) = t
  BY <1>5, <1>7, <1>11
<1>13. ASSUME NEW m \in 1..N, NEW n \in 1..N, Before(turn(m), turn(n)) PROVE m < n
  <2> HIDE DEF turn
  <2>1. Cardinality(below(turn(m))) < Cardinality(below(turn(n)))
    BY <1>3, <1>11, <1>13
  <2>2. rank[turn(m)] < rank[turn(n)]
    BY <1>2, <1>5, <1>11, <2>1
  <2> QED BY <1>11, <2>2
<1> QED BY <1>1, <1>11, <1>12, <1>13 DEF below

\* The records a plan may delete.
Rows == OfAccount \cup OfStudies

\* A turn of a plan: the account's indexes come first, and a study's place in
\* its list last of what is of the study.
IsTurn(t) ==
  /\ t[1] \in 1..5 /\ t[2] \in 0..MaxOwned /\ t[3] \in 1..7 /\ SlotAt(t) \in Rows
  /\ (t[1] = 1 => t[2] = 0) /\ (t[1] = 1 /\ t[3] = 1 => SlotAt(t) = <<"reverse", 0>>)
  /\ (SlotAt(t)[1] = "listed" => t[1] = 2 /\ t[3] = 7 /\ SlotAt(t)[2] = t[2])

\* The studies a phase goes through.
Through(seen, phase) ==
  LET listed == {s \in Owned : seen[<<"listed", s>>] # Absent}
  IN  IF phase = 2 THEN listed ELSE IF phase = 4 THEN Owned ELSE {0}

\* The turns of a plan: finitely many, each of a record that was seen, and none left out.
LEMMA TurnsAre ==
  ASSUME NEW seen
  PROVE  /\ TurnsOf(seen) \subseteq Nat \X Nat \X Nat /\ IsFiniteSet(TurnsOf(seen))
         /\ \A t \in TurnsOf(seen) : IsTurn(t) /\ seen[SlotAt(t)] # Absent
         /\ \A t \in (1..5) \X (0..MaxOwned) \X (1..7) :
              t[2] \in Through(seen, t[1]) /\ t[3] \in DOMAIN Kinds[t[1]] /\ seen[SlotAt(t)] # Absent
              /\ (t[1] = 3 => \A s \in Owned : seen[<<"listed", s>>] = Absent) => t \in TurnsOf(seen)
<1> DEFINE box == (1..5) \X (0..MaxOwned) \X (1..7)
           listed == {s \in Owned : seen[<<"listed", s>>] # Absent}
           studies == << {0}, listed, {0}, Owned, {0} >>
<1>1. TurnsOf(seen) \subseteq box /\ box \subseteq Nat \X Nat \X Nat
  BY DeletionAssumption DEF TurnsOf
<1>2. IsFiniteSet(box)
  <2>1. IsFiniteSet(1..5) /\ IsFiniteSet(0..MaxOwned) /\ IsFiniteSet(1..7)
    <3>1. MaxOwned \in Int /\ 0 \in Int /\ 1 \in Int /\ 5 \in Int /\ 7 \in Int
      BY DeletionAssumption
    <3> QED BY <3>1, FS_Interval
  <2>2. IsFiniteSet((0..MaxOwned) \X (1..7))
    BY <2>1, FS_Product
  <2> DEFINE flat == (1..5) \X ((0..MaxOwned) \X (1..7))
             f == [p \in flat |-> <<p[1], p[2][1], p[2][2]>>]
  <2>3. IsFiniteSet(flat)
    BY <2>1, <2>2, FS_Product
  <2>4. f \in Surjection(flat, box)
    <3>1. f \in [flat -> box]
      OBVIOUS
    <3>2. ASSUME NEW t \in box PROVE \E p \in flat : f[p] = t
      <4>1. <<t[1], <<t[2], t[3]>>>> \in flat /\ f[<<t[1], <<t[2], t[3]>>>>] = t
        OBVIOUS
      <4> QED BY <4>1
    <3> QED BY <3>1, <3>2 DEF Surjection
  <2> QED BY <2>3, <2>4, FS_Surjection
<1>3. IsFiniteSet(TurnsOf(seen))
  BY <1>1, <1>2, FS_Subset
<1>4. /\ DOMAIN Kinds[1] = 1..4 /\ DOMAIN Kinds[2] = 1..7 /\ DOMAIN Kinds[3] = 1..1 /\ DOMAIN Kinds[4] = 1..2 /\ DOMAIN Kinds[5] = 1..1
  BY DEF Kinds
<1>5. /\ Kinds[1][1] = "reverse" /\ Kinds[1][2] = "oauth" /\ Kinds[1][3] = "email" /\ Kinds[1][4] = "all"
      /\ Kinds[2][1] = "lock" /\ Kinds[2][2] = "receipt" /\ Kinds[2][3] = "score" /\ Kinds[2][4] = "registry"
      /\ Kinds[2][5] = "storage" /\ Kinds[2][6] = "owner" /\ Kinds[2][7] = "listed"
      /\ Kinds[3][1] = "storage" /\ Kinds[4][1] = "key" /\ Kinds[4][2] = "keys" /\ Kinds[5][1] = "account"
  BY DEF Kinds
<1>6. /\ studies[1] = {0} /\ studies[2] = listed /\ studies[3] = {0} /\ studies[4] = Owned /\ studies[5] = {0}
  OBVIOUS
<1>7. \A t \in box : t \in TurnsOf(seen) <=> /\ t[2] \in studies[t[1]] /\ t[3] \in DOMAIN Kinds[t[1]]
                                         /\ (t[1] = 3 => listed = {}) /\ seen[SlotAt(t)] # Absent
  BY DEF TurnsOf
<1> HIDE DEF studies
<1>8. ASSUME NEW t \in TurnsOf(seen)
      PROVE  IsTurn(t) /\ seen[SlotAt(t)] # Absent
  <2>1. t[2] \in studies[t[1]] /\ t[3] \in DOMAIN Kinds[t[1]] /\ t \in box /\ seen[SlotAt(t)] # Absent
    BY <1>1, <1>7
  <2>2. t[1] \in 1..5 /\ t[2] \in 0..MaxOwned /\ t[3] \in 1..7
    BY <2>1
  <2> DEFINE kind == Kinds[t[1]][t[3]]
  <2>3. SlotAt(t) = <<kind, IF kind = "storage" THEN 0 ELSE t[2]>>
    BY DEF SlotAt
  <2>4. listed \subseteq Owned
    OBVIOUS
  <2> HIDE DEF listed, kind
  <2>5. CASE t[1] = 1
    <3>1. t[3] \in 1..4 /\ t[2] = 0
      BY <2>1, <2>5, <1>4, <1>6
    <3>2. kind \in {"reverse", "oauth", "email", "all"} /\ (t[3] = 1 => kind = "reverse")
      BY <1>5, <2>5, <3>1 DEF kind
    <3>3. SlotAt(t) = <<kind, 0>>
      BY <2>3, <3>1, <3>2
    <3>4. SlotAt(t) \in Rows
      BY <3>1, <3>2, <3>3 DEF Rows, OfAccount, OfStudies
    <3>5. SlotAt(t)[1] = kind /\ (kind = "listed" => SlotAt(t)[2] = t[2])
      BY <3>1, <3>2, <3>3
    <3>6. t[1] = 1 /\ t[3] = 1 => SlotAt(t) = <<"reverse", 0>>
      BY <2>5, <3>1, <3>2, <3>3
    <3>7. kind = "listed" => t[1] = 2 /\ t[3] = 7
      BY <2>5, <3>2
    <3> QED BY <2>1, <2>2, <2>5, <3>1, <3>4, <3>5, <3>6, <3>7 DEF IsTurn
  <2>6. CASE t[1] = 2
    <3>1. t[3] \in 1..7 /\ t[2] \in Owned
      BY <2>1, <2>4, <2>6, <1>4, <1>6
    <3>2. kind \in {"lock", "receipt", "score", "registry", "storage", "owner", "listed"} /\ (kind = "listed" => t[3] = 7)
      BY <1>5, <2>6, <3>1 DEF kind
    <3>3. (kind # "storage" => SlotAt(t) = <<kind, t[2]>>) /\ (kind = "storage" => SlotAt(t) = <<"storage", 0>>)
      BY <2>3, <3>1, <3>2
    <3>4. SlotAt(t) \in Rows
      BY <3>1, <3>2, <3>3 DEF Rows, OfAccount, OfStudies
    <3>5. SlotAt(t)[1] = kind /\ (kind = "listed" => SlotAt(t)[2] = t[2])
      BY <3>1, <3>2, <3>3
    <3>6. t[1] = 1 /\ t[3] = 1 => SlotAt(t) = <<"reverse", 0>>
      BY <2>6, <3>1, <3>2, <3>3
    <3>7. kind = "listed" => t[1] = 2 /\ t[3] = 7
      BY <2>6, <3>2
    <3> QED BY <2>1, <2>2, <2>6, <3>1, <3>4, <3>5, <3>6, <3>7 DEF IsTurn
  <2>7. CASE t[1] = 3
    <3>1. t[3] = 1 /\ t[2] = 0
      BY <2>1, <2>7, <1>4, <1>6
    <3>2. kind \in {"storage"}
      BY <1>5, <2>7, <3>1 DEF kind
    <3>3. SlotAt(t) = <<kind, 0>>
      BY <2>3, <3>1, <3>2
    <3>4. SlotAt(t) \in Rows
      BY <3>1, <3>2, <3>3 DEF Rows, OfAccount, OfStudies
    <3>5. SlotAt(t)[1] = kind /\ (kind = "listed" => SlotAt(t)[2] = t[2])
      BY <3>1, <3>2, <3>3
    <3>6. t[1] = 1 /\ t[3] = 1 => SlotAt(t) = <<"reverse", 0>>
      BY <2>7, <3>1, <3>2, <3>3
    <3>7. kind = "listed" => t[1] = 2 /\ t[3] = 7
      BY <2>7, <3>2
    <3> QED BY <2>1, <2>2, <2>7, <3>1, <3>4, <3>5, <3>6, <3>7 DEF IsTurn
  <2>8. CASE t[1] = 4
    <3>1. t[3] \in 1..2 /\ t[2] \in Owned
      BY <2>1, <2>8, <1>4, <1>6
    <3>2. kind \in {"key", "keys"}
      BY <1>5, <2>8, <3>1 DEF kind
    <3>3. SlotAt(t) = <<kind, t[2]>>
      BY <2>3, <3>1, <3>2
    <3>4. SlotAt(t) \in Rows
      BY <3>1, <3>2, <3>3 DEF Rows, OfAccount, OfStudies
    <3>5. SlotAt(t)[1] = kind /\ (kind = "listed" => SlotAt(t)[2] = t[2])
      BY <3>1, <3>2, <3>3
    <3>6. t[1] = 1 /\ t[3] = 1 => SlotAt(t) = <<"reverse", 0>>
      BY <2>8, <3>1, <3>2, <3>3
    <3>7. kind = "listed" => t[1] = 2 /\ t[3] = 7
      BY <2>8, <3>2
    <3> QED BY <2>1, <2>2, <2>8, <3>1, <3>4, <3>5, <3>6, <3>7 DEF IsTurn
  <2>9. CASE t[1] = 5
    <3>1. t[3] = 1 /\ t[2] = 0
      BY <2>1, <2>9, <1>4, <1>6
    <3>2. kind \in {"account"}
      BY <1>5, <2>9, <3>1 DEF kind
    <3>3. SlotAt(t) = <<kind, 0>>
      BY <2>3, <3>1, <3>2
    <3>4. SlotAt(t) \in Rows
      BY <3>1, <3>2, <3>3 DEF Rows, OfAccount, OfStudies
    <3>5. SlotAt(t)[1] = kind /\ (kind = "listed" => SlotAt(t)[2] = t[2])
      BY <3>1, <3>2, <3>3
    <3>6. t[1] = 1 /\ t[3] = 1 => SlotAt(t) = <<"reverse", 0>>
      BY <2>9, <3>1, <3>2, <3>3
    <3>7. kind = "listed" => t[1] = 2 /\ t[3] = 7
      BY <2>9, <3>2
    <3> QED BY <2>1, <2>2, <2>9, <3>1, <3>4, <3>5, <3>6, <3>7 DEF IsTurn
  <2> QED BY <2>2, <2>5, <2>6, <2>7, <2>8, <2>9
<1>9. ASSUME NEW t \in box, t[2] \in Through(seen, t[1]), t[3] \in DOMAIN Kinds[t[1]], seen[SlotAt(t)] # Absent,
             t[1] = 3 => \A s \in Owned : seen[<<"listed", s>>] = Absent
      PROVE  t \in TurnsOf(seen)
  <2>1. Through(seen, t[1]) = studies[t[1]]
    <3>1. t[1] \in 1..5
      OBVIOUS
    <3>2. Through(seen, t[1]) = IF t[1] = 2 THEN listed ELSE IF t[1] = 4 THEN Owned ELSE {0}
      BY DEF Through
    <3> HIDE DEF listed
    <3> QED BY <1>6, <3>1, <3>2
  <2> QED BY <1>7, <1>9, <2>1
<1> QED BY <1>1, <1>3, <1>8, <1>9

\* What a plan built from what was seen has.
LEMMA PlanHas ==
  ASSUME NEW seen
  PROVE  /\ Len(Plan(seen)) \in Nat \ {0} /\ Plan(seen)[Len(Plan(seen))] = <<Journal, "open">>
         /\ \A n \in 1..Len(Plan(seen)) - 1 : /\ Plan(seen)[n][1] \in Rows /\ Plan(seen)[n][2] = seen[Plan(seen)[n][1]]
                                             /\ Plan(seen)[n][2] # Absent
         /\ \A t \in TurnsOf(seen) : \E n \in 1..Len(Plan(seen)) - 1 : Plan(seen)[n][1] = SlotAt(t)
         /\ (<<1, 0, 1>> \in TurnsOf(seen) => Plan(seen)[1][1] = <<"reverse", 0>> /\ Len(Plan(seen)) > 1)
         /\ \A s \in Owned : <<2, s, 4>> \in TurnsOf(seen) =>
              \A n \in 1..Len(Plan(seen)) - 1 : Plan(seen)[n][1] = <<"listed", s>> =>
                \E m \in 1..n - 1 : Plan(seen)[m][1] = <<"registry", s>>
<1> DEFINE T == TurnsOf(seen)
           N == Cardinality(T)
           turn(n) == CHOOSE t \in T : Cardinality({u \in T : Before(u, t)}) = n - 1
           S == Rows \X {seen[k] : k \in Rows}
           rows == [n \in 1..N |-> <<SlotAt(turn(n)), seen[SlotAt(turn(n))]>>]
           plan == Plan(seen)
<1>1. T \subseteq Nat \X Nat \X Nat /\ IsFiniteSet(T) /\ \A t \in T : IsTurn(t) /\ SlotAt(t) \in Rows /\ seen[SlotAt(t)] # Absent
  BY TurnsAre DEF IsTurn
<1>2. plan = Append(rows, <<Journal, "open">>)
  BY DEF Plan
<1> HIDE DEF T, plan
<1>3. N \in Nat /\ (\A n \in 1..N : turn(n) \in T) /\ (\A t \in T : \E n \in 1..N : turn(n) = t)
      /\ \A m, n \in 1..N : Before(turn(m), turn(n)) => m < n
  BY <1>1, TurnsCounted
<1> HIDE DEF turn, N
<1>4. \A n \in 1..N : rows[n] = <<SlotAt(turn(n)), seen[SlotAt(turn(n))]>> /\ rows[n] \in S
  BY <1>1, <1>3
<1>5. rows \in [1..N -> S]
  <2>1. rows = [n \in 1..N |-> rows[n]]
    OBVIOUS
  <2> HIDE DEF S, rows
  <2> QED BY <1>4, <2>1
<1> HIDE DEF rows
<1>6. /\ Len(plan) = N + 1 /\ plan[N + 1] = <<Journal, "open">> /\ \A n \in 1..N : plan[n] = rows[n]
  <2> DEFINE R == S \cup {<<Journal, "open">>}
  <2>1. rows \in [1..N -> R] /\ <<Journal, "open">> \in R
    BY <1>5
  <2> HIDE DEF R
  <2>2. rows \in Seq(R) /\ Len(rows) = N
    BY <1>3, <2>1
  <2> QED BY <1>2, <1>3, <2>1, <2>2
<1>7. \A n \in 1..N : plan[n][1] = SlotAt(turn(n)) /\ plan[n][2] = seen[SlotAt(turn(n))]
  BY <1>4, <1>6
<1>8. \A t \in T : \E n \in 1..N : plan[n][1] = SlotAt(t) /\ turn(n) = t
  BY <1>3, <1>7
<1>9. ASSUME <<1, 0, 1>> \in T PROVE plan[1][1] = <<"reverse", 0>> /\ N > 0
  <2>1. PICK n \in 1..N : turn(n) = <<1, 0, 1>>
    BY <1>3, <1>9
  <2>2. 1 \in 1..N /\ turn(1) \in T
    BY <1>3, <2>1
  <2>3. ~Before(turn(n), turn(1))
    BY <1>3, <2>1, <2>2
  <2>4. IsTurn(turn(1))
    BY <1>1, <2>2
  <2>5. turn(1) \in Nat \X Nat \X Nat
    BY <1>1, <2>2
  <2>6. ASSUME NEW t \in Nat \X Nat \X Nat, IsTurn(t), ~Before(<<1, 0, 1>>, t) PROVE SlotAt(t) = <<"reverse", 0>>
    <3>1. t[1] \in Nat /\ t[2] \in Nat /\ t[3] \in Nat
      OBVIOUS
    <3>2. t[1] <= 1
      BY <2>6, <3>1 DEF Before
    <3>3. t[1] = 1 /\ t[2] = 0
      BY <2>6, <3>1, <3>2 DEF IsTurn
    <3>4. t[3] = 1
      BY <2>6, <3>3 DEF IsTurn, Before
    <3> QED BY <2>6, <3>3, <3>4 DEF IsTurn
  <2>7. SlotAt(turn(1)) = <<"reverse", 0>>
    BY <2>1, <2>3, <2>4, <2>5, <2>6
  <2>8. plan[1][1] = SlotAt(turn(1))
    BY <1>7, <2>2
  <2> QED BY <1>3, <2>1, <2>7, <2>8
<1>10. ASSUME NEW s \in Owned, <<2, s, 4>> \in T, NEW n \in 1..N, plan[n][1] = <<"listed", s>>
       PROVE  \E m \in 1..n - 1 : plan[m][1] = <<"registry", s>>
  <2>1. IsTurn(turn(n)) /\ SlotAt(turn(n)) = <<"listed", s>>
    BY <1>1, <1>3, <1>7, <1>10
  <2>2. turn(n)[1] = 2 /\ turn(n)[2] = s /\ turn(n)[3] = 7
    BY <2>1 DEF IsTurn
  <2>3. PICK m \in 1..N : turn(m) = <<2, s, 4>> /\ plan[m][1] = SlotAt(<<2, s, 4>>)
    BY <1>8, <1>10
  <2>4. Before(turn(m), turn(n))
    BY <2>2, <2>3 DEF Before
  <2>5. SlotAt(<<2, s, 4>>) = <<"registry", s>>
    BY DEF SlotAt, Kinds
  <2> QED BY <1>3, <2>3, <2>4, <2>5
<1>11. Len(plan) \in Nat \ {0} /\ Len(plan) - 1 = N
  BY <1>3, <1>6
<1>12. \A n \in 1..N : plan[n][1] \in Rows /\ plan[n][2] = seen[plan[n][1]] /\ plan[n][2] # Absent
  BY <1>1, <1>3, <1>7
<1>13. <<1, 0, 1>> \in T => plan[1][1] = <<"reverse", 0>> /\ Len(plan) > 1
  BY <1>9, <1>11
<1>14. plan[Len(plan)] = <<Journal, "open">>
  BY <1>6
<1> QED BY <1>8, <1>10, <1>11, <1>12, <1>13, <1>14 DEF T, plan

\* What goes with a study only if it is listed.
WithListed == {"lock", "receipt", "score", "registry", "owner"}

\* Every record that was seen has a turn; what goes with its study, if that is
\* listed.
LEMMA TurnOfRecord ==
  ASSUME NEW seen, NEW k \in Rows, seen[k] # Absent, k[1] \in WithListed => seen[<<"listed", k[2]>>] # Absent
  PROVE  /\ \E t \in TurnsOf(seen) : SlotAt(t) = k
         /\ (k = <<"reverse", 0>> => <<1, 0, 1>> \in TurnsOf(seen))
         /\ (k[1] = "registry" => <<2, k[2], 4>> \in TurnsOf(seen))
<1> DEFINE box == (1..5) \X (0..MaxOwned) \X (1..7)
           listed == {s \in Owned : seen[<<"listed", s>>] # Absent}
<1>1. /\ DOMAIN Kinds[1] = 1..4 /\ DOMAIN Kinds[2] = 1..7 /\ DOMAIN Kinds[3] = 1..1 /\ DOMAIN Kinds[4] = 1..2 /\ DOMAIN Kinds[5] = 1..1
  BY DEF Kinds
<1>2. ASSUME NEW n \in 1..4 PROVE SlotAt(<<1, 0, n>>) = <<Kinds[1][n], 0>>
  <2>1. Kinds[1][n] # "storage"
    BY DEF Kinds
  <2> QED BY <2>1 DEF SlotAt
<1>3. ASSUME NEW n \in 1..7, NEW s \in Owned, n # 5 PROVE SlotAt(<<2, s, n>>) = <<Kinds[2][n], s>>
  <2>1. Kinds[2][n] # "storage"
    BY <1>3 DEF Kinds
  <2> QED BY <2>1 DEF SlotAt
<1>4. \A s \in Owned : SlotAt(<<2, s, 5>>) = <<"storage", 0>>
  BY DEF SlotAt, Kinds
<1>5. SlotAt(<<3, 0, 1>>) = <<"storage", 0>> /\ SlotAt(<<5, 0, 1>>) = <<"account", 0>>
  BY DEF SlotAt, Kinds
<1>6. \A s \in Owned : SlotAt(<<4, s, 1>>) = <<"key", s>> /\ SlotAt(<<4, s, 2>>) = <<"keys", s>>
  BY DEF SlotAt, Kinds
<1>7. /\ Kinds[1][1] = "reverse" /\ Kinds[1][2] = "oauth" /\ Kinds[1][3] = "email" /\ Kinds[1][4] = "all"
      /\ Kinds[2][1] = "lock" /\ Kinds[2][2] = "receipt" /\ Kinds[2][3] = "score" /\ Kinds[2][4] = "registry"
      /\ Kinds[2][6] = "owner" /\ Kinds[2][7] = "listed"
  BY DEF Kinds
<1>8. 0 \in 0..MaxOwned /\ \A s \in Owned : s \in 0..MaxOwned
  BY DeletionAssumption DEF Owned
<1>9. \A t \in box : t[2] \in Through(seen, t[1]) /\ t[3] \in DOMAIN Kinds[t[1]] /\ seen[SlotAt(t)] # Absent
                      /\ (t[1] = 3 => \A s \in Owned : seen[<<"listed", s>>] = Absent) => t \in TurnsOf(seen)
  BY TurnsAre
<1>10. /\ Through(seen, 1) = {0} /\ Through(seen, 2) = listed /\ Through(seen, 3) = {0} /\ Through(seen, 4) = Owned
       /\ Through(seen, 5) = {0}
  BY DEF Through
<1>11. ASSUME NEW n \in 1..4, k = <<Kinds[1][n], 0>> PROVE <<1, 0, n>> \in TurnsOf(seen) /\ SlotAt(<<1, 0, n>>) = k
  <2>1. <<1, 0, n>> \in box /\ SlotAt(<<1, 0, n>>) = k
    BY <1>2, <1>8, <1>11
  <2> QED BY <2>1, <1>1, <1>9, <1>10
<1>12. ASSUME NEW n \in 1..7, NEW s \in Owned, n # 5, k = <<Kinds[2][n], s>>, seen[<<"listed", s>>] # Absent
       PROVE  <<2, s, n>> \in TurnsOf(seen) /\ SlotAt(<<2, s, n>>) = k
  <2>1. <<2, s, n>> \in box /\ SlotAt(<<2, s, n>>) = k /\ s \in listed
    BY <1>3, <1>8, <1>12
  <2> QED BY <2>1, <1>1, <1>9, <1>10
<1>13. ASSUME k = <<"storage", 0>> PROVE \E t \in TurnsOf(seen) : SlotAt(t) = k
  <2>1. CASE listed = {}
    <3>1. <<3, 0, 1>> \in box /\ SlotAt(<<3, 0, 1>>) = k /\ \A s \in Owned : seen[<<"listed", s>>] = Absent
      BY <1>5, <1>8, <1>13, <2>1
    <3>2. <<3, 0, 1>> \in TurnsOf(seen)
      BY <3>1, <1>1, <1>9, <1>10
    <3> QED BY <3>1, <3>2
  <2>2. ASSUME NEW s \in listed PROVE \E t \in TurnsOf(seen) : SlotAt(t) = k
    <3>1. <<2, s, 5>> \in box /\ SlotAt(<<2, s, 5>>) = k
      BY <1>4, <1>8, <1>13
    <3>2. <<2, s, 5>> \in TurnsOf(seen)
      BY <3>1, <1>1, <1>9, <1>10
    <3> QED BY <3>1, <3>2
  <2> QED BY <2>1, <2>2
<1>14. ASSUME NEW s \in Owned, k = <<"key", s>> \/ k = <<"keys", s>> PROVE \E t \in TurnsOf(seen) : SlotAt(t) = k
  <2>1. PICK n \in 1..2 : <<4, s, n>> \in box /\ SlotAt(<<4, s, n>>) = k
    BY <1>6, <1>8, <1>14
  <2>2. <<4, s, n>> \in TurnsOf(seen)
    BY <2>1, <1>1, <1>9, <1>10
  <2> QED BY <2>1, <2>2
<1>15. ASSUME k = <<"account", 0>> PROVE \E t \in TurnsOf(seen) : SlotAt(t) = k
  <2>1. <<5, 0, 1>> \in box /\ SlotAt(<<5, 0, 1>>) = k
    BY <1>5, <1>8, <1>15
  <2>2. <<5, 0, 1>> \in TurnsOf(seen)
    BY <2>1, <1>1, <1>9, <1>10
  <2> QED BY <2>1, <2>2
<1>16. ASSUME k[1] \in {"oauth", "email", "all", "reverse"}, k[2] = 0
       PROVE  (\E t \in TurnsOf(seen) : SlotAt(t) = k) /\ (k[1] = "reverse" => <<1, 0, 1>> \in TurnsOf(seen))
  <2>1. k = <<k[1], 0>>
    BY <1>16 DEF Rows, OfAccount, OfStudies
  <2>2. PICK n \in 1..4 : k = <<Kinds[1][n], 0>> /\ (k[1] = "reverse" => n = 1)
    BY <1>7, <1>16, <2>1
  <2> QED BY <1>11, <2>2
<1>17. ASSUME k[1] \in WithListed \cup {"listed"}, k[2] \in Owned
       PROVE  (\E t \in TurnsOf(seen) : SlotAt(t) = k) /\ (k[1] = "registry" => <<2, k[2], 4>> \in TurnsOf(seen))
  <2>1. k = <<k[1], k[2]>>
    BY DEF Rows, OfAccount, OfStudies
  <2>2. seen[<<"listed", k[2]>>] # Absent
    BY <1>17, <2>1
  <2>3. PICK n \in 1..7 : n # 5 /\ k = <<Kinds[2][n], k[2]>> /\ (k[1] = "registry" => n = 4)
    <3>1. k[1] \in {"lock", "receipt", "score", "registry", "owner", "listed"}
      BY <1>17 DEF WithListed
    <3> QED BY <1>7, <2>1, <3>1
  <2> QED BY <1>12, <1>17, <2>2, <2>3
<1>18. \/ k[1] \in {"oauth", "email", "all", "reverse"} /\ k[2] = 0
       \/ k = <<"storage", 0>> \/ k = <<"account", 0>>
       \/ k[1] \in WithListed \cup {"listed"} /\ k[2] \in Owned
       \/ \E s \in Owned : k = <<"key", s>> \/ k = <<"keys", s>>
  BY DEF Rows, OfAccount, OfStudies, WithListed
<1>19. k = <<"reverse", 0>> => <<1, 0, 1>> \in TurnsOf(seen)
  BY <1>16
<1>20. k[1] = "registry" => <<2, k[2], 4>> \in TurnsOf(seen)
  BY <1>17, <1>18 DEF WithListed
<1> QED BY <1>13, <1>14, <1>15, <1>16, <1>17, <1>18, <1>19, <1>20

-----------------------------------------------------------------------------
(* The invariant: what the records can be.                                 *)

Values == {Absent, "first", "second", "rotated", "create", "created", "delete", "deleted", "published", "open"}

StudyKinds == {"lock", "receipt", "score", "registry", "owner", "listed", "key", "keys"}
AccountKinds == {"oauth", "email", "account", "all", "storage", "reverse"}

\* A study that is known has its creation key until its account's index goes,
\* which is the first thing a plan deletes.
Known(s) == There("key", s) \/ ~There("reverse", 0)

RecordedOfAccount ==
  /\ slots \in [Slots -> Values] /\ slots[<<"reverse", 0>>] \in {Absent, "first"}
  /\ (slots[<<"storage", 0>>] = "rotated" => slots[<<"account", 0>>] # "first")
RecordedOfStudy(s) ==
  /\ \A kind \in StudyKinds : There(kind, s) => Known(s)
  /\ (slots[<<"registry", s>>] = "deleted" => ~There("owner", s))
  /\ \A kind \in {"receipt", "score"} :
       /\ (slots[<<kind, s>>] = "created" => slots[<<"registry", s>>] \notin {"create", "created"})
       /\ (slots[<<kind, s>>] = "deleted" => /\ ~There("owner", s)
                                            /\ slots[<<"registry", s>>] \notin {"delete", "deleted"})
Recorded == RecordedOfAccount /\ \A s \in Owned : RecordedOfStudy(s)

\* What was read, of what is there now: a value that has moved on does not come
\* back.  `full': the records of the studies have been read, too.
SeenOfAccount(r) ==
  /\ r \in [Slots -> Values]
  /\ \A kind \in {"oauth", "email", "reverse"} : r[<<kind, 0>>] \in {Absent, "first"}
  /\ ("rotated" \in {r[<<"storage", 0>>], r[<<"account", 0>>]} => slots[<<"account", 0>>] # "first")
SeenOfStudy(r, full, s) ==
  /\ \A kind \in StudyKinds : r[<<kind, s>>] # Absent => Known(s)
  /\ \A kind \in {"lock", "owner", "registry"} : r[<<kind, s>>] # Absent => r[<<"listed", s>>] # Absent
  /\ (full /\ r[<<"listed", s>>] # Absent /\ slots[<<"registry", s>>] = "create" => r[<<"registry", s>>] = "create")
  /\ (r[<<"registry", s>>] = "created" => slots[<<"registry", s>>] # "create")
  /\ (r[<<"registry", s>>] = "deleted" => ~There("owner", s) /\ slots[<<"registry", s>>] # "delete")
  /\ (r[<<"key", s>>] = "delete" => slots[<<"key", s>>] \in {Absent, "delete"})
  /\ \A kind \in {"receipt", "score"} :
       /\ (r[<<kind, s>>] = "created" => slots[<<"registry", s>>] \notin {"create", "created"})
       /\ (r[<<kind, s>>] = "deleted" => ~There("owner", s) /\ slots[<<"registry", s>>] \notin {"delete", "deleted"})
Seen(r, full) == SeenOfAccount(r) /\ \A s \in Owned : SeenOfStudy(r, full, s)

\* Until a plan is persisted the account's identities and indexes are there.
Untouched == planned = <<>> => \A kind \in {"oauth", "email", "reverse"} : slots[<<kind, 0>>] = "first"

\* What the requests read.
Workers == [does: {"idle", "gather", "persist", "apply"}, read: [Slots -> Values], at: Nat, slot: Slots]
Reading(w) ==
  /\ Seen(w.read, w.does = "persist") /\ (w.does \in {"gather", "persist"} => w.read[<<"reverse", 0>>] # Absent)
Readers == worker \in [Deleter -> Workers] /\ \A d \in Deleter : Reading(worker[d])

\* The plan that is persisted, and how far it is done.
Planning ==
  /\ cursor \in Nat /\ (There("journal", 0) => planned # <<>>) /\ (planned = <<>> => cursor = 0)
  /\ (planned # <<>> =>
        /\ planned = Plan(gathered) /\ Seen(gathered, TRUE) /\ gathered[<<"reverse", 0>>] # Absent
        /\ cursor <= Len(planned) /\ (~There("journal", 0) => cursor >= Len(planned) - 1)
        /\ \A n \in 1..Len(planned) - 1 : n <= cursor => slots[planned[n][1]] # planned[n][2])

Spared == There("successor", 0) => slots[<<"oauth", 0>>] = "second" /\ slots[<<"email", 0>>] = "second"

DInv == Recorded /\ Untouched /\ Readers /\ Planning /\ Spared

\* Where the records are.
LEMMA SlotsAre ==
  /\ \A kind \in StudyKinds, s \in Owned : <<kind, s>> \in Slots /\ <<kind, s>> \in OfStudies
  /\ \A kind \in AccountKinds : <<kind, 0>> \in Slots /\ <<kind, 0>> \in OfAccount
  /\ Journal \in Slots /\ <<"successor", 0>> \in Slots
  /\ \A k \in Slots : k = <<k[1], k[2]>>
  /\ \A k \in OfStudies : k[1] \in StudyKinds /\ k[2] \in Owned
  /\ \A k \in OfAccount : k[1] \in AccountKinds /\ k[2] = 0
  /\ \A k \in OfStudies \cup OfAccount : k \in Slots /\ k # Journal
  /\ \A s \in Owned : s # 0
BY DEF Slots, OfStudies, OfAccount, Journal, StudyKinds, AccountKinds, Owned

\* What records are after some were given one value.
LEMMA PutIs ==
  ASSUME slots \in [Slots -> Values], NEW kinds, NEW n, NEW v \in Values
  PROVE  /\ Put(kinds, n, v) \in [Slots -> Values]
         /\ \A k \in Slots : Put(kinds, n, v)[k] = IF k[1] \in kinds /\ k[2] = n THEN v ELSE slots[k]
BY DEF Put

\* A study whose records stay as they are is as it was.
LEMMA StudyStays ==
  ASSUME NEW s \in Owned, \A kind \in StudyKinds : slots'[<<kind, s>>] = slots[<<kind, s>>],
         There("reverse", 0)' => There("reverse", 0)
  PROVE  /\ (RecordedOfStudy(s) => RecordedOfStudy(s)')
         /\ \A r, full : SeenOfStudy(r, full, s) => SeenOfStudy(r, full, s)'
BY DEF RecordedOfStudy, SeenOfStudy, There, Known, StudyKinds

\* An account whose own records stay as they are is as it was.
LEMMA AccountStays ==
  ASSUME slots' \in [Slots -> Values], \A kind \in {"storage", "account", "reverse"} : slots'[<<kind, 0>>] = slots[<<kind, 0>>]
  PROVE  /\ (RecordedOfAccount => RecordedOfAccount') /\ \A r : SeenOfAccount(r) => SeenOfAccount(r)'
BY DEF RecordedOfAccount, SeenOfAccount

\* What a step keeps: the records' invariant, and what was seen of them.
Keeps == Recorded' /\ \A r, full : Seen(r, full) => Seen(r, full)'

\* A step on the records of one study leaves the others, and the account, as they were.
LEMMA StudyStepKeeps ==
  ASSUME Recorded, slots' \in [Slots -> Values], NEW s \in Owned,
         \A k \in Slots : k[2] # s => slots'[k] = slots[k],
         RecordedOfStudy(s)', \A r, full : SeenOfStudy(r, full, s) => SeenOfStudy(r, full, s)'
  PROVE  Keeps
<1>1. \A kind \in {"storage", "account", "reverse"} : slots'[<<kind, 0>>] = slots[<<kind, 0>>]
  BY SlotsAre DEF AccountKinds
<1>2. \A t \in Owned : t # s => \A kind \in StudyKinds : slots'[<<kind, t>>] = slots[<<kind, t>>]
  BY SlotsAre
<1>3. There("reverse", 0)' = There("reverse", 0)
  BY <1>1 DEF There
<1>4. RecordedOfAccount' /\ \A r : SeenOfAccount(r) => SeenOfAccount(r)'
  BY <1>1, AccountStays DEF Recorded
<1>5. Recorded'
  BY <1>2, <1>3, <1>4, StudyStays DEF Recorded
<1>6. ASSUME NEW r, NEW full, Seen(r, full) PROVE Seen(r, full)'
  BY <1>2, <1>3, <1>4, <1>6, StudyStays DEF Seen
<1> QED BY <1>5, <1>6 DEF Keeps

\* A study is begun that was not known.
LEMMA BeginCreationKeeps == ASSUME Recorded, NEW s \in Owned, BeginCreation(s) PROVE Keeps
<1> DEFINE kinds == {"registry", "lock", "owner", "listed", "key", "keys"}
<1>1. slots' = Put(kinds, s, "create") /\ ~There("key", s) /\ There("reverse", 0)
  BY DEF BeginCreation, MayBegin
<1>2. slots' \in [Slots -> Values] /\ \A k \in Slots : slots'[k] = IF k[1] \in kinds /\ k[2] = s THEN "create" ELSE slots[k]
  BY <1>1, PutIs DEF Recorded, RecordedOfAccount, Values
<1>3. ~Known(s) /\ \A kind \in StudyKinds : ~There(kind, s)
  BY <1>1 DEF Known, Recorded, RecordedOfStudy
<1>4. /\ slots'[<<"registry", s>>] = "create" /\ slots'[<<"key", s>>] = "create" /\ slots'[<<"receipt", s>>] = Absent
      /\ slots'[<<"score", s>>] = Absent
  BY <1>2, <1>3, SlotsAre DEF StudyKinds, There
<1>5. RecordedOfStudy(s)'
  BY <1>4 DEF RecordedOfStudy, There, Known, StudyKinds, Absent
<1>6. ASSUME NEW r, NEW full, SeenOfStudy(r, full, s) PROVE SeenOfStudy(r, full, s)'
  <2>1. \A kind \in StudyKinds : r[<<kind, s>>] = Absent
    BY <1>3, <1>6 DEF SeenOfStudy
  <2> QED BY <2>1 DEF SeenOfStudy, StudyKinds, Absent
<1> QED BY <1>2, <1>5, <1>6, StudyStepKeeps

\* A removal is begun of a study that is there.
LEMMA BeginRemovalKeeps == ASSUME Recorded, NEW s \in Owned, BeginRemoval(s) PROVE Keeps
<1> DEFINE kinds == {"registry", "lock"}
<1>1. slots' = Put(kinds, s, "delete") /\ There("owner", s) /\ There("reverse", 0) /\ ~There("registry", s)
  BY DEF BeginRemoval, MayBegin
<1>2. slots' \in [Slots -> Values] /\ \A k \in Slots : slots'[k] = IF k[1] \in kinds /\ k[2] = s THEN "delete" ELSE slots[k]
  BY <1>1, PutIs DEF Recorded, RecordedOfAccount, Values
<1>3. slots'[<<"registry", s>>] = "delete" /\ slots'[<<"reverse", 0>>] = slots[<<"reverse", 0>>]
      /\ \A kind \in StudyKinds : kind \notin kinds => slots'[<<kind, s>>] = slots[<<kind, s>>]
  BY <1>2, SlotsAre DEF StudyKinds, AccountKinds
<1>4. RecordedOfStudy(s) /\ Known(s)
  BY <1>1 DEF Recorded, RecordedOfStudy, StudyKinds
<1>5. Known(s)' /\ There("owner", s)'
  BY <1>1, <1>3, <1>4 DEF Known, There, StudyKinds
<1>6. RecordedOfStudy(s)'
  BY <1>1, <1>3, <1>4, <1>5 DEF RecordedOfStudy, There, StudyKinds
<1>7. ASSUME NEW r, NEW full, SeenOfStudy(r, full, s) PROVE SeenOfStudy(r, full, s)'
  BY <1>1, <1>3, <1>5, <1>7 DEF SeenOfStudy, There, StudyKinds
<1> QED BY <1>2, <1>6, <1>7, StudyStepKeeps

\* A creation that is resolved leaves "create" behind.
LEMMA ResolveCreationKeeps == ASSUME Recorded, NEW s \in Owned, ResolveCreation(s) PROVE Keeps
<1>1. slots' = [Put({"listed"}, s, "create") EXCEPT ![<<"registry", s>>] = "created"] /\ slots[<<"registry", s>>] = "create"
  BY DEF ResolveCreation
<1>2. slots' \in [Slots -> Values] /\ \A k \in Slots : slots'[k] = IF k = <<"registry", s>> THEN "created"
                                                               ELSE IF k = <<"listed", s>> THEN "create" ELSE slots[k]
  BY <1>1, PutIs, SlotsAre DEF Recorded, RecordedOfAccount, Values, StudyKinds
<1>3. slots'[<<"registry", s>>] = "created" /\ slots'[<<"reverse", 0>>] = slots[<<"reverse", 0>>]
      /\ \A kind \in StudyKinds : kind \notin {"registry", "listed"} => slots'[<<kind, s>>] = slots[<<kind, s>>]
  BY <1>2, SlotsAre DEF StudyKinds, AccountKinds
<1>4. RecordedOfStudy(s) /\ Known(s)
  BY <1>1 DEF Recorded, RecordedOfStudy, StudyKinds, There, Absent
<1>5. Known(s)'
  BY <1>3, <1>4 DEF Known, There, StudyKinds
<1>6. RecordedOfStudy(s)'
  BY <1>1, <1>3, <1>4, <1>5 DEF RecordedOfStudy, There, StudyKinds
<1>7. ASSUME NEW r, NEW full, SeenOfStudy(r, full, s) PROVE SeenOfStudy(r, full, s)'
  BY <1>1, <1>3, <1>5, <1>7 DEF SeenOfStudy, There, StudyKinds
<1> QED BY <1>2, <1>6, <1>7, StudyStepKeeps

\* A removal that is resolved leaves no owner, and its creation key deleted or gone.
LEMMA ResolveRemovalKeeps == ASSUME Recorded, NEW s \in Owned, ResolveRemoval(s) PROVE Keeps
<1> DEFINE key == IF slots[<<"key", s>>] = Absent THEN Absent ELSE "delete"
<1>1. slots' = [Put({"owner", "listed"}, s, Absent) EXCEPT ![<<"registry", s>>] = "deleted",
                  ![<<"key", s>>] = IF @ = Absent THEN Absent ELSE "delete"] /\ slots[<<"registry", s>>] = "delete"
  BY DEF ResolveRemoval
<1>2. slots' \in [Slots -> Values] /\ \A k \in Slots : slots'[k] = IF k = <<"registry", s>> THEN "deleted"
                                                               ELSE IF k = <<"key", s>> THEN key
                                                               ELSE IF k \in {<<"owner", s>>, <<"listed", s>>} THEN Absent ELSE slots[k]
  <2>1. Absent \in Values /\ "deleted" \in Values /\ "delete" \in Values /\ slots \in [Slots -> Values]
    BY DEF Values, Recorded, RecordedOfAccount
  <2>2. \A k \in Slots : Put({"owner", "listed"}, s, Absent)[k] = IF k \in {<<"owner", s>>, <<"listed", s>>} THEN Absent ELSE slots[k]
    BY <2>1, PutIs, SlotsAre
  <2>3. Put({"owner", "listed"}, s, Absent)[<<"key", s>>] = slots[<<"key", s>>]
    BY <2>2, SlotsAre DEF StudyKinds
  <2>4. slots' = [Put({"owner", "listed"}, s, Absent) EXCEPT ![<<"registry", s>>] = "deleted", ![<<"key", s>>] = key]
    BY <1>1, <2>1, <2>3, PutIs, SlotsAre DEF StudyKinds
  <2>5. key \in Values
    BY <2>1
  <2>6. Put({"owner", "listed"}, s, Absent) \in [Slots -> Values]
    BY <2>1, PutIs
  <2>7. <<"registry", s>> \in Slots /\ <<"key", s>> \in Slots
    BY SlotsAre DEF StudyKinds
  <2> HIDE DEF key
  <2> QED BY <2>1, <2>2, <2>4, <2>5, <2>6, <2>7
<1>3. /\ slots'[<<"registry", s>>] = "deleted" /\ slots'[<<"reverse", 0>>] = slots[<<"reverse", 0>>]
      /\ slots'[<<"key", s>>] = key /\ slots'[<<"owner", s>>] = Absent
      /\ \A kind \in StudyKinds : kind \notin {"registry", "key", "owner", "listed"} => slots'[<<kind, s>>] = slots[<<kind, s>>]
  BY <1>2, SlotsAre DEF StudyKinds, AccountKinds
<1>4. RecordedOfStudy(s) /\ Known(s)
  BY <1>1 DEF Recorded, RecordedOfStudy, StudyKinds, There, Absent
<1>5. Known(s)'
  BY <1>3, <1>4 DEF Known, There, StudyKinds, Absent
<1>6. RecordedOfStudy(s)'
  BY <1>1, <1>3, <1>4, <1>5 DEF RecordedOfStudy, There, StudyKinds
<1>7. ASSUME NEW r, NEW full, SeenOfStudy(r, full, s) PROVE SeenOfStudy(r, full, s)'
  BY <1>1, <1>3, <1>5, <1>7 DEF SeenOfStudy, There, StudyKinds
<1> QED BY <1>2, <1>6, <1>7, StudyStepKeeps

\* A publication leaves the registry behind, and its receipt says which.
LEMMA PublishStudyKeeps == ASSUME Recorded, NEW s \in Owned, PublishStudy(s) PROVE Keeps
<1> DEFINE v == slots[<<"registry", s>>]
<1>1. slots' = [Put({"receipt", "score"}, s, v) EXCEPT ![<<"registry", s>>] = Absent, ![<<"lock", s>>] = Absent]
      /\ v \in {"created", "deleted"}
  BY DEF PublishStudy
<1> HIDE DEF v
<1>2. slots' \in [Slots -> Values] /\ \A k \in Slots : slots'[k] = IF k \in {<<"registry", s>>, <<"lock", s>>} THEN Absent
                                                               ELSE IF k \in {<<"receipt", s>>, <<"score", s>>} THEN v ELSE slots[k]
  <2>1. v \in Values /\ Absent \in Values /\ slots \in [Slots -> Values]
    BY <1>1 DEF Values, Recorded, RecordedOfAccount
  <2>2. /\ Put({"receipt", "score"}, s, v) \in [Slots -> Values]
        /\ \A k \in Slots : Put({"receipt", "score"}, s, v)[k] = IF k \in {<<"receipt", s>>, <<"score", s>>} THEN v ELSE slots[k]
    BY <2>1, PutIs, SlotsAre
  <2> QED BY <1>1, <2>1, <2>2, SlotsAre DEF StudyKinds
<1>3. /\ slots'[<<"registry", s>>] = Absent /\ slots'[<<"reverse", 0>>] = slots[<<"reverse", 0>>]
      /\ slots'[<<"receipt", s>>] = v /\ slots'[<<"score", s>>] = v
      /\ slots'[<<"key", s>>] = slots[<<"key", s>>] /\ slots'[<<"owner", s>>] = slots[<<"owner", s>>]
  BY <1>2, SlotsAre DEF StudyKinds, AccountKinds
<1>4. RecordedOfStudy(s) /\ Known(s)
  BY <1>1 DEF Recorded, RecordedOfStudy, StudyKinds, There, Absent, v
<1>5. Known(s)'
  BY <1>3, <1>4 DEF Known, There
<1>6. v = "deleted" => ~There("owner", s)'
  BY <1>3, <1>4 DEF RecordedOfStudy, There, v
<1>7. RecordedOfStudy(s)'
  BY <1>1, <1>3, <1>5, <1>6 DEF RecordedOfStudy, Absent
<1>8. ASSUME NEW r, NEW full, SeenOfStudy(r, full, s) PROVE SeenOfStudy(r, full, s)'
  BY <1>3, <1>5, <1>8 DEF SeenOfStudy, There, Absent
<1> QED BY <1>2, <1>7, <1>8, StudyStepKeeps

\* Deleting a record, not a creation key before the account's index.
LEMMA DeletionKeeps ==
  ASSUME Recorded, NEW k \in Slots, slots' = [slots EXCEPT ![k] = Absent], k[1] = "key" => ~There("reverse", 0)
  PROVE  Keeps
<1>1. slots' \in [Slots -> Values] /\ \A j \in Slots : slots'[j] = IF j = k THEN Absent ELSE slots[j]
  BY DEF Recorded, RecordedOfAccount, Values
<1>2. \A j \in Slots : slots'[j] \in {Absent, slots[j]}
  BY <1>1
<1>3. /\ \A kind \in StudyKinds, s \in Owned : slots'[<<kind, s>>] \in {Absent, slots[<<kind, s>>]}
      /\ \A kind \in AccountKinds : slots'[<<kind, 0>>] \in {Absent, slots[<<kind, 0>>]}
  BY <1>2, SlotsAre
<1>4. RecordedOfAccount' /\ \A r : SeenOfAccount(r) => SeenOfAccount(r)'
  BY <1>1, <1>3 DEF Recorded, RecordedOfAccount, SeenOfAccount, AccountKinds, Absent
<1>5. ASSUME NEW s \in Owned, Known(s) PROVE Known(s)'
  <2>1. <<"key", s>> \in Slots /\ <<"reverse", 0>> \in Slots
    BY SlotsAre DEF StudyKinds, AccountKinds
  <2> QED BY <1>1, <1>5, <2>1 DEF Known, There
<1>6. ASSUME NEW s \in Owned PROVE RecordedOfStudy(s)' /\ \A r, full : SeenOfStudy(r, full, s) => SeenOfStudy(r, full, s)'
  <2>1. RecordedOfStudy(s)'
    <3>1. /\ slots'[<<"registry", s>>] \in {Absent, slots[<<"registry", s>>]} /\ slots'[<<"owner", s>>] \in {Absent, slots[<<"owner", s>>]}
          /\ slots'[<<"receipt", s>>] \in {Absent, slots[<<"receipt", s>>]} /\ slots'[<<"score", s>>] \in {Absent, slots[<<"score", s>>]}
      BY <1>3 DEF StudyKinds
    <3>2. RecordedOfStudy(s)
      BY DEF Recorded
    <3>3. \A kind \in StudyKinds : There(kind, s)' => Known(s)'
      BY <1>3, <1>5, <3>2 DEF RecordedOfStudy, There
    <3>4. ASSUME NEW kind \in {"receipt", "score"}
          PROVE  /\ (slots'[<<kind, s>>] = "created" => slots'[<<"registry", s>>] \notin {"create", "created"})
                 /\ (slots'[<<kind, s>>] = "deleted" => ~There("owner", s)' /\ slots'[<<"registry", s>>] \notin {"delete", "deleted"})
      BY <3>1, <3>2 DEF RecordedOfStudy, There, Absent
    <3>5. slots'[<<"registry", s>>] = "deleted" => ~There("owner", s)'
      BY <3>1, <3>2 DEF RecordedOfStudy, There, Absent
    <3> QED BY <3>3, <3>4, <3>5 DEF RecordedOfStudy
  <2>2. ASSUME NEW r, NEW full, SeenOfStudy(r, full, s) PROVE SeenOfStudy(r, full, s)'
    BY <1>3, <1>5, <2>2 DEF SeenOfStudy, There, StudyKinds, Absent
  <2> QED BY <2>1, <2>2
<1>7. Recorded'
  BY <1>4, <1>6 DEF Recorded
<1>8. ASSUME NEW r, NEW full, Seen(r, full) PROVE Seen(r, full)'
  BY <1>4, <1>6, <1>8 DEF Seen
<1> QED BY <1>7, <1>8 DEF Keeps

\* Signing in, and a journal, touch none of what was seen.
LEMMA ElsewhereKeeps ==
  ASSUME Recorded, slots' \in [Slots -> Values],
         \A k \in Slots : k[1] \notin {"oauth", "email", "successor", "journal"} => slots'[k] = slots[k]
  PROVE  Keeps
<1>1. /\ \A kind \in StudyKinds, s \in Owned : slots'[<<kind, s>>] = slots[<<kind, s>>]
      /\ \A kind \in {"storage", "account", "reverse"} : slots'[<<kind, 0>>] = slots[<<kind, 0>>]
  BY SlotsAre DEF StudyKinds, AccountKinds
<1>2. There("reverse", 0)' = There("reverse", 0)
  BY <1>1 DEF There
<1>3. RecordedOfAccount' /\ \A r : SeenOfAccount(r) => SeenOfAccount(r)'
  BY <1>1, AccountStays DEF Recorded
<1>4. Recorded'
  BY <1>1, <1>2, <1>3, StudyStays DEF Recorded
<1>5. ASSUME NEW r, NEW full, Seen(r, full) PROVE Seen(r, full)'
  BY <1>1, <1>2, <1>3, <1>5, StudyStays DEF Seen
<1> QED BY <1>4, <1>5 DEF Keeps

\* Once rotated, the account is not what it was first.
LEMMA RotateKeeps == ASSUME Recorded, RotateCredentials PROVE Keeps
<1>1. slots' = Put({"account", "storage"}, 0, "rotated")
  BY DEF RotateCredentials
<1>2. slots' \in [Slots -> Values] /\ \A k \in Slots : slots'[k] = IF k[1] \in {"account", "storage"} /\ k[2] = 0 THEN "rotated" ELSE slots[k]
  BY <1>1, PutIs DEF Recorded, RecordedOfAccount, Values
<1>3. /\ \A kind \in StudyKinds, s \in Owned : slots'[<<kind, s>>] = slots[<<kind, s>>]
      /\ slots'[<<"account", 0>>] = "rotated" /\ slots'[<<"reverse", 0>>] = slots[<<"reverse", 0>>]
  BY <1>2, SlotsAre DEF StudyKinds, AccountKinds
<1>4. There("reverse", 0)' = There("reverse", 0)
  BY <1>3 DEF There
<1>5. RecordedOfAccount' /\ \A r : SeenOfAccount(r) => SeenOfAccount(r)'
  BY <1>2, <1>3 DEF Recorded, RecordedOfAccount, SeenOfAccount
<1>6. Recorded'
  BY <1>3, <1>4, <1>5, StudyStays DEF Recorded
<1>7. ASSUME NEW r, NEW full, Seen(r, full) PROVE Seen(r, full)'
  BY <1>3, <1>4, <1>5, <1>7, StudyStays DEF Seen
<1> QED BY <1>6, <1>7 DEF Keeps

-----------------------------------------------------------------------------
(* The invariant is kept.                                                  *)

\* Nothing was read by a request that has not begun.
LEMMA IdleReads ==
  /\ Idle \in Workers /\ (Recorded => Reading(Idle))
<1>1. Idle = [does |-> "idle", read |-> [k \in Slots |-> Absent], at |-> 0, slot |-> Journal]
  BY DEF Idle, Reader
<1>2. [k \in Slots |-> Absent] \in [Slots -> Values]
  BY DEF Values
<1>3. Idle \in Workers
  BY <1>1, <1>2, SlotsAre DEF Workers
<1>4. ASSUME NEW r, r = [k \in Slots |-> Absent] PROVE Seen(r, FALSE)
  <2>1. SeenOfAccount(r)
    BY <1>2, <1>4, SlotsAre DEF SeenOfAccount, AccountKinds, Absent
  <2>2. \A s \in Owned : SeenOfStudy(r, FALSE, s)
    BY <1>4, SlotsAre DEF SeenOfStudy, StudyKinds, Absent
  <2> QED BY <2>1, <2>2 DEF Seen
<1>5. Idle.read = [k \in Slots |-> Absent] /\ Idle.does = "idle"
  BY <1>1
<1>6. Seen(Idle.read, Idle.does = "persist")
  <2>1. (Idle.does = "persist") = FALSE
    BY <1>5
  <2>2. Seen(Idle.read, FALSE)
    BY <1>4, <1>5
  <2> QED BY <2>1, <2>2
<1> QED BY <1>3, <1>5, <1>6 DEF Reading

\* A request that will send the plan's next command has read nothing, either.
LEMMA ApplyingReads ==
  ASSUME NEW plan, NEW c \in Nat, Len(plan) \in Nat, c < Len(plan) => plan[c + 1][1] \in Slots
  PROVE  Applying(plan, c) \in Workers /\ (Recorded => Reading(Applying(plan, c)))
<1>1. CASE c < Len(plan)
  <2>1. Applying(plan, c) = [Idle EXCEPT !.does = "apply", !.at = c, !.slot = plan[c + 1][1]]
    BY <1>1 DEF Applying
  <2> DEFINE w == Applying(plan, c)
  <2>2. w \in Workers /\ w.read = Idle.read /\ w.does = "apply" /\ Idle.does = "idle"
    BY <1>1, <2>1, IdleReads DEF Workers, Idle, Reader
  <2> HIDE DEF w
  <2>3. (w.does = "persist") = FALSE /\ (Idle.does = "persist") = FALSE
    BY <2>2
  <2>4. Reading(Idle) => Seen(w.read, FALSE)
    BY <2>2, <2>3 DEF Reading
  <2>5. Reading(Idle) => Reading(w)
    BY <2>2, <2>3, <2>4 DEF Reading
  <2> QED BY <2>2, <2>5, IdleReads DEF w
<1>2. CASE ~(c < Len(plan))
  BY <1>2, IdleReads DEF Applying
<1> QED BY <1>1, <1>2

\* The plan that is persisted.
LEMMA PlannedIs ==
  ASSUME Planning, planned # <<>>
  PROVE  /\ Len(planned) \in Nat /\ Len(planned) > 1 /\ planned[1][1] = <<"reverse", 0>>
         /\ planned[Len(planned)] = <<Journal, "open">>
         /\ \A n \in 1..Len(planned) - 1 : /\ planned[n][1] \in Rows /\ planned[n][2] = gathered[planned[n][1]]
                                          /\ planned[n][2] # Absent
         /\ \A k \in Rows : gathered[k] # Absent /\ (k[1] \in WithListed => gathered[<<"listed", k[2]>>] # Absent) =>
              \E n \in 1..Len(planned) - 1 : planned[n][1] = k
         /\ \A s \in Owned : gathered[<<"registry", s>>] # Absent /\ gathered[<<"listed", s>>] # Absent =>
              \A n \in 1..Len(planned) - 1 : planned[n][1] = <<"listed", s>> =>
                \E m \in 1..n - 1 : planned[m][1] = <<"registry", s>>
<1> DEFINE g == gathered
           p == planned
<1>1. p = Plan(g) /\ g[<<"reverse", 0>>] # Absent
  BY DEF Planning
<1>2. \A k \in Rows : k \in Slots
  BY DEF Rows, Slots
<1>3. \A k \in Rows : g[k] # Absent /\ (k[1] \in WithListed => g[<<"listed", k[2]>>] # Absent) =>
        /\ \E t \in TurnsOf(g) : SlotAt(t) = k
        /\ (k = <<"reverse", 0>> => <<1, 0, 1>> \in TurnsOf(g))
        /\ (k[1] = "registry" => <<2, k[2], 4>> \in TurnsOf(g))
  BY TurnOfRecord
<1>4. <<1, 0, 1>> \in TurnsOf(g)
  <2>1. <<"reverse", 0>> \in Rows
    BY SlotsAre DEF Rows, AccountKinds
  <2> QED BY <1>1, <1>3, <2>1 DEF WithListed
<1>5. \A s \in Owned : g[<<"registry", s>>] # Absent /\ g[<<"listed", s>>] # Absent => <<2, s, 4>> \in TurnsOf(g)
  <2>1. \A s \in Owned : <<"registry", s>> \in Rows
    BY SlotsAre DEF Rows, StudyKinds
  <2> QED BY <1>3, <2>1
<1> HIDE DEF g, p
<1>6. /\ Len(p) \in Nat \ {0} /\ p[Len(p)] = <<Journal, "open">>
      /\ \A n \in 1..Len(p) - 1 : p[n][1] \in Rows /\ p[n][2] = g[p[n][1]] /\ p[n][2] # Absent
      /\ \A t \in TurnsOf(g) : \E n \in 1..Len(p) - 1 : p[n][1] = SlotAt(t)
      /\ (<<1, 0, 1>> \in TurnsOf(g) => p[1][1] = <<"reverse", 0>> /\ Len(p) > 1)
      /\ \A s \in Owned : <<2, s, 4>> \in TurnsOf(g) =>
           \A n \in 1..Len(p) - 1 : p[n][1] = <<"listed", s>> => \E m \in 1..n - 1 : p[m][1] = <<"registry", s>>
  BY <1>1, PlanHas
<1>7. \A k \in Rows : g[k] # Absent /\ (k[1] \in WithListed => g[<<"listed", k[2]>>] # Absent) =>
         \E n \in 1..Len(p) - 1 : p[n][1] = k
  BY <1>3, <1>6
<1> QED BY <1>4, <1>5, <1>6, <1>7 DEF g, p

\* The account's place in its storage's index goes first.
LEMMA ReverseGoesFirst ==
  ASSUME DInv, planned # <<>>, cursor >= 1
  PROVE  ~There("reverse", 0)
<1>1. Len(planned) \in Nat /\ Len(planned) > 1 /\ planned[1][1] = <<"reverse", 0>>
      /\ planned[1][2] = gathered[<<"reverse", 0>>] /\ planned[1][2] # Absent
  <2>1. Planning
    BY DEF DInv
  <2>2. Len(planned) \in Nat /\ Len(planned) > 1 /\ planned[1][1] = <<"reverse", 0>> /\ 1 \in 1..Len(planned) - 1
    BY <2>1, PlannedIs
  <2> QED BY <2>1, <2>2, PlannedIs
<1>2. slots[<<"reverse", 0>>] # planned[1][2]
  BY <1>1 DEF DInv, Planning
<1>3. planned[1][2] = "first"
  BY <1>1 DEF DInv, Planning, Seen, SeenOfAccount
<1> QED BY <1>2, <1>3 DEF DInv, Recorded, RecordedOfAccount, There

\* Nothing begins on a study once a plan was persisted.
LEMMA NothingBegins == ASSUME DInv, planned # <<>>, NEW s PROVE ~MayBegin(s)
<1>1. ~There("journal", 0) => cursor >= 1
  <2>1. Planning /\ cursor \in Nat
    BY DEF DInv, Planning
  <2>2. Len(planned) \in Nat /\ Len(planned) > 1
    BY <2>1, PlannedIs
  <2> QED BY <2>1, <2>2 DEF Planning
<1> QED BY <1>1, ReverseGoesFirst DEF MayBegin

\* What a plan has deleted does not come back, while its study is not resolved.
Steady ==
  \A k \in Rows : gathered[k] # Absent /\ slots[k] # gathered[k]
                   /\ (k[1] = "listed" => slots[<<"registry", k[2]>>] # "create") => slots'[k] # gathered[k]

\* What keeps what was seen and what the plan has deleted keeps the invariant: a study's place in its list
\* comes back at the end of a creation only, which the plan has then ended, having deleted its registry record before.
LEMMA OthersKeep ==
  ASSUME DInv, Keeps, UNCHANGED <<planned, cursor, worker, gathered>>, slots'[Journal] = slots[Journal],
         Spared', Untouched', planned # <<>> => Steady
  PROVE  DInv'
<1>1. Recorded' /\ \A r, full : Seen(r, full) => Seen(r, full)'
  BY DEF Keeps
<1>2. \A d \in Deleter : Reading(worker[d]) => Reading(worker[d])'
  BY <1>1 DEF Reading
<1>3. Readers'
  BY <1>2 DEF DInv, Readers
<1>4. There("journal", 0)' = There("journal", 0)
  BY DEF There, Journal
<1>5. ASSUME planned # <<>>, NEW n \in 1..Len(planned) - 1, n <= cursor PROVE slots'[planned[n][1]] # planned[n][2]
  <2> DEFINE k == planned[n][1]
  <2>1. Planning /\ cursor \in Nat
    BY DEF DInv, Planning
  <2>2. k \in Rows /\ planned[n][2] = gathered[k] /\ gathered[k] # Absent /\ slots[k] # gathered[k] /\ Len(planned) \in Nat
    BY <1>5, <2>1, PlannedIs DEF Planning
  <2>3. ASSUME k[1] = "listed", slots[<<"registry", k[2]>>] = "create" PROVE FALSE
    <3>1. k[2] \in Owned /\ k = <<"listed", k[2]>>
      BY <2>2, <2>3 DEF Rows, OfAccount, OfStudies
    <3>2. gathered[<<"registry", k[2]>>] = "create"
      BY <1>5, <2>2, <2>3, <3>1 DEF DInv, Planning, Seen, SeenOfStudy
    <3>3. PICK m \in 1..n - 1 : planned[m][1] = <<"registry", k[2]>>
      <4>1. gathered[<<"registry", k[2]>>] # Absent /\ gathered[<<"listed", k[2]>>] # Absent
        BY <2>2, <3>1, <3>2 DEF Absent
      <4> QED BY <1>5, <2>1, <3>1, <4>1, PlannedIs
    <3>4. m \in 1..Len(planned) - 1 /\ m <= cursor
      BY <1>5, <2>1, <2>2
    <3>5. slots[planned[m][1]] # planned[m][2] /\ planned[m][2] = gathered[planned[m][1]]
      BY <1>5, <2>1, <3>4, PlannedIs DEF Planning
    <3> QED BY <2>3, <3>2, <3>3, <3>5
  <2> QED BY <1>5, <2>2, <2>3 DEF Steady
<1>6. Planning'
  BY <1>1, <1>4, <1>5 DEF DInv, Planning
<1> QED BY <1>1, <1>3, <1>6 DEF DInv

\* A sign-in finds both identities free, which the plan had left it.
LEMMA SignInKeeps == ASSUME DInv, SignIn PROVE DInv'
<1>1. /\ slots' = Put({"oauth", "email", "successor"}, 0, "second") /\ ~There("oauth", 0)
      /\ UNCHANGED <<planned, cursor, worker, gathered>>
  BY DEF SignIn
<1>2. /\ slots' \in [Slots -> Values]
      /\ \A k \in Slots : slots'[k] = IF k[1] \in {"oauth", "email", "successor"} /\ k[2] = 0 THEN "second" ELSE slots[k]
  BY <1>1, PutIs DEF DInv, Recorded, RecordedOfAccount, Values
<1>3. Keeps
  BY <1>2, ElsewhereKeeps DEF DInv
<1>4. Spared' /\ slots'[Journal] = slots[Journal]
  BY <1>2, SlotsAre DEF Spared, AccountKinds, Journal
<1>5. planned # <<>>
  BY <1>1 DEF DInv, Untouched, There, Absent
<1>6. Steady
  <2> SUFFICES ASSUME NEW k \in Rows, slots[k] # gathered[k] PROVE slots'[k] # gathered[k]
    BY DEF Steady
  <2>1. k \in Slots /\ k = <<k[1], k[2]>> /\ k[1] # "successor"
    BY DEF Rows, OfAccount, OfStudies, Slots
  <2>2. CASE k \in {<<"oauth", 0>>, <<"email", 0>>}
    <3>1. gathered[k] \in {Absent, "first"}
      BY <1>5, <2>2 DEF DInv, Planning, Seen, SeenOfAccount
    <3>2. slots'[k] = "second"
      BY <1>2, <2>1, <2>2
    <3> QED BY <3>1, <3>2 DEF Absent
  <2>3. CASE k \notin {<<"oauth", 0>>, <<"email", 0>>}
    BY <1>2, <2>1, <2>3
  <2> QED BY <2>2, <2>3
<1>7. Untouched'
  BY <1>1, <1>5 DEF Untouched
<1> QED BY <1>1, <1>3, <1>4, <1>6, <1>7, OthersKeep

\* A rotation makes of the account's records something else than was planned.
LEMMA RotatingKeeps == ASSUME DInv, RotateCredentials PROVE DInv'
<1>1. slots' = Put({"account", "storage"}, 0, "rotated") /\ slots[<<"account", 0>>] = "first"
      /\ UNCHANGED <<planned, cursor, worker, gathered>>
  BY DEF RotateCredentials
<1>2. \A k \in Slots : slots'[k] = IF k[1] \in {"account", "storage"} /\ k[2] = 0 THEN "rotated" ELSE slots[k]
  BY <1>1, PutIs DEF DInv, Recorded, RecordedOfAccount, Values
<1>3. Keeps
  BY RotateKeeps DEF DInv
<1>4. /\ \A kind \in {"oauth", "email", "reverse"} : slots'[<<kind, 0>>] = slots[<<kind, 0>>]
      /\ slots'[<<"successor", 0>>] = slots[<<"successor", 0>>] /\ slots'[Journal] = slots[Journal]
  BY <1>2, SlotsAre DEF AccountKinds, Journal
<1>5. Spared' /\ Untouched'
  BY <1>1, <1>4 DEF DInv, Spared, Untouched, There
<1>6. ASSUME planned # <<>> PROVE Steady
  <2> SUFFICES ASSUME NEW k \in Rows, slots[k] # gathered[k] PROVE slots'[k] # gathered[k]
    BY DEF Steady
  <2>1. k \in Slots /\ k = <<k[1], k[2]>>
    BY SlotsAre DEF Rows, Slots
  <2>2. gathered[<<"storage", 0>>] # "rotated" /\ gathered[<<"account", 0>>] # "rotated"
    BY <1>1, <1>6 DEF DInv, Planning, Seen, SeenOfAccount
  <2> QED BY <1>2, <2>1, <2>2
<1> QED BY <1>1, <1>3, <1>4, <1>5, <1>6, OthersKeep

\* A step on a study's records, of those that may come after a plan.
LEMMA StudyKeeps ==
  ASSUME DInv, NEW s \in Owned, Keeps, UNCHANGED <<planned, cursor, worker, gathered>>,
         \A k \in Slots : k[2] # s => slots'[k] = slots[k], planned # <<>> => Steady
  PROVE  DInv'
<1>1. /\ \A kind \in {"oauth", "email", "reverse"} : slots'[<<kind, 0>>] = slots[<<kind, 0>>]
      /\ slots'[<<"successor", 0>>] = slots[<<"successor", 0>>] /\ slots'[Journal] = slots[Journal]
  BY SlotsAre DEF AccountKinds, Journal
<1>2. Spared' /\ Untouched'
  BY <1>1 DEF DInv, Spared, Untouched, There
<1> QED BY <1>1, <1>2, OthersKeep

\* Nothing is begun after a plan, and before it nothing is planned.
LEMMA BeginningKeeps == ASSUME DInv, NEW s \in Owned, BeginCreation(s) \/ BeginRemoval(s) PROVE DInv'
<1>1. planned = <<>>
  BY NothingBegins DEF BeginCreation, BeginRemoval
<1>2. Keeps
  BY BeginCreationKeeps, BeginRemovalKeeps DEF DInv
<1>3. slots \in [Slots -> Values] /\ UNCHANGED <<planned, cursor, worker, gathered>>
  BY DEF DInv, Recorded, RecordedOfAccount, BeginCreation, BeginRemoval
<1>4. \A k \in Slots : k[2] # s => slots'[k] = slots[k]
  <2>1. "create" \in Values /\ "delete" \in Values
    BY DEF Values
  <2> QED BY <1>3, <2>1, PutIs DEF BeginCreation, BeginRemoval
<1> QED BY <1>1, <1>2, <1>3, <1>4, StudyKeeps

\* A step on a study that leaves the values seen behind leaves those planned behind.
LEMMA ResolvingKeeps == ASSUME DInv, NEW s \in Owned, ResolveCreation(s) PROVE DInv'
<1>1. slots' = [Put({"listed"}, s, "create") EXCEPT ![<<"registry", s>>] = "created"] /\ slots[<<"registry", s>>] = "create"
      /\ UNCHANGED <<planned, cursor, worker, gathered>>
  BY DEF ResolveCreation
<1>2. \A k \in Slots : slots'[k] = IF k = <<"registry", s>> THEN "created"
                                 ELSE IF k = <<"listed", s>> THEN "create" ELSE slots[k]
  BY <1>1, PutIs, SlotsAre DEF DInv, Recorded, RecordedOfAccount, Values, StudyKinds
<1>3. Keeps
  BY ResolveCreationKeeps DEF DInv
<1>4. \A k \in Slots : k[2] # s => slots'[k] = slots[k]
  BY <1>2
<1>5. ASSUME planned # <<>> PROVE Steady
  <2> SUFFICES ASSUME NEW k \in Rows, gathered[k] # Absent, slots[k] # gathered[k],
                      k[1] = "listed" => slots[<<"registry", k[2]>>] # "create"
               PROVE  slots'[k] # gathered[k]
    BY DEF Steady
  <2>1. k \in Slots
    BY SlotsAre DEF Rows
  <2>2. gathered[<<"registry", s>>] # "created"
    BY <1>1, <1>5 DEF DInv, Planning, Seen, SeenOfStudy
  <2>3. k # <<"listed", s>>
    BY <1>1
  <2> QED BY <1>2, <2>1, <2>2, <2>3
<1> QED BY <1>1, <1>3, <1>4, <1>5, StudyKeeps

\* A removal that is resolved later deletes more, and changes a creation key to what no plan expects.
LEMMA RemovingKeeps == ASSUME DInv, NEW s \in Owned, ResolveRemoval(s) PROVE DInv'
<1> DEFINE key == IF slots[<<"key", s>>] = Absent THEN Absent ELSE "delete"
<1>1. slots' = [Put({"owner", "listed"}, s, Absent) EXCEPT ![<<"registry", s>>] = "deleted",
                  ![<<"key", s>>] = IF @ = Absent THEN Absent ELSE "delete"] /\ slots[<<"registry", s>>] = "delete"
      /\ UNCHANGED <<planned, cursor, worker, gathered>>
  BY DEF ResolveRemoval
<1>2. \A k \in Slots : slots'[k] = IF k = <<"registry", s>> THEN "deleted"
                                 ELSE IF k = <<"key", s>> THEN key
                                 ELSE IF k \in {<<"owner", s>>, <<"listed", s>>} THEN Absent ELSE slots[k]
  <2>1. Absent \in Values /\ slots \in [Slots -> Values]
    BY DEF Values, DInv, Recorded, RecordedOfAccount
  <2>2. /\ Put({"owner", "listed"}, s, Absent) \in [Slots -> Values]
        /\ \A k \in Slots : Put({"owner", "listed"}, s, Absent)[k] = IF k \in {<<"owner", s>>, <<"listed", s>>} THEN Absent ELSE slots[k]
    BY <2>1, PutIs, SlotsAre
  <2>3. Put({"owner", "listed"}, s, Absent)[<<"key", s>>] = slots[<<"key", s>>]
    BY <2>2, SlotsAre DEF StudyKinds
  <2>4. slots' = [Put({"owner", "listed"}, s, Absent) EXCEPT ![<<"registry", s>>] = "deleted", ![<<"key", s>>] = key]
    BY <1>1, <2>2, <2>3, SlotsAre DEF StudyKinds
  <2> HIDE DEF key
  <2> QED BY <2>2, <2>4, SlotsAre DEF StudyKinds
<1>3. Keeps
  BY ResolveRemovalKeeps DEF DInv
<1>4. \A k \in Slots : k[2] # s => slots'[k] = slots[k]
  BY <1>2
<1>5. ASSUME planned # <<>> PROVE Steady
  <2> SUFFICES ASSUME NEW k \in Rows, gathered[k] # Absent, slots[k] # gathered[k] PROVE slots'[k] # gathered[k]
    BY DEF Steady
  <2>1. k \in Slots
    BY SlotsAre DEF Rows
  <2>2. SeenOfStudy(gathered, TRUE, s)
    BY <1>5 DEF DInv, Planning, Seen
  <2>3. gathered[<<"registry", s>>] # "deleted"
    BY <1>1, <2>2 DEF SeenOfStudy
  <2>4. k = <<"key", s>> => key # gathered[k]
    BY <2>2 DEF SeenOfStudy, Absent
  <2> HIDE DEF key
  <2> QED BY <1>2, <2>1, <2>3, <2>4
<1> QED BY <1>1, <1>3, <1>4, <1>5, StudyKeeps

\* A publication writes a receipt that no plan that is persisted has seen.
LEMMA PublishingKeeps == ASSUME DInv, NEW s \in Owned, PublishStudy(s) PROVE DInv'
<1> DEFINE v == slots[<<"registry", s>>]
<1>1. slots' = [Put({"receipt", "score"}, s, v) EXCEPT ![<<"registry", s>>] = Absent, ![<<"lock", s>>] = Absent]
      /\ v \in {"created", "deleted"} /\ UNCHANGED <<planned, cursor, worker, gathered>>
  BY DEF PublishStudy
<1>2. \A k \in Slots : slots'[k] = IF k \in {<<"registry", s>>, <<"lock", s>>} THEN Absent
                                 ELSE IF k \in {<<"receipt", s>>, <<"score", s>>} THEN v ELSE slots[k]
  <2>1. v \in Values /\ slots \in [Slots -> Values]
    BY <1>1 DEF Values, DInv, Recorded, RecordedOfAccount
  <2> HIDE DEF v
  <2>2. /\ Put({"receipt", "score"}, s, v) \in [Slots -> Values]
        /\ \A k \in Slots : Put({"receipt", "score"}, s, v)[k] = IF k \in {<<"receipt", s>>, <<"score", s>>} THEN v ELSE slots[k]
    BY <2>1, PutIs, SlotsAre
  <2> QED BY <1>1, <2>1, <2>2, SlotsAre DEF StudyKinds
<1>3. Keeps
  BY PublishStudyKeeps DEF DInv
<1>4. \A k \in Slots : k[2] # s => slots'[k] = slots[k]
  BY <1>2
<1>5. ASSUME planned # <<>> PROVE Steady
  <2> SUFFICES ASSUME NEW k \in Rows, gathered[k] # Absent, slots[k] # gathered[k] PROVE slots'[k] # gathered[k]
    BY DEF Steady
  <2>1. k \in Slots
    BY SlotsAre DEF Rows
  <2>2. gathered[<<"receipt", s>>] # v /\ gathered[<<"score", s>>] # v
    BY <1>1, <1>5 DEF DInv, Planning, Seen, SeenOfStudy
  <2> QED BY <1>2, <2>1, <2>2
<1> QED BY <1>1, <1>3, <1>4, <1>5, StudyKeeps

\* A step of a request that leaves the records and the plan as they are.
LEMMA RequestKeeps ==
  ASSUME DInv, NEW d \in Deleter, UNCHANGED <<slots, planned, cursor, gathered>>,
         NEW w \in Workers, Reading(w), worker' = [worker EXCEPT ![d] = w]
  PROVE  DInv'
<1>1. Recorded' /\ Untouched' /\ Spared'
  BY DEF DInv, Recorded, RecordedOfAccount, RecordedOfStudy, Untouched, Spared, There, Known
<1>2. There("journal", 0)' = There("journal", 0) /\ \A r, full : Seen(r, full)' = Seen(r, full)
  BY DEF There, Seen, SeenOfAccount, SeenOfStudy, Known
<1>3. Planning'
  BY <1>2 DEF DInv, Planning
<1>4. \A e \in Deleter : worker'[e] = IF e = d THEN w ELSE worker[e]
  BY DEF DInv, Readers
<1>5. worker' \in [Deleter -> Workers]
  BY DEF DInv, Readers
<1>6. ASSUME NEW e \in Deleter PROVE Reading(worker[e])'
  <2>1. Reading(worker'[e])
    BY <1>4 DEF DInv, Readers
  <2> QED BY <1>2, <2>1 DEF Reading
<1> QED BY <1>1, <1>3, <1>5, <1>6 DEF DInv, Readers

\* The account and its indexes are read together.
LEMMA GatheringKeeps == ASSUME DInv, NEW d \in Deleter, GatherIndexes(d) PROVE DInv'
<1> DEFINE r == [k \in Slots |-> IF k \in OfAccount \/ k[1] \in {"listed", "score", "keys"} THEN slots[k] ELSE Absent]
           w == Reader("gather", r)
<1>1. planned = <<>> /\ worker' = [worker EXCEPT ![d] = w] /\ UNCHANGED <<slots, planned, cursor, gathered>>
  BY DEF GatherIndexes
<1>2. w = [does |-> "gather", read |-> r, at |-> 0, slot |-> Journal]
  BY DEF Reader
<1>3. slots \in [Slots -> Values]
  BY DEF DInv, Recorded, RecordedOfAccount
<1>4. r \in [Slots -> Values]
  BY <1>3 DEF Values
<1>5. \A k \in OfAccount : r[k] = slots[k]
  BY DEF Slots
<1>6. \A s \in Owned : \A kind \in StudyKinds : r[<<kind, s>>] = IF kind \in {"listed", "score", "keys"} THEN slots[<<kind, s>>] ELSE Absent
  BY SlotsAre DEF OfAccount
<1> HIDE DEF r
<1>7. \A kind \in {"oauth", "email", "reverse"} : r[<<kind, 0>>] = "first"
  BY <1>1, <1>5, SlotsAre DEF DInv, Untouched, AccountKinds
<1>8. SeenOfAccount(r)
  BY <1>4, <1>5, <1>7, SlotsAre DEF SeenOfAccount, AccountKinds, DInv, Recorded, RecordedOfAccount
<1>9. ASSUME NEW s \in Owned PROVE SeenOfStudy(r, FALSE, s)
  BY <1>6 DEF SeenOfStudy, DInv, Recorded, RecordedOfStudy, StudyKinds, There, Absent
<1>10. Seen(r, FALSE)
  BY <1>8, <1>9 DEF Seen
<1>11. w \in Workers /\ w.read = r /\ w.does = "gather" /\ r[<<"reverse", 0>>] # Absent
  <2>1. Journal \in Slots
    BY SlotsAre
  <2>2. r[<<"reverse", 0>>] # Absent
    BY <1>7 DEF Absent
  <2> QED BY <1>2, <1>4, <2>1, <2>2 DEF Workers
<1> HIDE DEF w
<1>12. (w.does = "persist") = FALSE
  BY <1>11
<1>13. Reading(w)
  BY <1>10, <1>11, <1>12 DEF Reading
<1> QED BY <1>1, <1>11, <1>13, RequestKeeps

\* What the indexes name is read next, and is of later than they are.
LEMMA GatheredKeeps == ASSUME DInv, NEW d \in Deleter, GatherRecords(d) PROVE DInv'
<1> DEFINE seen == worker[d].read
           named(k) == \/ k[1] \in {"lock", "owner", "registry"} /\ seen[<<"listed", k[2]>>] # Absent
                       \/ k[1] = "receipt" /\ seen[<<"score", k[2]>>] # Absent
                       \/ k[1] = "key" /\ seen[<<"keys", k[2]>>] # Absent
           r == [k \in Slots |-> IF k \in OfStudies /\ named(k) THEN slots[k] ELSE seen[k]]
           w == Reader("persist", r)
<1>1. worker[d].does = "gather" /\ worker' = [worker EXCEPT ![d] = w] /\ UNCHANGED <<slots, planned, cursor, gathered>>
  BY DEF GatherRecords
<1>2. w = [does |-> "persist", read |-> r, at |-> 0, slot |-> Journal]
  BY DEF Reader
<1>3. slots \in [Slots -> Values] /\ worker[d] \in Workers /\ Reading(worker[d])
  BY DEF DInv, Recorded, RecordedOfAccount, Readers
<1>4. (worker[d].does = "persist") = FALSE
  BY <1>1
<1>5. seen \in [Slots -> Values] /\ Seen(seen, FALSE) /\ seen[<<"reverse", 0>>] # Absent
  BY <1>1, <1>3, <1>4 DEF Workers, Reading
<1> HIDE DEF seen
<1>6. r \in [Slots -> Values]
  BY <1>3, <1>5
<1>7. \A kind \in AccountKinds : r[<<kind, 0>>] = seen[<<kind, 0>>]
  BY SlotsAre DEF OfStudies, AccountKinds
<1>8. ASSUME NEW s \in Owned
      PROVE  /\ \A kind \in {"listed", "score", "keys"} : r[<<kind, s>>] = seen[<<kind, s>>]
             /\ \A kind \in {"lock", "owner", "registry"} : r[<<kind, s>>] =
                  IF seen[<<"listed", s>>] # Absent THEN slots[<<kind, s>>] ELSE seen[<<kind, s>>]
             /\ r[<<"receipt", s>>] = IF seen[<<"score", s>>] # Absent THEN slots[<<"receipt", s>>] ELSE seen[<<"receipt", s>>]
             /\ r[<<"key", s>>] = IF seen[<<"keys", s>>] # Absent THEN slots[<<"key", s>>] ELSE seen[<<"key", s>>]
  BY SlotsAre DEF StudyKinds
<1> HIDE DEF r
<1>9. SeenOfAccount(r)
  BY <1>5, <1>6, <1>7 DEF Seen, SeenOfAccount, AccountKinds
<1>10. ASSUME NEW s \in Owned PROVE SeenOfStudy(r, TRUE, s)
  <2>1. SeenOfStudy(seen, FALSE, s) /\ RecordedOfStudy(s)
    BY <1>5 DEF Seen, DInv, Recorded
  <2>2. \A kind \in StudyKinds : r[<<kind, s>>] # Absent => Known(s)
    BY <1>8, <2>1 DEF SeenOfStudy, RecordedOfStudy, StudyKinds, There
  <2>3. \A kind \in {"lock", "owner", "registry"} : r[<<kind, s>>] # Absent => r[<<"listed", s>>] # Absent
    BY <1>8, <2>1 DEF SeenOfStudy
  <2>4. r[<<"listed", s>>] # Absent /\ slots[<<"registry", s>>] = "create" => r[<<"registry", s>>] = "create"
    BY <1>8
  <2>5. /\ (r[<<"registry", s>>] = "created" => slots[<<"registry", s>>] # "create")
        /\ (r[<<"registry", s>>] = "deleted" => ~There("owner", s) /\ slots[<<"registry", s>>] # "delete")
        /\ (r[<<"key", s>>] = "delete" => slots[<<"key", s>>] \in {Absent, "delete"})
    BY <1>8, <2>1 DEF SeenOfStudy, RecordedOfStudy
  <2>6. \A kind \in {"receipt", "score"} :
           /\ (r[<<kind, s>>] = "created" => slots[<<"registry", s>>] \notin {"create", "created"})
           /\ (r[<<kind, s>>] = "deleted" => ~There("owner", s) /\ slots[<<"registry", s>>] \notin {"delete", "deleted"})
    BY <1>8, <2>1 DEF SeenOfStudy, RecordedOfStudy
  <2> QED BY <2>2, <2>3, <2>4, <2>5, <2>6 DEF SeenOfStudy
<1>11. Seen(r, TRUE)
  BY <1>9, <1>10 DEF Seen
<1>12. w \in Workers /\ w.read = r /\ w.does = "persist" /\ r[<<"reverse", 0>>] # Absent
  BY <1>2, <1>5, <1>6, <1>7, SlotsAre DEF Workers, AccountKinds
<1> HIDE DEF w
<1>13. (w.does = "persist") = TRUE
  BY <1>12
<1>14. Reading(w)
  BY <1>11, <1>12, <1>13 DEF Reading
<1> QED BY <1>1, <1>12, <1>14, RequestKeeps

\* A plan's commands are of records.
LEMMA PlanSlots ==
  ASSUME NEW seen
  PROVE  /\ Len(Plan(seen)) \in Nat \ {0} /\ Plan(seen) # <<>>
         /\ \A c \in Nat : c < Len(Plan(seen)) => Plan(seen)[c + 1][1] \in Slots
<1> DEFINE p == Plan(seen)
<1> HIDE DEF p
<1>1. Len(p) \in Nat \ {0} /\ p[Len(p)] = <<Journal, "open">> /\ \A n \in 1..Len(p) - 1 : p[n][1] \in Rows
  BY PlanHas DEF p
<1>2. p # <<>>
  BY <1>1
<1>3. ASSUME NEW c \in Nat, c < Len(p) PROVE p[c + 1][1] \in Slots
  <2>1. CASE c + 1 = Len(p)
    BY <1>1, <2>1, SlotsAre
  <2>2. CASE c + 1 # Len(p)
    <3>1. c + 1 \in 1..Len(p) - 1
      BY <1>1, <1>3, <2>2
    <3> QED BY <1>1, <3>1, SlotsAre DEF Rows
  <2> QED BY <2>1, <2>2
<1> QED BY <1>1, <1>2, <1>3 DEF p

\* A request that moves on, having read what is there to be seen.
LEMMA WorkerKeeps ==
  ASSUME Readers, Keeps, NEW d \in Deleter, NEW w \in Workers, Reading(w), worker' = [worker EXCEPT ![d] = w]
  PROVE  Readers'
<1>1. worker' \in [Deleter -> Workers] /\ \A e \in Deleter : worker'[e] = IF e = d THEN w ELSE worker[e]
  BY DEF Readers
<1>2. \A r, full : Seen(r, full) => Seen(r, full)'
  BY DEF Keeps
<1>3. ASSUME NEW e \in Deleter PROVE Reading(worker[e])'
  <2>1. Reading(worker'[e])
    BY <1>1 DEF Readers
  <2> QED BY <1>2, <2>1 DEF Reading
<1> QED BY <1>1, <1>3 DEF Readers

\* Persisting finds a plan, or makes one of what was gathered.
LEMMA PersistingKeeps == ASSUME DInv, NEW d \in Deleter, Persist(d) PROVE DInv'
<1> DEFINE w == Applying(planned', cursor')
           read == worker[d].read
<1>1. worker[d].does = "persist" /\ worker' = [worker EXCEPT ![d] = w]
  BY DEF Persist
<1>2. CASE There("journal", 0)
  <2>1. UNCHANGED <<slots, planned, cursor, gathered>> /\ planned # <<>> /\ cursor \in Nat /\ planned = Plan(gathered)
    BY <1>2 DEF Persist, DInv, Planning
  <2>2. Len(planned) \in Nat /\ (cursor < Len(planned) => planned[cursor + 1][1] \in Slots)
    BY <2>1, PlanSlots
  <2>3. w = Applying(planned, cursor)
    BY <2>1
  <2>4. w \in Workers /\ Reading(w)
    BY <2>1, <2>2, <2>3, ApplyingReads DEF DInv
  <2> HIDE DEF w
  <2> QED BY <1>1, <2>1, <2>4, RequestKeeps
<1>3. CASE ~There("journal", 0)
  <2>1. /\ slots' = Put({"journal"}, 0, "open") /\ planned' = Plan(read) /\ cursor' = 0 /\ gathered' = read
    BY <1>3 DEF Persist
  <2>2. worker[d] \in Workers /\ Reading(worker[d]) /\ worker \in [Deleter -> Workers]
    BY DEF DInv, Readers
  <2>3. (worker[d].does = "persist") = TRUE
    BY <1>1
  <2>4. Seen(read, TRUE) /\ read[<<"reverse", 0>>] # Absent
    BY <1>1, <2>2, <2>3 DEF Reading
  <2> HIDE DEF read
  <2>5. /\ slots' \in [Slots -> Values]
        /\ \A k \in Slots : slots'[k] = IF k[1] \in {"journal"} /\ k[2] = 0 THEN "open" ELSE slots[k]
    BY <2>1, PutIs DEF DInv, Recorded, RecordedOfAccount, Values
  <2>6. Keeps
    BY <2>5, ElsewhereKeeps DEF DInv
  <2>7. Recorded' /\ \A r, full : Seen(r, full) => Seen(r, full)'
    BY <2>6 DEF Keeps
  <2>8. /\ Len(planned') \in Nat \ {0} /\ planned' # <<>>
        /\ (0 < Len(planned') => planned'[0 + 1][1] \in Slots)
    <3>1. /\ Len(Plan(read)) \in Nat \ {0} /\ Plan(read) # <<>>
          /\ \A c \in Nat : c < Len(Plan(read)) => Plan(read)[c + 1][1] \in Slots
      BY PlanSlots
    <3> QED BY <2>1, <3>1
  <2>9. There("journal", 0)'
    BY <2>5, SlotsAre DEF There, Journal, Absent
  <2>10. Planning'
    <3>1. ASSUME NEW r, r = gathered' PROVE Seen(r, TRUE)'
      BY <2>1, <2>4, <2>7, <3>1
    <3>2. Seen(gathered, TRUE)'
      BY <3>1
    <3>3. cursor' <= Len(planned') /\ cursor' \in Nat
      BY <2>1, <2>8
    <3>4. \A n \in 1..Len(planned') - 1 : ~(n <= cursor')
      BY <2>1, <2>8
    <3>5. planned' = Plan(gathered)' /\ gathered'[<<"reverse", 0>>] # Absent
      BY <2>1, <2>4
    <3> QED BY <2>8, <2>9, <3>2, <3>3, <3>4, <3>5 DEF Planning
  <2>11. Untouched'
    BY <2>8 DEF Untouched
  <2>12. Spared'
    BY <2>5, SlotsAre DEF DInv, Spared, There, AccountKinds
  <2>13. w \in Workers /\ Reading(w)
    BY <2>1, <2>8, ApplyingReads DEF DInv
  <2> HIDE DEF w
  <2>14. Readers'
    BY <1>1, <2>6, <2>13, WorkerKeeps DEF DInv
  <2> QED BY <2>7, <2>10, <2>11, <2>12, <2>14 DEF DInv
<1> QED BY <1>2, <1>3

\* A request resumes at the cursor.
LEMMA ResumingKeeps == ASSUME DInv, NEW d \in Deleter, Resume(d) PROVE DInv'
<1> DEFINE w == Applying(planned, cursor)
<1>1. worker' = [worker EXCEPT ![d] = w] /\ UNCHANGED <<slots, planned, cursor, gathered>> /\ There("journal", 0)
  BY DEF Resume
<1>2. planned # <<>> /\ cursor \in Nat /\ planned = Plan(gathered)
  BY <1>1 DEF DInv, Planning
<1>3. Len(planned) \in Nat /\ (cursor < Len(planned) => planned[cursor + 1][1] \in Slots)
  BY <1>2, PlanSlots
<1>4. w \in Workers /\ Reading(w)
  BY <1>2, <1>3, ApplyingReads DEF DInv
<1> HIDE DEF w
<1> QED BY <1>1, <1>4, RequestKeeps

\* A command deletes what the plan expected to find, whoever sends it.
LEMMA CommandDeletes ==
  ASSUME DInv, planned # <<>>, NEW d, CompareAndDelete(d), cursor < Len(planned)
  PROVE  /\ Keeps /\ Spared' /\ slots'[planned[cursor + 1][1]] # planned[cursor + 1][2]
         /\ \A k \in Slots : slots'[k] \in {Absent, slots[k]} /\ (k # planned[cursor + 1][1] => slots'[k] = slots[k])
<1> DEFINE slot == planned[cursor + 1][1]
           value == planned[cursor + 1][2]
<1>1. slots' = IF slot[1] \in Memberships \/ slots[slot] = value THEN [slots EXCEPT ![slot] = Absent] ELSE slots
  BY DEF CompareAndDelete
<1>2. Planning /\ cursor \in Nat /\ slots \in [Slots -> Values] /\ Recorded /\ planned = Plan(gathered)
  BY DEF DInv, Planning, Recorded, RecordedOfAccount
<1>3. slot \in Slots /\ Len(planned) \in Nat
  BY <1>2, PlanSlots
<1>4. value # Absent /\ (slot # Journal => slot \in Rows /\ value = gathered[slot] /\ cursor + 1 \in 1..Len(planned) - 1)
  <2>1. CASE cursor + 1 = Len(planned)
    <3>1. planned[cursor + 1] = <<Journal, "open">>
      BY <1>2, <2>1, PlannedIs
    <3>2. slot = Journal /\ value = "open"
      BY <3>1
    <3> QED BY <3>2 DEF Absent
  <2>2. CASE cursor + 1 # Len(planned)
    <3>1. cursor + 1 \in 1..Len(planned) - 1
      BY <1>2, <1>3, <2>2
    <3> QED BY <1>2, <3>1, PlannedIs
  <2> QED BY <2>1, <2>2
<1>5. slot[1] = "key" => ~There("reverse", 0)
  <2> SUFFICES ASSUME slot[1] = "key" PROVE cursor >= 1
    BY ReverseGoesFirst
  <2>1. planned[1][1] = <<"reverse", 0>>
    BY <1>2, PlannedIs
  <2>2. cursor # 0
    BY <2>1
  <2> QED BY <1>2, <2>2
<1> HIDE DEF slot, value
<1>6. Keeps
  <2>1. CASE slots' = [slots EXCEPT ![slot] = Absent]
    BY <1>2, <1>3, <1>5, <2>1, DeletionKeeps
  <2>2. CASE slots' = slots
    BY <1>2, <2>2, ElsewhereKeeps
  <2> QED BY <1>1, <2>1, <2>2
<1>7. \A k \in Slots : slots'[k] \in {Absent, slots[k]} /\ (k # slot => slots'[k] = slots[k])
  BY <1>1, <1>2
<1>8. slots'[slot] # value
  BY <1>1, <1>2, <1>3, <1>4
<1>9. Spared'
  <2> SUFFICES ASSUME There("successor", 0)'
               PROVE  slots'[<<"oauth", 0>>] = "second" /\ slots'[<<"email", 0>>] = "second"
    BY DEF Spared
  <2>1. slots[<<"oauth", 0>>] = "second" /\ slots[<<"email", 0>>] = "second"
    BY <1>7, SlotsAre DEF DInv, Spared, There
  <2>2. ASSUME NEW kind \in {"oauth", "email"} PROVE slots'[<<kind, 0>>] = slots[<<kind, 0>>]
    <3>1. <<kind, 0>> \in Slots /\ <<kind, 0>> # Journal /\ kind \notin Memberships
      BY SlotsAre DEF AccountKinds, Journal, Memberships
    <3>2. slot = <<kind, 0>> => slot[1] = kind
      OBVIOUS
    <3>3. gathered[<<kind, 0>>] \in {Absent, "first"}
      BY DEF DInv, Planning, Seen, SeenOfAccount
    <3>4. slot = <<kind, 0>> => slots[slot] # value
      BY <1>4, <2>1, <3>1, <3>3 DEF Absent
    <3> QED BY <1>1, <1>7, <3>1, <3>2, <3>4
  <2> QED BY <2>1, <2>2
<1> QED BY <1>6, <1>7, <1>8, <1>9 DEF slot, value

\* A call deletes, and stores the cursor or does not.
LEMMA ApplyingKeeps == ASSUME DInv, NEW d \in Deleter, NEW steps \in {1, 2}, Apply(d, steps) PROVE DInv'
<1>1. UNCHANGED <<planned, gathered>> /\ worker[d].does = "apply"
      /\ worker' = [worker EXCEPT ![d] = IF InStep(d) /\ steps = 2 THEN Applying(planned, cursor') ELSE Idle]
  BY DEF Apply
<1>2. Idle \in Workers /\ Reading(Idle)
  BY IdleReads DEF DInv
<1>3. CASE ~InStep(d)
  <2>1. UNCHANGED <<slots, planned, cursor, gathered>> /\ worker' = [worker EXCEPT ![d] = Idle]
    BY <1>1, <1>3 DEF Apply
  <2> QED BY <1>2, <2>1, RequestKeeps
<1>4. CASE InStep(d)
  <2>1. CompareAndDelete(d) /\ cursor' = (IF steps = 2 THEN cursor + 1 ELSE cursor) /\ cursor < Len(planned)
    BY <1>4 DEF Apply, Advances, InStep
  <2>2. planned # <<>> /\ Planning /\ cursor \in Nat /\ planned = Plan(gathered)
    <3>1. planned # <<>>
      BY <2>1 DEF DInv, Planning
    <3> QED BY <3>1 DEF DInv, Planning
  <2>3. Len(planned) \in Nat /\ \A c \in Nat : c < Len(planned) => planned[c + 1][1] \in Slots
    BY <2>2, PlanSlots
  <2>4. /\ Keeps /\ Spared' /\ slots'[planned[cursor + 1][1]] # planned[cursor + 1][2]
        /\ \A k \in Slots : slots'[k] \in {Absent, slots[k]} /\ (k # planned[cursor + 1][1] => slots'[k] = slots[k])
    BY <2>1, <2>2, CommandDeletes
  <2>5. cursor' \in Nat /\ cursor' <= Len(planned) /\ cursor <= cursor' /\ cursor' <= cursor + 1
    BY <2>1, <2>2, <2>3
  <2>6. Readers'
    <3> DEFINE w == IF InStep(d) /\ steps = 2 THEN Applying(planned, cursor') ELSE Idle
    <3>1. w \in Workers /\ Reading(w)
      BY <1>2, <2>3, <2>5, ApplyingReads DEF DInv
    <3>2. worker' = [worker EXCEPT ![d] = w]
      BY <1>1
    <3> HIDE DEF w
    <3> QED BY <2>4, <3>1, <3>2, WorkerKeeps DEF DInv
  <2>7. Untouched'
    BY <1>1, <2>2 DEF Untouched
  <2>8. ASSUME NEW n \in 1..Len(planned) - 1, n <= cursor' PROVE slots'[planned[n][1]] # planned[n][2]
    <3>1. CASE n = cursor + 1
      BY <2>4, <3>1
    <3>2. CASE n # cursor + 1
      <4>1. n <= cursor
        BY <2>2, <2>3, <2>5, <2>8, <3>2
      <4>2. slots[planned[n][1]] # planned[n][2] /\ planned[n][2] # Absent /\ planned[n][1] \in Rows
        BY <2>2, <4>1, PlannedIs DEF Planning
      <4>3. planned[n][1] \in Slots
        BY <4>2, SlotsAre DEF Rows
      <4> QED BY <2>4, <4>2, <4>3
    <3> QED BY <3>1, <3>2
  <2>9. ~There("journal", 0)' => cursor' >= Len(planned) - 1
    <3>1. CASE planned[cursor + 1][1] = Journal
      <4>1. cursor + 1 \notin 1..Len(planned) - 1
        BY <2>2, <3>1, PlannedIs, SlotsAre DEF Rows
      <4> QED BY <2>1, <2>2, <2>3, <2>5, <4>1
    <3>2. CASE planned[cursor + 1][1] # Journal
      <4>1. slots'[Journal] = slots[Journal]
        BY <2>4, <3>2, SlotsAre
      <4>2. There("journal", 0)' = There("journal", 0)
        BY <4>1 DEF There, Journal
      <4> QED BY <2>2, <2>3, <2>5, <4>2 DEF Planning
    <3> QED BY <3>1, <3>2
  <2>10. Planning'
    <3>1. Seen(gathered, TRUE) /\ gathered[<<"reverse", 0>>] # Absent
      BY <2>2 DEF Planning
    <3>2. ASSUME NEW r, r = gathered PROVE Seen(r, TRUE)'
      BY <2>4, <3>1, <3>2 DEF Keeps
    <3>3. Seen(gathered, TRUE)'
      BY <1>1, <3>2
    <3>4. planned' = Plan(gathered)' /\ gathered'[<<"reverse", 0>>] # Absent
      BY <1>1, <2>2, <3>1
    <3> QED BY <1>1, <2>2, <2>5, <2>8, <2>9, <3>3, <3>4 DEF Planning
  <2> QED BY <2>4, <2>6, <2>7, <2>10 DEF DInv, Keeps
<1> QED BY <1>3, <1>4

\* At first an account is there, with some published studies, and no plan.
LEMMA DeletionBegins == DeletionInit => DInv
<1> SUFFICES ASSUME DeletionInit PROVE DInv
  OBVIOUS
<1>1. PICK published \in SUBSET Owned : slots = [k \in Slots |->
         CASE k \in OfAccount -> "first"
           [] k \in OfStudies /\ k[2] \in published /\ k[1] \notin {"lock", "registry"} -> "published"
           [] OTHER -> Absent]
  BY DEF DeletionInit
<1>2. planned = <<>> /\ cursor = 0 /\ worker = [d \in Deleter |-> Idle]
  BY DEF DeletionInit
<1>3. slots \in [Slots -> Values]
  BY <1>1 DEF Values
<1>4. \A k \in OfAccount : slots[k] = "first"
  BY <1>1, SlotsAre
<1>5. \A k \in OfStudies : slots[k] = IF k[2] \in published /\ k[1] \notin {"lock", "registry"} THEN "published" ELSE Absent
  <2>1. \A k \in OfStudies : k \in Slots /\ k \notin OfAccount
    BY DEF OfStudies, OfAccount, Slots
  <2> QED BY <1>1, <2>1
<1>6. slots[Journal] = Absent /\ slots[<<"successor", 0>>] = Absent
  <2>1. ASSUME NEW k \in {Journal, <<"successor", 0>>} PROVE k \in Slots /\ k \notin OfAccount /\ k \notin OfStudies
    BY DEF Journal, Slots, OfAccount, OfStudies
  <2> QED BY <1>1, <2>1
<1>7. \A kind \in AccountKinds : slots[<<kind, 0>>] = "first"
  BY <1>4, SlotsAre
<1>8. \A kind \in StudyKinds, s \in Owned : slots[<<kind, s>>] =
        IF s \in published /\ kind \notin {"lock", "registry"} THEN "published" ELSE Absent
  BY <1>5, SlotsAre
<1>9. Recorded
  <2>1. RecordedOfAccount
    BY <1>3, <1>7 DEF RecordedOfAccount, AccountKinds
  <2>2. ASSUME NEW s \in Owned PROVE RecordedOfStudy(s)
    BY <1>8 DEF RecordedOfStudy, There, Known, StudyKinds, Absent
  <2> QED BY <2>1, <2>2 DEF Recorded
<1>10. Untouched
  BY <1>7 DEF Untouched, AccountKinds
<1>11. Spared /\ ~There("journal", 0)
  BY <1>6 DEF Spared, There, Journal
<1>12. Readers
  BY <1>2, <1>9, IdleReads DEF Readers
<1>13. Planning
  BY <1>2, <1>11 DEF Planning
<1> QED BY <1>9, <1>10, <1>11, <1>12, <1>13 DEF DInv

\* Every step keeps it.
LEMMA DInvNext == ASSUME DInv, [DeletionNext]_deletion PROVE DInv'
<1>1. CASE UNCHANGED deletion
  <2>1. UNCHANGED <<slots, planned, cursor, worker, gathered>>
    BY <1>1 DEF deletion
  <2>2. Untouched' /\ Spared'
    BY <2>1 DEF DInv, Untouched, Spared, There
  <2>3. Recorded /\ slots \in [Slots -> Values]
    BY DEF DInv, Recorded, RecordedOfAccount
  <2>4. Keeps /\ slots'[Journal] = slots[Journal]
    BY <2>1, <2>3, ElsewhereKeeps
  <2>5. Steady
    BY <2>1 DEF Steady
  <2> QED BY <2>1, <2>2, <2>4, <2>5, OthersKeep
<1>2. CASE SignIn
  BY <1>2, SignInKeeps
<1>3. CASE RotateCredentials
  BY <1>3, RotatingKeeps
<1>4. ASSUME NEW s \in Owned,
             BeginCreation(s) \/ BeginRemoval(s) \/ ResolveCreation(s) \/ ResolveRemoval(s) \/ PublishStudy(s)
      PROVE  DInv'
  BY <1>4, BeginningKeeps, ResolvingKeeps, RemovingKeeps, PublishingKeeps
<1>5. ASSUME NEW d \in Deleter, GatherIndexes(d) \/ GatherRecords(d) \/ Persist(d) \/ Resume(d) PROVE DInv'
  BY <1>5, GatheringKeeps, GatheredKeeps, PersistingKeeps, ResumingKeeps
<1>6. ASSUME NEW d \in Deleter, NEW steps \in {1, 2}, Apply(d, steps) PROVE DInv'
  BY <1>6, ApplyingKeeps
<1> QED BY <1>1, <1>2, <1>3, <1>4, <1>5, <1>6 DEF DeletionNext

\* It always holds.
THEOREM DeletionInvariant == DeletionSpec => []DInv
<1>1. DInv /\ [DeletionNext]_deletion => DInv'
  BY DInvNext
<1> QED BY <1>1, DeletionBegins, PTL DEF DeletionSpec

-----------------------------------------------------------------------------
(* What the requests are checked for.                                      *)

\* The variables have their types.
THEOREM DeletionTyped == DeletionSpec => []DeletionTypeOK
<1>1. DInv => DeletionTypeOK
  <2> SUFFICES ASSUME DInv PROVE DeletionTypeOK
    OBVIOUS
  <2>1. DOMAIN slots = Slots
    BY DEF DInv, Recorded, RecordedOfAccount
  <2>2. cursor \in 0..Len(planned)
    <3>1. CASE planned = <<>>
      BY <3>1 DEF DInv, Planning
    <3>2. CASE planned # <<>>
      <4>1. Planning
        BY DEF DInv
      <4>2. Len(planned) \in Nat
        BY <3>2, <4>1, PlannedIs
      <4> QED BY <3>2, <4>1, <4>2 DEF Planning
    <3> QED BY <3>1, <3>2
  <2>3. \A d \in Deleter : worker[d] \in Workers
    BY DEF DInv, Readers
  <2>4. \A d \in Deleter : worker[d].does \in {"idle", "gather", "persist", "apply"} /\ DOMAIN worker[d].read = Slots
    BY <2>3 DEF Workers
  <2> QED BY <2>1, <2>2, <2>4 DEF DeletionTypeOK
<1> QED BY <1>1, DeletionInvariant, PTL

\* Once the journal is gone, every record the plan was built from is gone.
THEOREM DeletionsComplete == DeletionSpec => []DeletedRecordsAreGone
<1>1. DInv => DeletedRecordsAreGone
  <2> SUFFICES ASSUME DInv, planned # <<>>, ~There("journal", 0), NEW k \in Rows, gathered[k] # Absent,
                      k[1] \in {"receipt", "score"} => gathered[<<"listed", k[2]>>] # Absent
               PROVE  slots[k] # gathered[k]
    BY DEF DeletedRecordsAreGone, Rows
  <2>1. Planning /\ cursor \in Nat /\ Seen(gathered, TRUE)
    BY DEF DInv, Planning
  <2>2. k[1] \in {"lock", "owner", "registry"} => gathered[<<"listed", k[2]>>] # Absent
    <3> SUFFICES ASSUME k[1] \in {"lock", "owner", "registry"} PROVE gathered[<<"listed", k[2]>>] # Absent
      OBVIOUS
    <3>1. k = <<k[1], k[2]>> /\ k[2] \in Owned
      BY DEF Rows, OfAccount, OfStudies
    <3> QED BY <2>1, <3>1 DEF Seen, SeenOfStudy
  <2>3. PICK n \in 1..Len(planned) - 1 : planned[n][1] = k
    BY <2>1, <2>2, PlannedIs DEF WithListed
  <2>4. Len(planned) \in Nat /\ planned[n][2] = gathered[k]
    BY <2>1, <2>3, PlannedIs
  <2>5. n <= cursor
    BY <2>1, <2>4 DEF Planning
  <2> QED BY <2>1, <2>3, <2>4, <2>5 DEF Planning
<1> QED BY <1>1, DeletionInvariant, PTL

\* The account a person signs in to meanwhile keeps its identities.
THEOREM SuccessorsAreSpared == DeletionSpec => []SuccessorIsSpared
<1>1. DInv => SuccessorIsSpared
  BY DEF DInv, Spared, SuccessorIsSpared
<1> QED BY <1>1, DeletionInvariant, PTL

-----------------------------------------------------------------------------
(* SampleWorkspace.                                                        *)

\* Every set of naturals that is not empty has a least member.
LEMMA LeastNumber ==
  ASSUME NEW T, T \subseteq Nat, T # {}
  PROVE  \E m \in T : \A n \in T : m <= n
<1>1. IsWellFoundedOn(OpToRel(<, Nat), Nat)
  BY ZenonT(30), NatLessThanWellFounded
<1>2. \E m \in T : \A n \in T : ~ (<<n, m>> \in OpToRel(<, Nat))
  BY ZenonT(30), <1>1, WFMin
<1>3. \A n, m \in Nat : n < m => <<n, m>> \in OpToRel(<, Nat)
  BY DEF OpToRel
<1>4. \E m \in T : \A n \in T : ~ (n < m)
  BY <1>2, <1>3
<1> QED BY <1>4

-----------------------------------------------------------------------------
(* The plans.                                                              *)

\* The sample's interviews stand in some order, each at a place of its own.
LEMMA FixturesListed ==
  /\ Cardinality(Fixture) \in Nat
  /\ SetToSeq(Fixture) \in [1..Cardinality(Fixture) -> Fixture]
  /\ \A i \in Fixture : \E m \in 1..Cardinality(Fixture) : SetToSeq(Fixture)[m] = i
<1> DEFINE N == Cardinality(Fixture)
<1>1. N \in Nat /\ \E f : f \in Bijection(1..N, Fixture)
  BY SampleAssumption, FS_CardinalityType DEF ExistsBijection
<1>2. \E f \in [1..N -> Fixture] : IsInjective(f)
  BY Zenon, <1>1 DEF Bijection, Injection
<1>3. SetToSeq(Fixture) \in [1..N -> Fixture] /\ IsInjective(SetToSeq(Fixture))
  BY Zenon, <1>2 DEF SetToSeq
<1>4. SetToSeq(Fixture) \in Injection(1..N, Fixture)
  BY <1>3 DEF Injection
<1>5. IsFiniteSet(1..N) /\ Cardinality(1..N) = N
  BY <1>1, FS_Interval
<1>6. SetToSeq(Fixture) \in Surjection(1..N, Fixture)
  BY <1>4, <1>5, SampleAssumption, FS_Injection
<1> QED BY <1>1, <1>3, <1>6 DEF Surjection

\* What is done to each of the interviews.
EachOf(doing) == {Command(does, i) : does \in doing, i \in Fixture}

\* A plan over the interviews has each of the three commands for each of them.
LEMMA EachHasAll ==
  ASSUME NEW a, NEW b, NEW d
  PROVE  /\ Each(<<a, b, d>>) \in Seq(EachOf({a, b, d}))
         /\ \A i \in Fixture, does \in {a, b, d} :
              \E n \in 1..Len(Each(<<a, b, d>>)) : Each(<<a, b, d>>)[n] = Command(does, i)
<1> DEFINE C == Cardinality(Fixture)
           F == SetToSeq(Fixture)
           plan == Each(<<a, b, d>>)
           S == EachOf({a, b, d})
<1>1. C \in Nat /\ F \in [1..C -> Fixture] /\ \A i \in Fixture : \E m \in 1..C : F[m] = i
  BY FixturesListed
<1>2. plan = [n \in 1..3 * C |-> Command(<<a, b, d>>[((n - 1) % 3) + 1], F[((n - 1) \div 3) + 1])]
  BY DEF Each
<1> HIDE DEF C, F, plan
<1>3. \A n \in 1..3 * C : /\ ((n - 1) % 3) + 1 \in 1..3 /\ ((n - 1) \div 3) + 1 \in 1..C
  BY <1>1
<1>4. \A m \in 1..C : /\ 3 * m - 2 \in 1..3 * C /\ 3 * m - 1 \in 1..3 * C /\ 3 * m \in 1..3 * C
                      /\ ((3 * m - 2 - 1) % 3) + 1 = 1 /\ ((3 * m - 2 - 1) \div 3) + 1 = m
                      /\ ((3 * m - 1 - 1) % 3) + 1 = 2 /\ ((3 * m - 1 - 1) \div 3) + 1 = m
                      /\ ((3 * m - 1) % 3) + 1 = 3 /\ ((3 * m - 1) \div 3) + 1 = m
  BY <1>1
<1>5. \A k \in 1..3 : <<a, b, d>>[k] \in {a, b, d}
  OBVIOUS
<1>6. \A n \in 1..3 * C : plan[n] \in S
  <2> SUFFICES ASSUME NEW n \in 1..3 * C PROVE plan[n] \in S
    OBVIOUS
  <2>1. <<a, b, d>>[((n - 1) % 3) + 1] \in {a, b, d}
    BY <1>3, <1>5
  <2>2. F[((n - 1) \div 3) + 1] \in Fixture
    BY <1>1, <1>3
  <2>3. plan[n] = Command(<<a, b, d>>[((n - 1) % 3) + 1], F[((n - 1) \div 3) + 1])
    BY <1>2
  <2> QED BY <2>1, <2>2, <2>3 DEF EachOf
<1>7. DOMAIN plan = 1..3 * C /\ 3 * C \in Nat
  BY <1>1, <1>2
<1>8. plan \in [1..3 * C -> S]
  <2>1. plan = [n \in 1..3 * C |-> plan[n]]
    BY <1>2
  <2> HIDE DEF S
  <2> QED BY <1>6, <2>1
<1>9. \A i \in Fixture, does \in {a, b, d} : \E n \in 1..3 * C : plan[n] = Command(does, i)
  <2> SUFFICES ASSUME NEW i \in Fixture
               PROVE  /\ \E n \in 1..3 * C : plan[n] = Command(a, i)
                      /\ \E n \in 1..3 * C : plan[n] = Command(b, i)
                      /\ \E n \in 1..3 * C : plan[n] = Command(d, i)
    OBVIOUS
  <2>1. PICK m \in 1..C : F[m] = i
    BY <1>1
  <2>2. plan[3 * m - 2] = Command(a, i)
    BY <1>2, <1>4, <2>1
  <2>3. plan[3 * m - 1] = Command(b, i)
    BY <1>2, <1>4, <2>1
  <2>4. plan[3 * m] = Command(d, i)
    BY <1>2, <1>4, <2>1
  <2> QED BY <1>4, <2>2, <2>3, <2>4
<1> HIDE DEF S
<1>10. plan \in Seq(S) /\ Len(plan) = 3 * C
  BY <1>7, <1>8
<1>11. \A i \in Fixture, does \in {a, b, d} : \E n \in 1..Len(plan) : plan[n] = Command(does, i)
  BY <1>9, <1>10
<1> QED BY <1>10, <1>11 DEF plan, S

\* The commands a plan has left.
Left(plan) == {plan[n] : n \in 1..Len(plan)}
Look == Command("look", TheStudy)
Purge == Command("purge", TheStudy)
Forget == Command("forget", TheStudy)
Removals == EachOf({"body", "member", "everyone"})
ClearCommands == {Look, Purge, Forget} \cup Removals
Writes == {Command("set", TheStudy), Command("list", TheStudy)}
          \cup EachOf({"set", "member", "everyone"})

\* Doing a plan's first command leaves the others.
LEMMA LeftOfTail ==
  ASSUME NEW S, NEW plan \in Seq(S), plan # <<>>
  PROVE  /\ Head(plan) \in S /\ Tail(plan) \in Seq(S)
         /\ Left(plan) = {Head(plan)} \cup Left(Tail(plan))
<1>1. Len(plan) \in Nat \ {0} /\ Head(plan) = plan[1] /\ Head(plan) \in S /\ Tail(plan) \in Seq(S)
  OBVIOUS
<1>2. Len(Tail(plan)) = Len(plan) - 1 /\ \A n \in 1..Len(plan) - 1 : Tail(plan)[n] = plan[n + 1]
  OBVIOUS
<1>3. \A n \in 1..Len(plan) : n = 1 \/ (n - 1 \in 1..Len(plan) - 1 /\ plan[n] = Tail(plan)[n - 1])
  BY <1>1, <1>2
<1>4. \A n \in 1..Len(plan) - 1 : n + 1 \in 1..Len(plan)
  BY <1>1
<1>5. 1 \in 1..Len(plan)
  BY <1>1
<1>6. Left(plan) \subseteq {Head(plan)} \cup Left(Tail(plan))
  BY <1>1, <1>2, <1>3 DEF Left
<1>7. {Head(plan)} \cup Left(Tail(plan)) \subseteq Left(plan)
  BY <1>1, <1>2, <1>4, <1>5 DEF Left
<1> QED BY <1>1, <1>6, <1>7

\* A plan of no commands has none left, and one that has none left is empty.
LEMMA LeftOfNone == Left(<<>>) = {}
BY DEF Left

\* A clear looks, purges and forgets, and then removes each interview it knows.
LEMMA ClearPlanIs ==
  /\ ClearPlan \in Seq(ClearCommands) /\ ClearPlan # <<>> /\ Head(ClearPlan) = Look
  /\ Tail(ClearPlan) # <<>> /\ Head(Tail(ClearPlan)) = Purge
  /\ Left(Tail(Tail(ClearPlan))) = {Forget} \cup Removals
<1> DEFINE rest == Each(<<"body", "member", "everyone">>)
<1>1. /\ rest \in Seq(Removals)
      /\ \A i \in Fixture, does \in {"body", "member", "everyone"} : \E n \in 1..Len(rest) : rest[n] = Command(does, i)
  BY EachHasAll DEF Removals
<1> HIDE DEF rest
<1>2. ClearPlan = <<Look, Purge, Forget>> \o rest
  BY DEF ClearPlan, rest, Look, Purge, Forget
<1>3. rest \in Seq(ClearCommands) /\ <<Look, Purge, Forget>> \in Seq(ClearCommands)
  <2> HIDE DEF Removals, Look, Purge, Forget
  <2> QED BY <1>1 DEF ClearCommands
<1>4. ClearPlan \in Seq(ClearCommands) /\ Len(ClearPlan) = 3 + Len(rest) /\ Len(rest) \in Nat
  BY <1>2, <1>3
<1>5. ClearPlan[1] = Look /\ ClearPlan[2] = Purge /\ ClearPlan[3] = Forget
  BY <1>2, <1>3
<1>6. \A n \in 1..Len(rest) : ClearPlan[n + 3] = rest[n]
  BY <1>2, <1>3
<1> DEFINE t == Tail(Tail(ClearPlan))
<1>7. /\ Head(ClearPlan) = Look /\ ClearPlan # <<>> /\ Tail(ClearPlan) \in Seq(ClearCommands) /\ Tail(ClearPlan) # <<>>
      /\ Len(Tail(ClearPlan)) = 2 + Len(rest) /\ \A n \in 1..Len(rest) + 2 : Tail(ClearPlan)[n] = ClearPlan[n + 1]
  <2> DEFINE p == ClearPlan
             m == Len(rest)
  <2>1. p \in Seq(ClearCommands) /\ Len(p) = 3 + m /\ m \in Nat /\ p[1] = Look
    BY <1>4, <1>5
  <2> HIDE DEF p, m
  <2>2. p # <<>> /\ Head(p) = Look /\ Tail(p) \in Seq(ClearCommands) /\ Len(Tail(p)) = 2 + m
    BY <2>1
  <2>3. \A n \in 1..m + 2 : Tail(p)[n] = p[n + 1]
    BY <2>1
  <2>4. Tail(p) # <<>>
    BY <2>1, <2>2
  <2> QED BY <2>2, <2>3, <2>4 DEF p, m
<1>8. /\ Head(Tail(ClearPlan)) = Purge /\ t \in Seq(ClearCommands)
      /\ Len(t) = 1 + Len(rest) /\ \A n \in 1..Len(rest) + 1 : t[n] = Tail(ClearPlan)[n + 1]
  BY <1>4, <1>5, <1>7
<1>9. t[1] = Forget /\ \A n \in 1..Len(rest) : n + 1 \in 1..Len(rest) + 1 /\ t[n + 1] = rest[n]
  BY <1>4, <1>5, <1>6, <1>7, <1>8
<1>10. \A n \in 1..Len(rest) + 1 : n = 1 \/ (n - 1 \in 1..Len(rest) /\ t[n] = rest[n - 1])
  BY <1>4, <1>9
<1>11. \A n \in 1..Len(rest) : rest[n] \in Removals
  BY <1>1
<1> HIDE DEF t
<1>12. Left(t) \subseteq {Forget} \cup Removals
  BY <1>8, <1>9, <1>10, <1>11 DEF Left
<1>13. Forget \in Left(t)
  BY <1>4, <1>8, <1>9 DEF Left
<1>14. ASSUME NEW i \in Fixture, NEW does \in {"body", "member", "everyone"}
       PROVE  Command(does, i) \in Left(t)
  <2>1. PICK n \in 1..Len(rest) : rest[n] = Command(does, i)
    BY <1>1
  <2>2. n + 1 \in 1..Len(t) /\ t[n + 1] = Command(does, i)
    BY <1>4, <1>8, <1>9, <2>1
  <2> QED BY <2>2 DEF Left
<1>15. Removals \subseteq Left(t)
  BY <1>14 DEF Removals, EachOf
<1> QED BY <1>4, <1>7, <1>8, <1>12, <1>13, <1>15 DEF t

\* The commands of a clear are told apart by what they do and to whom.
LEMMA CommandsDiffer ==
  /\ Look # Purge /\ Look # Forget /\ Purge # Forget /\ {Look, Purge, Forget} \cap Removals = {}
  /\ \A k \in ClearCommands : /\ (k.does = "look" => k = Look) /\ (k.does = "purge" => k = Purge)
                              /\ (k.does = "forget" => k = Forget) /\ (k.of # TheStudy => k \in Removals)
BY SampleAssumption DEF ClearCommands, Look, Purge, Forget, Removals, EachOf, Command

\* A load writes the study, its place in the list, and each interview.
LEMMA LoadPlanIs == LoadPlan \in Seq(Writes)
<1> DEFINE rest == Each(<<"set", "member", "everyone">>)
           begin == <<Command("set", TheStudy), Command("list", TheStudy)>>
           R == EachOf({"set", "member", "everyone"})
<1>1. rest \in Seq(R)
  BY EachHasAll
<1>2. R \subseteq Writes /\ Command("set", TheStudy) \in Writes /\ Command("list", TheStudy) \in Writes
  BY DEF Writes
<1> HIDE DEF rest, R
<1>3. rest \in Seq(Writes) /\ begin \in Seq(Writes)
  BY <1>1, <1>2
<1>4. begin \o rest \in Seq(Writes)
  BY <1>3
<1> QED BY <1>4 DEF LoadPlan, rest

-----------------------------------------------------------------------------
(* The invariant.                                                          *)

Requests ==
  [does: {"idle", "loads", "clears", "ended"}, plan: Seq(ClearCommands \cup Writes),
   told: {"nothing", "already-seeded", "seeded", "cleared", "ambiguous"},
   owes: BOOLEAN, masked: BOOLEAN, disturbed: BOOLEAN]

Shape ==
  /\ present \in BOOLEAN /\ inList \in BOOLEAN /\ clearReceipt \in BOOLEAN /\ tombstone \in BOOLEAN
  /\ bodies \subseteq Fixture \cup Joiner /\ inStudy \subseteq Fixture \cup Joiner
  /\ inAll \subseteq Fixture \cup Joiner /\ joining \subseteq Joiner
  /\ caller \in [Caller -> Requests]

\* A load has writes left; a clear goes through its plan in order.
Ordered(plan) ==
  /\ plan \in Seq(ClearCommands) /\ (Look \in Left(plan) => plan = ClearPlan)
  /\ (Purge \in Left(plan) => plan \in {ClearPlan, Tail(ClearPlan)})
PlansOrdered ==
  \A c \in Caller : /\ (caller[c].does = "loads" => caller[c].plan \in Seq(Writes))
                     /\ (caller[c].does = "clears" => Ordered(caller[c].plan))

\* Every participant's interview stands in the study's index, or is on its way
\* there, which needs the study.
JoinersHeld ==
  /\ (joining # {} => present) /\ bodies \cap Joiner \subseteq inStudy \cup joining /\ inAll \cap Joiner \subseteq inStudy

\* A receipt has a clear that owes its removal, and has not done it.
ReceiptOwed ==
  /\ (clearReceipt => \E c \in Caller : caller[c].owes /\ caller[c].told # "cleared")
  /\ \A c \in Caller : /\ (caller[c].does = "clears" /\ caller[c].owes => Forget \in Left(caller[c].plan))
                     /\ (caller[c].told = "cleared" => caller[c].does = "ended")

\* What a command of a clear leaves.
StudyGone == ~present /\ ~inList /\ inStudy \cap Joiner = {}
Gone(k) ==
  /\ (k = Purge => StudyGone)
  /\ (k \in Removals => /\ (k.does = "body" => k.of \notin bodies) /\ (k.does = "member" => k.of \notin inStudy)
                        /\ (k.does = "everyone" => k.of \notin inAll))
Progress ==
  \A c \in Caller : caller[c].does = "clears" /\ ~caller[c].masked /\ ~caller[c].disturbed =>
                     \A k \in ClearCommands \ Left(caller[c].plan) : Gone(k)

SInv == Shape /\ PlansOrdered /\ JoinersHeld /\ ReceiptOwed /\ Progress

\* A plan of a clear is in order at first, and stays so with its first command done.
LEMMA OrderedPlans ==
  /\ Ordered(ClearPlan) /\ Ordered(Tail(ClearPlan)) /\ Ordered(Tail(Tail(ClearPlan)))
  /\ Left(ClearPlan) = ClearCommands /\ Left(Tail(ClearPlan)) = ClearCommands \ {Look}
  /\ Left(Tail(Tail(ClearPlan))) = ClearCommands \ {Look, Purge}
  /\ \A plan : Ordered(plan) /\ plan # <<>> => /\ Ordered(Tail(plan)) /\ Head(plan) \in ClearCommands
                                              /\ Left(plan) = {Head(plan)} \cup Left(Tail(plan))
                                              /\ (Head(plan) = Look => plan = ClearPlan)
                                              /\ (Head(plan) = Purge => plan = Tail(ClearPlan))
<1> DEFINE p == ClearPlan
           C == ClearCommands
<1>1. /\ p \in Seq(C) /\ p # <<>> /\ Head(p) = Look /\ Tail(p) # <<>> /\ Head(Tail(p)) = Purge
      /\ Left(Tail(Tail(p))) = {Forget} \cup Removals
  BY ClearPlanIs
<1>2. C = {Look, Purge, Forget} \cup Removals
  BY DEF ClearCommands
<1> HIDE DEF p, C
<1>3. Tail(p) \in Seq(C) /\ Left(p) = {Look} \cup Left(Tail(p))
  BY <1>1, LeftOfTail
<1>4. Tail(Tail(p)) \in Seq(C) /\ Left(Tail(p)) = {Purge} \cup Left(Tail(Tail(p)))
  BY <1>1, <1>3, LeftOfTail
<1>5. Left(Tail(Tail(p))) = C \ {Look, Purge} /\ Left(Tail(p)) = C \ {Look} /\ Left(p) = C
  BY <1>1, <1>2, <1>3, <1>4, CommandsDiffer
<1>6. /\ Ordered(p) /\ Ordered(Tail(p)) /\ Ordered(Tail(Tail(p)))
  BY <1>1, <1>3, <1>4, <1>5, CommandsDiffer DEF Ordered, p, C
<1>7. ASSUME NEW plan, Ordered(plan), plan # <<>>
      PROVE  /\ Ordered(Tail(plan)) /\ Head(plan) \in C /\ Left(plan) = {Head(plan)} \cup Left(Tail(plan))
             /\ (Head(plan) = Look => plan = p) /\ (Head(plan) = Purge => plan = Tail(p))
  <2>1. plan \in Seq(C) /\ (Look \in Left(plan) => plan = p) /\ (Purge \in Left(plan) => plan \in {p, Tail(p)})
    BY <1>7 DEF Ordered, p, C
  <2>2. Head(plan) \in C /\ Tail(plan) \in Seq(C) /\ Left(plan) = {Head(plan)} \cup Left(Tail(plan))
    BY <1>7, <2>1, LeftOfTail
  <2>3. CASE plan = p
    BY <1>1, <1>6, <2>2, <2>3, CommandsDiffer
  <2>4. CASE plan = Tail(p)
    BY <1>1, <1>5, <1>6, <2>1, <2>2, <2>4, CommandsDiffer
  <2>5. CASE plan \notin {p, Tail(p)}
    <3>1. Look \notin Left(plan) /\ Purge \notin Left(plan)
      BY <2>1, <2>5
    <3> QED BY <2>2, <3>1 DEF Ordered, C
  <2> QED BY <2>3, <2>4, <2>5
<1> QED BY <1>5, <1>6, <1>7 DEF p, C

\* Nothing is there at first.
LEMMA SInvInit == SampleInit => SInv
<1> SUFFICES ASSUME SampleInit PROVE SInv
  OBVIOUS
<1>1. \A c \in Caller : caller[c] = [does |-> "idle", plan |-> <<>>, told |-> "nothing", owes |-> FALSE, masked |-> FALSE, disturbed |-> FALSE]
  BY DEF SampleInit
<1>2. <<>> \in Seq(ClearCommands \cup Writes)
  OBVIOUS
<1>3. caller \in [Caller -> Requests]
  BY <1>1, <1>2 DEF SampleInit, Requests
<1>4. Shape
  BY <1>3 DEF SampleInit, Shape
<1>5. PlansOrdered /\ JoinersHeld /\ ReceiptOwed /\ Progress
  BY <1>1 DEF SampleInit, PlansOrdered, JoinersHeld, ReceiptOwed, Progress
<1> QED BY <1>4, <1>5 DEF SInv

\* A step that changes one request only: what the invariant asks of it.
OnlyRequest(c) == caller' \in [Caller -> Requests] /\ \A d \in Caller \ {c} : caller'[d] = caller[d]
RequestKept(c) ==
  /\ (caller'[c].does = "loads" => caller'[c].plan \in Seq(Writes))
  /\ (caller'[c].does = "clears" => Ordered(caller'[c].plan))
  /\ (caller'[c].does = "clears" /\ caller'[c].owes => Forget \in Left(caller'[c].plan))
  /\ (caller'[c].told = "cleared" => caller'[c].does = "ended")
  /\ (caller'[c].does = "clears" /\ ~caller'[c].masked /\ ~caller'[c].disturbed =>
         \A k \in ClearCommands \ Left(caller'[c].plan) : Gone(k)')

\* A request that stops keeps the rest as it was.
LEMMA EndsKeeps ==
  ASSUME SInv, NEW c \in Caller, NEW reply \in {"already-seeded", "seeded", "cleared", "ambiguous"}, Ends(c, reply)
  PROVE  OnlyRequest(c) /\ RequestKept(c) /\ caller'[c] = [caller[c] EXCEPT !.does = "ended", !.plan = <<>>, !.told = reply]
<1>1. caller \in [Caller -> Requests]
  BY DEF SInv, Shape
<1>2. caller'[c] = [caller[c] EXCEPT !.does = "ended", !.plan = <<>>, !.told = reply] /\ \A d \in Caller \ {c} : caller'[d] = caller[d]
  BY <1>1 DEF Ends
<1>3. <<>> \in Seq(ClearCommands \cup Writes)
  OBVIOUS
<1>4. caller' \in [Caller -> Requests]
  <2> DEFINE P == Seq(ClearCommands \cup Writes)
  <2>1. Requests = [does: {"idle", "loads", "clears", "ended"}, plan: P,
                    told: {"nothing", "already-seeded", "seeded", "cleared", "ambiguous"},
                    owes: BOOLEAN, masked: BOOLEAN, disturbed: BOOLEAN]
    BY DEF Requests
  <2>2. <<>> \in P
    BY <1>3
  <2> HIDE DEF P
  <2>3. caller[c] \in Requests
    BY <1>1
  <2>4. caller'[c] \in Requests
    BY <1>2, <2>1, <2>2, <2>3
  <2>5. caller' = [d \in Caller |-> caller'[d]]
    BY <1>1 DEF Ends
  <2> QED BY <1>1, <1>2, <2>4, <2>5
<1>5. caller'[c].does = "ended"
  BY <1>1, <1>2 DEF Requests
<1> QED BY <1>2, <1>4, <1>5 DEF OnlyRequest, RequestKept

\* A step that leaves what clears have removed removed, and every other request
\* alone, keeps the invariant if its own request does.
LEMMA StepKeeps ==
  ASSUME SInv, NEW c \in Caller, OnlyRequest(c), RequestKept(c), (JoinersHeld)',
         (bodies' \subseteq bodies) /\ inStudy' \subseteq inStudy /\ inAll' \subseteq inAll /\ joining' \subseteq joining,
         present' \in BOOLEAN /\ inList' \in BOOLEAN /\ clearReceipt' \in BOOLEAN /\ tombstone' \in BOOLEAN,
         (present' => present) /\ (inList' => inList),
         clearReceipt' => \E d \in Caller : caller'[d].owes /\ caller'[d].told # "cleared"
  PROVE  SInv'
<1>1. Shape'
  BY DEF SInv, Shape, OnlyRequest
<1>2. PlansOrdered'
  BY DEF SInv, PlansOrdered, OnlyRequest, RequestKept
<1>3. ReceiptOwed'
  BY DEF SInv, ReceiptOwed, OnlyRequest, RequestKept
<1>4. \A k : Gone(k) => Gone(k)'
  BY DEF Gone, StudyGone
<1>5. Progress'
  BY <1>4 DEF SInv, Progress, OnlyRequest, RequestKept
<1> QED BY <1>1, <1>2, <1>3, <1>5 DEF SInv

\* A step that gives a request another plan and other marks changes no other.
LEMMA CallerAdvances ==
  ASSUME SInv, NEW c \in Caller, NEW p \in Seq(ClearCommands \cup Writes), NEW o \in BOOLEAN, NEW m \in BOOLEAN,
         NEW w \in {"idle", "loads", "clears", "ended"},
         caller' = [caller EXCEPT ![c] = [@ EXCEPT !.does = w, !.plan = p, !.owes = o, !.masked = m]]
  PROVE  /\ OnlyRequest(c) /\ caller'[c].does = w /\ caller'[c].plan = p /\ caller'[c].owes = o
         /\ caller'[c].masked = m /\ caller'[c].told = caller[c].told /\ caller'[c].disturbed = caller[c].disturbed
<1> DEFINE s == [caller[c] EXCEPT !.does = w, !.plan = p, !.owes = o, !.masked = m, !.disturbed = caller[c].disturbed]
<1>1. caller \in [Caller -> Requests] /\ caller[c] \in Requests
  BY DEF SInv, Shape
<1>2. caller[c].disturbed \in BOOLEAN
  BY <1>1 DEF Requests
<1>3. s \in Requests /\ s.does = w /\ s.plan = p /\ s.owes = o /\ s.masked = m /\ s.told = caller[c].told /\ s.disturbed = caller[c].disturbed
  <2> DEFINE P == Seq(ClearCommands \cup Writes)
  <2>1. p \in P /\ caller[c] \in Requests
    BY <1>1
  <2> HIDE DEF P
  <2> QED BY <1>2, <2>1 DEF Requests, P
<1>4. caller'[c] = s
  <2>1. caller'[c] = [caller[c] EXCEPT !.does = w, !.plan = p, !.owes = o, !.masked = m]
    BY <1>1
  <2> QED BY <2>1, <1>1 DEF Requests
<1> HIDE DEF s
<1>5. caller' = [d \in Caller |-> IF d = c THEN s ELSE caller[d]]
  BY <1>1, <1>4
<1>6. OnlyRequest(c)
  BY <1>1, <1>3, <1>5 DEF OnlyRequest
<1> QED BY <1>3, <1>4, <1>6

\* The plans a request may have are plans.
LEMMA PlansTyped ==
  /\ \A p : p \in Seq(Writes) \/ p \in Seq(ClearCommands) \/ Ordered(p) => p \in Seq(ClearCommands \cup Writes)
  /\ <<>> \in Seq(Writes)
<1> DEFINE W == Writes
           C == ClearCommands
<1> HIDE DEF W, C
<1>1. Seq(W) \subseteq Seq(C \cup W) /\ Seq(C) \subseteq Seq(C \cup W) /\ <<>> \in Seq(W)
  OBVIOUS
<1> QED BY <1>1 DEF W, C, Ordered

\* A load finds the study, and ends, or begins with every write in order.
LEMMA BeginLoadKeeps == ASSUME SInv, NEW c \in Caller, BeginLoad(c) PROVE SInv'
<1>0. caller \in [Caller -> Requests] /\ UNCHANGED sampleRows
  BY DEF SInv, Shape, BeginLoad
<1>1. CASE present
  <2>1. OnlyRequest(c) /\ RequestKept(c) /\ caller'[c] = [caller[c] EXCEPT !.does = "ended", !.plan = <<>>, !.told = "already-seeded"]
    BY <1>1, EndsKeeps DEF BeginLoad
  <2>2. caller'[c].owes = caller[c].owes /\ caller'[c].told # "cleared"
    BY <1>0, <2>1 DEF Requests
  <2> QED BY <1>0, <2>1, <2>2, StepKeeps DEF SInv, Shape, JoinersHeld, ReceiptOwed, OnlyRequest, sampleRows
<1>2. CASE ~present
  <2>1. caller' = [caller EXCEPT ![c] = [@ EXCEPT !.does = "loads", !.plan = LoadPlan, !.owes = caller[c].owes, !.masked = caller[c].masked]]
    BY <1>0, <1>2 DEF BeginLoad, Requests
  <2>2. LoadPlan \in Seq(ClearCommands \cup Writes) /\ caller[c].owes \in BOOLEAN /\ caller[c].masked \in BOOLEAN
    BY <1>0, LoadPlanIs, PlansTyped DEF Requests
  <2>3. /\ OnlyRequest(c) /\ caller'[c].does = "loads" /\ caller'[c].plan = LoadPlan /\ caller'[c].owes = caller[c].owes
        /\ caller'[c].told = caller[c].told
    BY <2>1, <2>2, CallerAdvances
  <2>4. RequestKept(c)
    BY <1>2, <2>3, LoadPlanIs DEF RequestKept, SInv, ReceiptOwed, BeginLoad
  <2> QED BY <1>0, <2>3, <2>4, StepKeeps DEF SInv, Shape, JoinersHeld, ReceiptOwed, OnlyRequest, sampleRows
<1> QED BY <1>1, <1>2

\* A clear begins with every command in order.
LEMMA BeginClearKeeps == ASSUME SInv, NEW c \in Caller, BeginClear(c) PROVE SInv'
<1>0. caller \in [Caller -> Requests] /\ UNCHANGED sampleRows
  BY DEF SInv, Shape, BeginClear
<1>1. caller' = [caller EXCEPT ![c] = [@ EXCEPT !.does = "clears", !.plan = ClearPlan, !.owes = caller[c].owes, !.masked = caller[c].masked]]
  BY <1>0 DEF BeginClear, Requests
<1>2. ClearPlan \in Seq(ClearCommands \cup Writes) /\ caller[c].owes \in BOOLEAN /\ caller[c].masked \in BOOLEAN
  BY <1>0, OrderedPlans, PlansTyped DEF Requests
<1>3. /\ OnlyRequest(c) /\ caller'[c].does = "clears" /\ caller'[c].plan = ClearPlan /\ caller'[c].owes = caller[c].owes
      /\ caller'[c].told = caller[c].told
  BY <1>1, <1>2, CallerAdvances
<1>4. RequestKept(c)
  BY <1>0, <1>3, OrderedPlans DEF RequestKept, ClearCommands, SInv, ReceiptOwed, BeginClear
<1> QED BY <1>0, <1>3, <1>4, StepKeeps DEF SInv, Shape, JoinersHeld, ReceiptOwed, OnlyRequest, sampleRows

\* A clear that has no command left, or does one, and what its plan is then.
LEMMA DoingClear ==
  ASSUME SInv, NEW c \in Caller, caller[c].does = "clears", caller[c].plan # <<>>
  PROVE  /\ Ordered(caller[c].plan) /\ Ordered(Tail(caller[c].plan)) /\ Head(caller[c].plan) \in ClearCommands
         /\ Left(caller[c].plan) = {Head(caller[c].plan)} \cup Left(Tail(caller[c].plan))
         /\ (Head(caller[c].plan) = Look => caller[c].plan = ClearPlan)
         /\ (Head(caller[c].plan) = Purge => caller[c].plan = Tail(ClearPlan))
         /\ caller \in [Caller -> Requests] /\ caller[c].owes \in BOOLEAN /\ caller[c].masked \in BOOLEAN
         /\ Tail(caller[c].plan) \in Seq(ClearCommands \cup Writes)
<1>1. Ordered(caller[c].plan)
  BY DEF SInv, PlansOrdered
<1>2. caller \in [Caller -> Requests] /\ caller[c].owes \in BOOLEAN /\ caller[c].masked \in BOOLEAN
  BY DEF SInv, Shape, Requests
<1> QED BY <1>1, <1>2, OrderedPlans, PlansTyped

\* With no other clear's receipt answering, a receipt says that the study is gone.
LEMMA ReceiptSpeaks ==
  ASSUME SInv, clearReceipt, ~Masked
  PROVE  StudyGone
BY DEF SInv, ReceiptOwed, Masked, StudyGone

\* A clear that finds a receipt of its deletion skips the script: the study is gone, or the receipt is masked.
LEMMA LookForReceiptKeeps == ASSUME SInv, NEW c \in Caller, LookForReceipt(c) PROVE SInv'
<1> DEFINE there == clearReceipt /\ ~tombstone
           rest == IF there THEN Tail(Tail(ClearPlan)) ELSE Tail(ClearPlan)
           m == there /\ Masked
<1>1. caller[c].does = "clears" /\ caller[c].plan # <<>> /\ Head(caller[c].plan).does = "look" /\ UNCHANGED sampleRows
  BY DEF LookForReceipt, Doing
<1>2. caller \in [Caller -> Requests] /\ caller[c].owes \in BOOLEAN /\ caller[c].plan = ClearPlan
  BY <1>1, DoingClear, CommandsDiffer
<1>3. Ordered(rest) /\ rest \in Seq(ClearCommands \cup Writes) /\ m \in BOOLEAN
  BY OrderedPlans, PlansTyped DEF Masked
<1>4. caller' = [caller EXCEPT ![c] = [@ EXCEPT !.does = "clears", !.plan = rest, !.owes = caller[c].owes, !.masked = m]]
  <2>1. caller' = [caller EXCEPT ![c].plan = rest, ![c].masked = m]
    BY <1>1, <1>2 DEF LookForReceipt
  <2> HIDE DEF rest, m
  <2> QED BY <1>1, <1>2, <2>1 DEF Requests
<1> HIDE DEF rest, m
<1>5. /\ OnlyRequest(c) /\ caller'[c].does = "clears" /\ caller'[c].plan = rest /\ caller'[c].owes = caller[c].owes
      /\ caller'[c].told = caller[c].told /\ caller'[c].masked = m
  BY <1>2, <1>3, <1>4, CallerAdvances
<1>6. there /\ ~Masked => StudyGone
  BY ReceiptSpeaks
<1>7. ASSUME ~(there /\ Masked), NEW k \in ClearCommands \ Left(rest)
      PROVE  Gone(k)'
  <2>1. k = Look \/ (there /\ k = Purge)
    BY <1>7, OrderedPlans DEF rest
  <2>2. StudyGone => StudyGone'
    BY <1>1 DEF StudyGone, sampleRows
  <2> QED BY <1>6, <1>7, <2>1, <2>2, CommandsDiffer DEF Gone
<1>8. Forget \in Left(rest)
  BY OrderedPlans, CommandsDiffer DEF rest, ClearCommands
<1>9. RequestKept(c)
  BY <1>1, <1>3, <1>5, <1>7, <1>8 DEF m, RequestKept, SInv, ReceiptOwed
<1> QED BY <1>1, <1>5, <1>9, StepKeeps DEF SInv, Shape, JoinersHeld, ReceiptOwed, OnlyRequest, sampleRows

\* The script answers from a receipt, or its answer is lost.
LEMMA PurgeAnswersKeeps == ASSUME SInv, NEW c \in Caller, PurgeAnswers(c) PROVE SInv'
<1> DEFINE rest == Tail(Tail(ClearPlan))
           m == caller[c].masked \/ Masked
<1>1. caller[c].does = "clears" /\ caller[c].plan # <<>> /\ Head(caller[c].plan).does = "purge" /\ UNCHANGED sampleRows
  BY DEF PurgeAnswers, Doing
<1>2. /\ caller \in [Caller -> Requests] /\ caller[c].owes \in BOOLEAN /\ caller[c].masked \in BOOLEAN
      /\ caller[c].plan = Tail(ClearPlan)
  BY <1>1, DoingClear, CommandsDiffer
<1>3. CASE clearReceipt
  <2>1. Ordered(rest) /\ rest \in Seq(ClearCommands \cup Writes) /\ m \in BOOLEAN
    BY <1>2, OrderedPlans, PlansTyped DEF Masked
  <2>2. caller' = [caller EXCEPT ![c] = [@ EXCEPT !.does = "clears", !.plan = rest, !.owes = caller[c].owes, !.masked = m]]
    <3>1. caller' = [caller EXCEPT ![c].plan = rest, ![c].masked = m]
      BY <1>2, <1>3 DEF PurgeAnswers
    <3> HIDE DEF rest, m
    <3> QED BY <1>1, <1>2, <3>1 DEF Requests
  <2>3. /\ OnlyRequest(c) /\ caller'[c].does = "clears" /\ caller'[c].plan = rest /\ caller'[c].owes = caller[c].owes
        /\ caller'[c].told = caller[c].told /\ caller'[c].masked = m
    <3> HIDE DEF m
    <3> QED BY <1>2, <2>1, <2>2, CallerAdvances
  <2>4. ASSUME ~m, NEW k \in ClearCommands \ Left(rest)
        PROVE  Gone(k)'
    <3>1. StudyGone'
      BY <1>1, <1>3, <2>4, ReceiptSpeaks DEF StudyGone, sampleRows
    <3>2. k = Look \/ k = Purge
      BY <2>4, OrderedPlans
    <3> QED BY <3>1, <3>2, CommandsDiffer DEF Gone
  <2>5. Forget \in Left(rest)
    BY OrderedPlans, CommandsDiffer DEF ClearCommands
  <2>6. RequestKept(c)
    BY <1>1, <2>1, <2>3, <2>4, <2>5 DEF RequestKept, SInv, ReceiptOwed
  <2> QED BY <1>1, <2>3, <2>6, StepKeeps DEF SInv, Shape, JoinersHeld, ReceiptOwed, OnlyRequest, sampleRows
<1>4. CASE ~clearReceipt
  <2>1. OnlyRequest(c) /\ RequestKept(c)
    BY <1>4, EndsKeeps DEF PurgeAnswers
  <2> QED BY <1>1, <1>4, <2>1, StepKeeps DEF SInv, Shape, JoinersHeld, sampleRows
<1> QED BY <1>3, <1>4

\* The script deletes the study, or is cut; the clear that ran it owes the removal of the receipt.
LEMMA PurgeStudyKeeps == ASSUME SInv, NEW c \in Caller, NEW cut \in BOOLEAN, PurgeStudy(c, cut) PROVE SInv'
<1> DEFINE rest == Tail(Tail(ClearPlan))
<1>1. /\ caller[c].does = "clears" /\ caller[c].plan # <<>> /\ Head(caller[c].plan).does = "purge" /\ ~clearReceipt
      /\ joining = {} /\ joining' = {} /\ bodies' = bodies \ inStudy /\ inAll' = inAll \ inStudy /\ inStudy' = {}
      /\ tombstone' = cut /\ clearReceipt' = ~cut /\ present' = (present /\ cut) /\ inList' = (inList /\ cut)
  BY DEF PurgeStudy, Doing
<1>2. /\ caller \in [Caller -> Requests] /\ caller[c].owes \in BOOLEAN /\ caller[c].masked \in BOOLEAN
      /\ caller[c].plan = Tail(ClearPlan) /\ Left(caller[c].plan) = ClearCommands \ {Look}
  BY <1>1, DoingClear, CommandsDiffer, OrderedPlans
<1>3. (JoinersHeld)'
  BY <1>1 DEF SInv, JoinersHeld
<1>4. CASE cut
  <2>1. OnlyRequest(c) /\ RequestKept(c)
    BY <1>4, EndsKeeps DEF PurgeStudy
  <2> QED BY <1>1, <1>3, <1>4, <2>1, StepKeeps DEF SInv, Shape
<1>5. CASE ~cut
  <2>1. Ordered(rest) /\ rest \in Seq(ClearCommands \cup Writes)
    BY OrderedPlans, PlansTyped
  <2>2. caller' = [caller EXCEPT ![c] = [@ EXCEPT !.does = "clears", !.plan = rest, !.owes = TRUE, !.masked = caller[c].masked]]
    <3>1. caller' = [caller EXCEPT ![c].plan = rest, ![c].owes = TRUE]
      BY <1>2, <1>5 DEF PurgeStudy
    <3> HIDE DEF rest
    <3> QED BY <1>1, <1>2, <3>1 DEF Requests
  <2>3. /\ OnlyRequest(c) /\ caller'[c].does = "clears" /\ caller'[c].plan = rest /\ caller'[c].owes
        /\ caller'[c].told = caller[c].told
    BY <1>2, <2>1, <2>2, CallerAdvances
  <2>4. ASSUME NEW k \in ClearCommands \ Left(rest)
        PROVE  Gone(k)'
    <3>1. StudyGone'
      BY <1>1, <1>5 DEF StudyGone
    <3>2. k = Look \/ k = Purge
      BY OrderedPlans
    <3> QED BY <3>1, <3>2, CommandsDiffer DEF Gone
  <2>5. Forget \in Left(rest)
    BY OrderedPlans, CommandsDiffer DEF ClearCommands
  <2>6. RequestKept(c)
    BY <1>1, <2>1, <2>3, <2>4, <2>5 DEF RequestKept, SInv, ReceiptOwed
  <2>7. caller[c].told # "cleared"
    BY <1>1 DEF SInv, ReceiptOwed
  <2> QED BY <1>1, <1>3, <1>5, <2>3, <2>6, <2>7, StepKeeps DEF SInv, Shape
<1> QED BY <1>4, <1>5

\* The receipt goes, and nobody owes it any more.
LEMMA ForgetReceiptKeeps == ASSUME SInv, NEW c \in Caller, ForgetReceipt(c) PROVE SInv'
<1> DEFINE P == Seq(ClearCommands \cup Writes)
<1>1. /\ caller[c].does = "clears" /\ caller[c].plan # <<>> /\ Head(caller[c].plan).does = "forget" /\ clearReceipt' = FALSE
      /\ UNCHANGED <<present, inList, tombstone, bodies, inStudy, inAll, joining>>
  BY DEF ForgetReceipt, Doing
<1>2. /\ caller \in [Caller -> Requests] /\ Head(caller[c].plan) = Forget /\ Tail(caller[c].plan) \in P
      /\ Ordered(Tail(caller[c].plan)) /\ Left(caller[c].plan) = {Forget} \cup Left(Tail(caller[c].plan))
  BY <1>1, DoingClear, CommandsDiffer
<1>3. \A d \in Caller : /\ caller'[d].does = caller[d].does /\ caller'[d].told = caller[d].told /\ ~caller'[d].owes
                         /\ caller'[d].masked = caller[d].masked /\ caller'[d].disturbed = caller[d].disturbed
                         /\ caller'[d].plan = IF d = c THEN Tail(caller[c].plan) ELSE caller[d].plan
  BY <1>2 DEF ForgetReceipt, Requests
<1> HIDE DEF P
<1>4. caller' \in [Caller -> Requests]
  BY <1>2 DEF ForgetReceipt, Requests, P
<1>5. Shape'
  BY <1>1, <1>4 DEF SInv, Shape
<1>6. PlansOrdered'
  BY <1>1, <1>2, <1>3 DEF SInv, PlansOrdered
<1>7. JoinersHeld' /\ ReceiptOwed'
  BY <1>1, <1>3 DEF SInv, JoinersHeld, ReceiptOwed
<1>8. \A k : Gone(k)' <=> Gone(k)
  BY <1>1 DEF Gone, StudyGone
<1>9. Gone(Forget)
  BY CommandsDiffer DEF Gone
<1>10. Progress'
  BY <1>2, <1>3, <1>8, <1>9 DEF SInv, Progress
<1> QED BY <1>5, <1>6, <1>7, <1>10 DEF SInv

\* One record of an interview goes.
LEMMA RemoveInterviewKeeps == ASSUME SInv, NEW c \in Caller, RemoveInterview(c) PROVE SInv'
<1> DEFINE k == Head(caller[c].plan)
           rest == Tail(caller[c].plan)
<1>1. /\ caller[c].does = "clears" /\ caller[c].plan # <<>> /\ k.of # TheStudy
      /\ bodies' = IF k.does = "body" THEN bodies \ {k.of} ELSE bodies
      /\ inStudy' = IF k.does = "member" THEN inStudy \ {k.of} ELSE inStudy
      /\ inAll' = IF k.does = "everyone" THEN inAll \ {k.of} ELSE inAll
      /\ Advanced(c) /\ UNCHANGED <<present, inList, clearReceipt, tombstone, joining>>
  BY DEF RemoveInterview
<1>2. /\ caller \in [Caller -> Requests] /\ caller[c].owes \in BOOLEAN /\ caller[c].masked \in BOOLEAN
      /\ k \in ClearCommands /\ rest \in Seq(ClearCommands \cup Writes) /\ Ordered(rest)
      /\ Left(caller[c].plan) = {k} \cup Left(rest)
  BY <1>1, DoingClear
<1>3. k \in Removals
  BY <1>1, <1>2, CommandsDiffer
<1>4. k.of \in Fixture
  BY <1>3 DEF Removals, EachOf, Command
<1>5. k # Forget /\ k # Purge
  BY <1>3, CommandsDiffer
<1>6. caller' = [caller EXCEPT ![c] = [@ EXCEPT !.does = "clears", !.plan = rest, !.owes = caller[c].owes, !.masked = caller[c].masked]]
  BY <1>1, <1>2 DEF Advanced, Requests
<1>7. /\ OnlyRequest(c) /\ caller'[c].does = "clears" /\ caller'[c].plan = rest /\ caller'[c].owes = caller[c].owes
      /\ caller'[c].told = caller[c].told /\ caller'[c].masked = caller[c].masked /\ caller'[c].disturbed = caller[c].disturbed
  BY <1>2, <1>6, CallerAdvances
<1>8. \A j : Gone(j) => Gone(j)'
  BY <1>1 DEF Gone, StudyGone
<1>9. ASSUME NEW j, j = k PROVE Gone(j)'
  BY <1>1, <1>5, <1>9 DEF Gone
<1>10. RequestKept(c)
  <2>1. Forget \in Left(caller[c].plan) => Forget \in Left(rest)
    BY <1>2, <1>5
  <2>2. ASSUME ~caller[c].masked, ~caller[c].disturbed, NEW j \in ClearCommands \ Left(rest)
        PROVE  Gone(j)'
    <3> HIDE DEF k, rest
    <3> QED BY <1>1, <1>2, <1>8, <1>9, <2>2 DEF SInv, Progress
  <2> HIDE DEF k, rest
  <2> QED BY <1>1, <1>2, <1>7, <2>1, <2>2 DEF SInv, ReceiptOwed, RequestKept
<1>11. JoinersHeld'
  BY <1>1, <1>4, SampleAssumption DEF SInv, JoinersHeld
<1> QED BY <1>1, <1>7, <1>10, <1>11, StepKeeps DEF SInv, Shape, ReceiptOwed, OnlyRequest

\* A clear with no command left has done every one.
LEMMA EndClearKeeps == ASSUME SInv, NEW c \in Caller, EndClear(c) PROVE SInv'
<1>1. caller[c].does = "clears" /\ caller[c].plan = <<>> /\ Ends(c, "cleared") /\ UNCHANGED sampleRows
  BY DEF EndClear
<1>2. OnlyRequest(c) /\ RequestKept(c)
  BY <1>1, EndsKeeps
<1>3. ~caller[c].owes
  BY <1>1, LeftOfNone DEF SInv, ReceiptOwed
<1>4. clearReceipt => \E d \in Caller \ {c} : caller[d].owes /\ caller[d].told # "cleared"
  BY <1>3 DEF SInv, ReceiptOwed
<1> QED BY <1>1, <1>2, <1>4, StepKeeps DEF SInv, Shape, JoinersHeld, OnlyRequest, sampleRows

\* A load that is through, or a request that dies, promises nothing.
LEMMA StopKeeps == ASSUME SInv, NEW c \in Caller, EndLoad(c) \/ Interrupted(c) PROVE SInv'
<1>1. PICK reply \in {"seeded", "ambiguous"} : Ends(c, reply)
  BY DEF EndLoad, Interrupted
<1>2. OnlyRequest(c) /\ RequestKept(c) /\ caller'[c] = [caller[c] EXCEPT !.does = "ended", !.plan = <<>>, !.told = reply]
  BY <1>1, EndsKeeps
<1>3. caller[c] \in Requests /\ UNCHANGED sampleRows
  BY DEF SInv, Shape, EndLoad, Interrupted
<1>4. caller'[c].owes = caller[c].owes /\ caller'[c].told # "cleared"
  BY <1>2, <1>3 DEF Requests
<1> QED BY <1>2, <1>3, <1>4, StepKeeps DEF SInv, Shape, JoinersHeld, ReceiptOwed, OnlyRequest, sampleRows

\* Going on with the next record leaves writes.
LEMMA NextRecordIs ==
  ASSUME NEW plan \in Seq(Writes), plan # <<>>
  PROVE  NextRecord(plan) \in Seq(Writes)
<1> DEFINE W == Writes
           T == {n \in 2..Len(plan) + 1 : n <= Len(plan) => plan[n].of # Head(plan).of}
<1>1. Len(plan) \in Nat \ {0} /\ plan \in Seq(W)
  OBVIOUS
<1>2. Len(plan) + 1 \in T /\ T \subseteq Nat
  BY <1>1
<1>3. \E m \in T : \A n \in T : m <= n
  <2> HIDE DEF T
  <2> QED BY <1>2, LeastNumber
<1>4. Min(T) \in T
  BY <1>3 DEF Min
<1>5. Min(T) \in 2..Len(plan) + 1
  BY <1>4
<1> HIDE DEF W, T
<1>6. SubSeq(plan, Min(T), Len(plan)) \in Seq(W)
  BY <1>1, <1>5, SubSeqProperties
<1> QED BY <1>6 DEF NextRecord, T, W

\* A load writes, and hears of it or not.
LEMMA LoadStepKeeps == ASSUME SInv, NEW c \in Caller, NEW done \in BOOLEAN, NEW heard \in BOOLEAN, LoadStep(c, done, heard) PROVE SInv'
<1> DEFINE k == Head(caller[c].plan)
           rest == IF heard THEN Tail(caller[c].plan) ELSE NextRecord(caller[c].plan)
           P == Seq(ClearCommands \cup Writes)
<1>1. /\ caller[c].does = "loads" /\ caller[c].plan # <<>> /\ (IF done THEN Loads(k) ELSE UNCHANGED sampleRows)
      /\ Disturbs(c, [caller[c] EXCEPT !.plan = rest])
  BY DEF LoadStep
<1>2. caller \in [Caller -> Requests] /\ caller[c].plan \in Seq(Writes)
  BY <1>1 DEF SInv, Shape, PlansOrdered
<1>3. k \in Writes /\ rest \in Seq(Writes) /\ rest \in P
  BY <1>1, <1>2, LeftOfTail, NextRecordIs, PlansTyped
<1> HIDE DEF rest, P
<1>4. \A d \in Caller : /\ caller'[d].does = caller[d].does /\ caller'[d].told = caller[d].told /\ caller'[d].owes = caller[d].owes
                         /\ (caller[d].does = "clears" => caller'[d].disturbed)
                         /\ caller'[d].plan = IF d = c THEN rest ELSE caller[d].plan
  BY <1>1, <1>2 DEF Disturbs, Requests
<1>5. caller' \in [Caller -> Requests]
  <2>1. Requests = [does: {"idle", "loads", "clears", "ended"}, plan: P,
                    told: {"nothing", "already-seeded", "seeded", "cleared", "ambiguous"},
                    owes: BOOLEAN, masked: BOOLEAN, disturbed: BOOLEAN]
    BY DEF Requests, P
  <2>2. caller' = [d \in Caller |-> IF d = c THEN [caller[c] EXCEPT !.plan = rest]
                                   ELSE [caller[d] EXCEPT !.disturbed = @ \/ caller[d].does = "clears"]]
    BY <1>1 DEF Disturbs
  <2>3. [caller[c] EXCEPT !.plan = rest] \in Requests
    BY <1>2, <1>3, <2>1
  <2>4. ASSUME NEW d \in Caller
        PROVE  [caller[d] EXCEPT !.disturbed = @ \/ caller[d].does = "clears"] \in Requests
    <3>1. caller[d] \in Requests /\ (caller[d].disturbed \/ caller[d].does = "clears") \in BOOLEAN
      BY <1>2
    <3> QED BY <2>1, <3>1
  <2>5. \A d \in Caller : (IF d = c THEN [caller[c] EXCEPT !.plan = rest]
                           ELSE [caller[d] EXCEPT !.disturbed = @ \/ caller[d].does = "clears"]) \in Requests
    BY <2>3, <2>4
  <2> QED BY <2>2, <2>5
<1>6. /\ present' \in BOOLEAN /\ inList' \in BOOLEAN /\ (present => present') /\ joining' = joining
      /\ UNCHANGED <<clearReceipt, tombstone>>
      /\ \E B, M, E \in SUBSET Fixture : bodies' = bodies \cup B /\ inStudy' = inStudy \cup M /\ inAll' = inAll \cup E
  <2>1. CASE ~done
    <3>1. {} \in SUBSET Fixture /\ bodies' = bodies \cup {} /\ inStudy' = inStudy \cup {} /\ inAll' = inAll \cup {}
      BY <1>1, <2>1 DEF sampleRows
    <3>2. /\ present' \in BOOLEAN /\ inList' \in BOOLEAN /\ (present => present') /\ joining' = joining
          /\ UNCHANGED <<clearReceipt, tombstone>>
      BY <1>1, <2>1 DEF sampleRows, SInv, Shape
    <3> QED BY <3>1, <3>2
  <2>2. CASE done
    <3> DEFINE B == {k.of : x \in {k.does} \cap {"set"}} \ {TheStudy}
               M == {k.of : x \in {k.does} \cap {"member"}}
               E == {k.of : x \in {k.does} \cap {"everyone"}}
    <3>1. (k.does \in {"member", "everyone"} => k.of \in Fixture) /\ (k.of = TheStudy \/ k.of \in Fixture)
      BY <1>3 DEF Writes, EachOf, Command
    <3>2. B \in SUBSET Fixture /\ M \in SUBSET Fixture /\ E \in SUBSET Fixture
      BY <3>1
    <3>3. bodies' = bodies \cup B /\ inStudy' = inStudy \cup M /\ inAll' = inAll \cup E
      BY <1>1, <2>2 DEF Loads
    <3>4. /\ present' \in BOOLEAN /\ inList' \in BOOLEAN /\ (present => present') /\ joining' = joining
          /\ UNCHANGED <<clearReceipt, tombstone>>
      BY <1>1, <2>2 DEF Loads, SInv, Shape
    <3> HIDE DEF B, M, E
    <3> QED BY <3>2, <3>3, <3>4
  <2> QED BY <2>1, <2>2
<1>7. Shape'
  BY <1>5, <1>6 DEF SInv, Shape
<1>8. PlansOrdered'
  BY <1>1, <1>3, <1>4 DEF SInv, PlansOrdered
<1>9. JoinersHeld'
  BY <1>6, SampleAssumption DEF SInv, JoinersHeld
<1>10. ReceiptOwed'
  BY <1>1, <1>4, <1>6 DEF SInv, ReceiptOwed
<1>11. Progress'
  BY <1>4 DEF Progress
<1> QED BY <1>7, <1>8, <1>9, <1>10, <1>11 DEF SInv

\* A participant joins the sample study.
LEMMA JoinSampleKeeps == ASSUME SInv, NEW i \in Joiner, JoinSample(i) PROVE SInv'
<1>1. /\ present /\ bodies' = bodies \cup {i} /\ joining' = joining \cup {i}
      /\ UNCHANGED <<present, inList, clearReceipt, tombstone, inStudy, inAll, caller>>
  BY DEF JoinSample
<1>2. Shape' /\ PlansOrdered' /\ JoinersHeld' /\ ReceiptOwed'
  BY <1>1 DEF SInv, Shape, PlansOrdered, JoinersHeld, ReceiptOwed
<1>3. \A k \in Removals : k.of \in Fixture
  BY DEF Removals, EachOf, Command
<1>4. \A k : Gone(k) => Gone(k)'
  BY <1>1, <1>3, SampleAssumption DEF Gone, StudyGone
<1>5. Progress'
  BY <1>1, <1>4 DEF SInv, Progress
<1> QED BY <1>2, <1>5 DEF SInv

\* A participant's interview is stored.
LEMMA FinishJoiningKeeps == ASSUME SInv, NEW i \in Joiner, FinishJoining(i) PROVE SInv'
<1>1. /\ i \in joining /\ joining' = joining \ {i} /\ inStudy' = inStudy \cup {i} /\ inAll' = inAll \cup {i}
      /\ UNCHANGED <<present, inList, clearReceipt, tombstone, bodies, caller>>
  BY DEF FinishJoining
<1>2. Shape' /\ PlansOrdered' /\ JoinersHeld' /\ ReceiptOwed'
  BY <1>1 DEF SInv, Shape, PlansOrdered, JoinersHeld, ReceiptOwed
<1>3. \A k \in Removals : k.of \in Fixture
  BY DEF Removals, EachOf, Command
<1>4. present
  BY <1>1 DEF SInv, JoinersHeld
<1>5. \A k : Gone(k) => Gone(k)'
  BY <1>1, <1>3, <1>4, SampleAssumption DEF Gone, StudyGone
<1>6. Progress'
  BY <1>1, <1>5 DEF SInv, Progress
<1> QED BY <1>2, <1>6 DEF SInv

\* Every step keeps the invariant.
LEMMA SInvNext == SInv /\ [SampleNext]_sample => SInv'
<1> SUFFICES ASSUME SInv, [SampleNext]_sample PROVE SInv'
  OBVIOUS
<1>1. ASSUME NEW c \in Caller,
             \/ BeginLoad(c) \/ EndLoad(c) \/ BeginClear(c) \/ LookForReceipt(c) \/ PurgeAnswers(c)
             \/ \E done, heard \in BOOLEAN : LoadStep(c, done, heard)
             \/ \E cut \in BOOLEAN : PurgeStudy(c, cut)
             \/ ForgetReceipt(c) \/ RemoveInterview(c) \/ EndClear(c) \/ Interrupted(c)
      PROVE  SInv'
  BY <1>1, BeginLoadKeeps, StopKeeps, BeginClearKeeps, LookForReceiptKeeps, PurgeAnswersKeeps, LoadStepKeeps, PurgeStudyKeeps,
     ForgetReceiptKeeps, RemoveInterviewKeeps, EndClearKeeps
<1>2. ASSUME NEW i \in Joiner, JoinSample(i) \/ FinishJoining(i) PROVE SInv'
  BY <1>2, JoinSampleKeeps, FinishJoiningKeeps
<1>3. CASE UNCHANGED sample
  <2>1. UNCHANGED <<present, inList, clearReceipt, tombstone, bodies, inStudy, inAll, joining, caller>>
    BY <1>3 DEF sample, sampleRows
  <2>2. Shape' /\ PlansOrdered' /\ JoinersHeld' /\ ReceiptOwed'
    BY <2>1 DEF SInv, Shape, PlansOrdered, JoinersHeld, ReceiptOwed
  <2>3. \A k : Gone(k) => Gone(k)'
    BY <2>1 DEF Gone, StudyGone
  <2>4. Progress'
    BY <2>1, <2>3 DEF SInv, Progress
  <2> QED BY <2>2, <2>4 DEF SInv
<1> QED BY <1>1, <1>2, <1>3 DEF SampleNext

\* It always holds.
LEMMA SInvAlways == SampleSpec => []SInv
BY SInvInit, SInvNext, PTL DEF SampleSpec

\* The type invariant, for every sample, every set of participants and of
\* requests.
THEOREM SampleTyped == SampleSpec => []SampleTypeOK
<1>1. SInv => SampleTypeOK
  BY DEF SInv, Shape, SampleTypeOK, Requests
<1> QED BY <1>1, SInvAlways, PTL

\* Only the end of a clear tells that it is cleared.
LEMMA ClearedIsSaid ==
  ASSUME SInv, SampleNext, NEW c \in Caller, caller[c].told = "nothing", caller'[c].told = "cleared"
  PROVE  EndClear(c)
<1>1. caller \in [Caller -> Requests]
  BY DEF SInv, Shape
<1>2. ASSUME NEW d \in Caller, NEW reply \in {"already-seeded", "seeded", "ambiguous"}, Ends(d, reply) PROVE caller'[c].told # "cleared"
  BY <1>1, <1>2 DEF Ends, Requests
<1>3. ASSUME NEW d \in Caller, d # c, Ends(d, "cleared") PROVE caller'[c].told # "cleared"
  BY <1>1, <1>3 DEF Ends, Requests
<1>4. ASSUME NEW d \in Caller, BeginLoad(d) \/ EndLoad(d) \/ BeginClear(d) \/ Interrupted(d) PROVE FALSE
  BY <1>1, <1>2, <1>4 DEF BeginLoad, EndLoad, BeginClear, Interrupted, Requests
<1>5. ASSUME NEW d \in Caller, LookForReceipt(d) \/ PurgeAnswers(d) PROVE FALSE
  <2>1. ASSUME NEW p, NEW m, caller' = [caller EXCEPT ![d].plan = p, ![d].masked = m] PROVE FALSE
    BY <1>1, <2>1 DEF Requests
  <2>2. ~Ends(d, "ambiguous")
    BY <1>2
  <2>3. CASE LookForReceipt(d)
    BY <2>1, <2>3 DEF LookForReceipt
  <2>4. CASE PurgeAnswers(d)
    BY <2>1, <2>2, <2>4 DEF PurgeAnswers
  <2> QED BY <1>5, <2>3, <2>4
<1>6. ASSUME NEW d \in Caller, NEW done \in BOOLEAN, NEW heard \in BOOLEAN, LoadStep(d, done, heard) PROVE FALSE
  BY <1>1, <1>6 DEF LoadStep, Disturbs, Requests
<1>7. ASSUME NEW d \in Caller, NEW cut \in BOOLEAN, PurgeStudy(d, cut) PROVE FALSE
  BY <1>1, <1>2, <1>7 DEF PurgeStudy, Requests
<1>8. ASSUME NEW d \in Caller, ForgetReceipt(d) \/ RemoveInterview(d) PROVE FALSE
  <2>1. CASE ForgetReceipt(d)
    BY <1>1, <2>1 DEF ForgetReceipt, Requests
  <2>2. CASE RemoveInterview(d)
    <3>1. caller' = [caller EXCEPT ![d].plan = Tail(@)]
      BY <2>2 DEF RemoveInterview, Advanced
    <3> QED BY <1>1, <3>1 DEF Requests
  <2> QED BY <1>8, <2>1, <2>2
<1>9. ASSUME NEW i \in Joiner, JoinSample(i) \/ FinishJoining(i) PROVE FALSE
  BY <1>9 DEF JoinSample, FinishJoining
<1>10. PICK d \in Caller : EndClear(d)
  BY <1>4, <1>5, <1>6, <1>7, <1>8, <1>9 DEF SampleNext
<1> QED BY <1>3, <1>10 DEF EndClear

\* A clear that says it cleared, with no load writing meanwhile and no receipt
\* of another's answering for the study, has left nothing of the sample.
THEOREM ClearsTruly == SampleSpec => ClearedIsGone
<1> DEFINE A == \A c \in Caller : caller[c].told = "nothing" /\ caller'[c].told = "cleared" /\ ~caller[c].masked /\ ~caller[c].disturbed =>
                  ~present /\ ~inList /\ bodies \cup inStudy \cup inAll \cup joining = {}
<1>1. SInv /\ [SampleNext]_sample => [A]_sample
  <2> SUFFICES ASSUME SInv, SampleNext, NEW c \in Caller,
                      caller[c].told = "nothing", caller'[c].told = "cleared", ~caller[c].masked, ~caller[c].disturbed
               PROVE  ~present /\ ~inList /\ bodies \cup inStudy \cup inAll \cup joining = {}
    OBVIOUS
  <2>1. caller[c].does = "clears" /\ Left(caller[c].plan) = {}
    BY ClearedIsSaid, LeftOfNone DEF EndClear
  <2>2. \A k \in ClearCommands : Gone(k)
    BY <2>1 DEF SInv, Progress
  <2>3. StudyGone
    BY <2>2 DEF Gone, ClearCommands
  <2>4. ASSUME NEW i \in Fixture PROVE i \notin bodies /\ i \notin inStudy /\ i \notin inAll
    <3>1. /\ Command("body", i) \in Removals /\ Command("member", i) \in Removals /\ Command("everyone", i) \in Removals
      BY DEF Removals, EachOf
    <3>2. Gone(Command("body", i)) /\ Gone(Command("member", i)) /\ Gone(Command("everyone", i))
      BY <2>2, <3>1 DEF ClearCommands
    <3> QED BY <3>1, <3>2 DEF Gone, Command
  <2> QED BY <2>3, <2>4 DEF SInv, Shape, JoinersHeld, StudyGone
<1>2. SampleSpec => [][A]_sample
  BY <1>1, SInvAlways, PTL DEF SampleSpec
<1> QED BY <1>2 DEF ClearedIsGone
=============================================================================
