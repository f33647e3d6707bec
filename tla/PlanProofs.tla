------------------------------ MODULE PlanProofs ------------------------------
(***************************************************************************)
(* What a plan does to a target, for every history of the source cluster.  *)
(*                                                                         *)
(* From the bottom up: lists; folds, which take a list one element after   *)
(* the other; what a ledger takes of a batch; the lists of a plan; sums;   *)
(* transfers taken one piece after the other; what the synthetic transfers *)
(* of a plan give to each of its accounts; and what its accounts are.      *)
(* Then MigrationPlanning's plans of data files: what the source's         *)
(* balances say of its history (IsSource); the cutoff, reached from both   *)
(* ends; the window; the genesis accounts; and the theorems.               *)
(***************************************************************************)
EXTENDS MigrationPlanning, Induction, TLAPS

-----------------------------------------------------------------------------
(***************************************************************************)
(* Lists: sequences of whatever is in them.                                *)
(***************************************************************************)

IsList(s) == s \in Seq(Range(s))

LEMMA ListOf ==
  ASSUME NEW n \in Nat, NEW s, s = [i \in 1..n |-> s[i]]
  PROVE  IsList(s) /\ Len(s) = n
<1>1. s \in [1..n -> Range(s)]
  BY DEF Range
<1> QED
  BY <1>1 DEF IsList

LEMMA ListParts ==
  ASSUME NEW s, IsList(s)
  PROVE  /\ Len(s) \in Nat /\ DOMAIN s = 1..Len(s) /\ s = [i \in 1..Len(s) |-> s[i]]
         /\ \A x : x \in Range(s) <=> \E i \in 1..Len(s) : x = s[i]
         /\ \A i \in 1..Len(s) : s[i] \in Range(s)
  BY DEF IsList, Range

LEMMA Listed ==
  ASSUME NEW S, NEW q \in Seq(S)
  PROVE  IsList(q) /\ Range(q) \subseteq S
<1>1. q = [i \in 1..Len(q) |-> q[i]] /\ Len(q) \in Nat
  OBVIOUS
<1>2. IsList(q)
  BY <1>1, ListOf
<1>3. \A i \in 1..Len(q) : q[i] \in S
  OBVIOUS
<1> QED
  BY <1>2, <1>3, ListParts

LEMMA Joined ==
  ASSUME NEW s, NEW t, IsList(s), IsList(t)
  PROVE  IsList(s \o t) /\ Range(s \o t) = Range(s) \cup Range(t) /\ Len(s \o t) = Len(s) + Len(t)
<1> DEFINE S == Range(s) \cup Range(t)
<1>1. s \in Seq(S) /\ t \in Seq(S)
  BY DEF IsList
<1> HIDE DEF S
<1>2. /\ s \o t \in Seq(S) /\ Len(s \o t) = Len(s) + Len(t) /\ Len(s) \in Nat /\ Len(t) \in Nat
      /\ \A i \in 1..(Len(s) + Len(t)) : (s \o t)[i] = IF i <= Len(s) THEN s[i] ELSE t[i - Len(s)]
  BY <1>1
<1>q. PICK q : q = s \o t
  OBVIOUS
<1>4. IsList(q) /\ Len(q) = Len(s) + Len(t) /\ Range(q) \subseteq S
  BY <1>q, <1>2, Listed
<1>5. Range(q) \subseteq Range(s) \cup Range(t)
  BY <1>4 DEF S
<1>6. ASSUME NEW x \in Range(s) PROVE x \in Range(q)
  <2>1. PICK i \in 1..Len(s) : x = s[i]
    BY ListParts
  <2>2. i \in 1..(Len(s) + Len(t)) /\ q[i] = x
    BY <1>q, <1>2, <2>1
  <2> QED
    BY <1>q, <1>4, <2>2, ListParts
<1>7. ASSUME NEW x \in Range(t) PROVE x \in Range(q)
  <2>1. PICK i \in 1..Len(t) : x = t[i]
    BY ListParts
  <2>2. i + Len(s) \in 1..(Len(s) + Len(t)) /\ q[i + Len(s)] = x
    BY <1>q, <1>2, <2>1
  <2> QED
    BY <1>q, <1>4, <2>2, ListParts
<1> QED
  BY <1>q, <1>4, <1>5, <1>6, <1>7

LEMMA Appended ==
  ASSUME NEW s, NEW x, IsList(s)
  PROVE  /\ IsList(Append(s, x)) /\ Range(Append(s, x)) = Range(s) \cup {x}
         /\ Len(Append(s, x)) = Len(s) + 1
         /\ \A i \in 1..Len(s) : Append(s, x)[i] = s[i]
         /\ Append(s, x)[Len(s) + 1] = x
<1> DEFINE S == Range(s) \cup {x}
<1>1. s \in Seq(S) /\ x \in S
  BY DEF IsList
<1> HIDE DEF S
<1>2. /\ Append(s, x) \in Seq(S) /\ Len(Append(s, x)) = Len(s) + 1 /\ Len(s) \in Nat
      /\ \A i \in 1..Len(s) : Append(s, x)[i] = s[i]
      /\ Append(s, x)[Len(s) + 1] = x
  BY <1>1
<1>q. PICK q : q = Append(s, x)
  OBVIOUS
<1>4. IsList(q) /\ Len(q) = Len(s) + 1
  BY <1>q, <1>2, Listed
<1>5. \A i \in 1..(Len(s) + 1) : i \in 1..Len(s) \/ i = Len(s) + 1
  BY <1>q, <1>2
<1>6. Range(q) = Range(s) \cup {x}
  <2>1. /\ \A y : y \in Range(q) <=> \E i \in 1..(Len(s) + 1) : y = q[i]
        /\ \A y : y \in Range(s) <=> \E i \in 1..Len(s) : y = s[i]
    <3>1. \A y : y \in Range(q) <=> \E i \in 1..Len(q) : y = q[i]
      BY <1>4, ListParts
    <3> QED
      BY <1>4, <3>1, ListParts
  <2>2. \A i \in 1..Len(s) : i \in 1..(Len(s) + 1)
    BY <1>q, <1>2
  <2>3. Len(s) + 1 \in 1..(Len(s) + 1)
    BY <1>q, <1>2
  <2> QED
    BY <1>q, <1>2, <1>5, <2>1, <2>2, <2>3
<1> QED
  BY <1>q, <1>2, <1>4, <1>6

LEMMA FirstAndRest ==
  ASSUME NEW s, IsList(s), s # <<>>
  PROVE  IsList(Tail(s)) /\ Range(s) = {Head(s)} \cup Range(Tail(s)) /\ Head(s) \in Range(s)
<1>1. Len(s) \in Nat \ {0}
  BY DEF IsList
<1>2. /\ Head(s) = s[1] /\ Len(Tail(s)) = Len(s) - 1 /\ Tail(s) \in Seq(Range(s))
      /\ \A i \in 1..(Len(s) - 1) : Tail(s)[i] = s[i + 1]
  BY <1>1 DEF IsList
<1>q. PICK q : q = Tail(s)
  OBVIOUS
<1>4. IsList(q) /\ Len(q) = Len(s) - 1 /\ Range(q) \subseteq Range(s)
  BY <1>q, <1>2, Listed
<1>5. /\ \A y : y \in Range(s) <=> \E i \in 1..Len(s) : y = s[i]
      /\ \A i \in 1..(Len(s) - 1) : q[i] \in Range(q)
  <2>1. \A i \in 1..Len(q) : q[i] \in Range(q)
    BY <1>4, ListParts
  <2> QED
    BY <1>4, <2>1, ListParts
<1>6. 1 \in 1..Len(s)
  BY <1>1
<1>7. ASSUME NEW x \in Range(s), x # Head(s) PROVE x \in Range(q)
  <2>1. PICK i \in 1..Len(s) : x = s[i]
    BY <1>q, <1>5
  <2>2. i - 1 \in 1..(Len(s) - 1) /\ i - 1 + 1 = i
    BY <1>q, <1>1, <1>2, <1>7, <2>1
  <2> QED
    BY <1>q, <1>2, <1>5, <2>1, <2>2
<1> QED
  BY <1>q, <1>2, <1>4, <1>5, <1>6, <1>7

\* A piece of a list.
LEMMA Piece ==
  ASSUME NEW s, IsList(s), NEW a \in Nat, NEW b \in Nat, 1 <= a, b <= Len(s)
  PROVE  /\ IsList(SubSeq(s, a, b)) /\ \A i \in a..b : s[i] \in Range(SubSeq(s, a, b))
         /\ Range(SubSeq(s, a, b)) \subseteq Range(s)
<1> DEFINE n == IF a <= b THEN b - a + 1 ELSE 0
<1>1. /\ SubSeq(s, a, b) \in Seq(Range(s)) /\ Len(SubSeq(s, a, b)) = n /\ n \in Nat
      /\ \A i \in 1..n : SubSeq(s, a, b)[i] = s[a + i - 1]
  BY DEF IsList
<1>q. PICK q : q = SubSeq(s, a, b)
  OBVIOUS
<1> HIDE DEF n
<1>3. IsList(q) /\ Len(q) = n /\ Range(q) \subseteq Range(s)
  BY <1>q, <1>1, Listed
<1>4. ASSUME NEW i \in a..b PROVE s[i] \in Range(q)
  <2>1. i - a + 1 \in 1..n /\ a + (i - a + 1) - 1 = i
    BY DEF n
  <2> QED
    BY <1>q, <1>1, <1>3, <2>1, ListParts
<1> QED
  BY <1>q, <1>3, <1>4

-----------------------------------------------------------------------------
(***************************************************************************)
(* Folds.                                                                  *)
(***************************************************************************)

LEMMA GreatestOf ==
  ASSUME NEW n \in Nat, NEW t \in SUBSET (1..n), t # {}
  PROVE  Max(t) \in t /\ \A y \in t : y <= Max(t)
<1>1. \E x \in t : \A y \in t : x >= y
  <2>1. PICK x \in t : \A y \in t : y <= x
    BY Greatest
  <2> QED
    BY <2>1
<1>2. Max(t) \in t /\ \A y \in t : Max(t) >= y
  BY <1>1 DEF Max
<1> QED
  BY <1>2

\* The steps of the folds that a migration makes.
Fold(kind, floor, done, x) ==
  CASE kind = "accounts"  -> CreateAccount(done, x)
    [] kind = "transfers" -> CreateTransfer(done, x)
    [] kind = "later"     -> AppendLater(done, x, floor)
    [] kind = "sum"       -> done + x

IsFold(f, places, kind, floor, base, s) ==
  f = [t \in SUBSET places |->
         IF t = {} THEN base ELSE Fold(kind, floor, f[t \ {Max(t)}], s[Max(t)])]

LEMMA FoldExists ==
  ASSUME NEW kind, NEW floor, NEW base, NEW s, NEW N \in Nat
  PROVE  \E f : IsFold(f, 1..N, kind, floor, base, s)
<1> DEFINE Step(f, t) == IF t = {} THEN base
                         ELSE Fold(kind, floor, f[t \ {Max(t)}], s[Max(t)])
           T == {n \in Nat : \E f : f = [t \in SUBSET (1..n) |-> Step(f, t)]}
<1>1. 0 \in T
  <2> DEFINE g == [t \in {{}} |-> base]
  <2>1. SUBSET (1..0) = {{}}
    OBVIOUS
  <2>2. g = [t \in SUBSET (1..0) |-> Step(g, t)]
    BY <2>1
  <2> QED
    BY <2>2
<1>2. ASSUME NEW n \in Nat, n \in T PROVE n + 1 \in T
  <2>1. PICK f : f = [t \in SUBSET (1..n) |-> Step(f, t)]
    BY <1>2
  <2> DEFINE g == [t \in SUBSET (1..(n + 1)) |->
                     IF n + 1 \in t THEN Fold(kind, floor, f[t \ {n + 1}], s[n + 1]) ELSE f[t]]
  <2>2. ASSUME NEW t \in SUBSET (1..(n + 1)), n + 1 \notin t
        PROVE  t \in SUBSET (1..n) /\ g[t] = f[t]
    BY <2>2
  <2>3. ASSUME NEW t \in SUBSET (1..(n + 1)) PROVE g[t] = Step(g, t)
    <3>1. CASE n + 1 \in t
      <4>1. Max(t) = n + 1
        <5>1. n + 1 \in Nat /\ t # {}
          BY <3>1
        <5>2. Max(t) \in 1..(n + 1) /\ n + 1 <= Max(t)
          BY <3>1, <5>1, GreatestOf
        <5> QED
          BY <5>2
      <4>2. t \ {n + 1} \in SUBSET (1..(n + 1)) /\ n + 1 \notin t \ {n + 1}
        OBVIOUS
      <4>3. g[t \ {n + 1}] = f[t \ {n + 1}]
        BY <2>2, <4>2
      <4>4. g[t] = Fold(kind, floor, f[t \ {n + 1}], s[n + 1])
        BY <3>1
      <4> HIDE DEF g
      <4> QED
        BY <3>1, <4>1, <4>3, <4>4
    <3>2. CASE n + 1 \notin t /\ t # {}
      <4>1. t \in SUBSET (1..n) /\ g[t] = f[t]
        BY <2>2, <3>2
      <4>2. Max(t) \in t
        BY <3>2, <4>1, GreatestOf
      <4>3. g[t \ {Max(t)}] = f[t \ {Max(t)}]
        BY <2>2, <3>2
      <4>4. f[t] = Fold(kind, floor, f[t \ {Max(t)}], s[Max(t)])
        BY <2>1, <3>2, <4>1
      <4> HIDE DEF g
      <4> QED
        BY <3>2, <4>1, <4>3, <4>4
    <3>3. CASE t = {}
      <4>1. n + 1 \notin t /\ t \in SUBSET (1..n) /\ t = {}
        BY <3>3
      <4>2. g[t] = f[t]
        BY <2>2, <4>1
      <4>3. f[t] = base
        BY <2>1, <4>1
      <4> HIDE DEF g
      <4> QED
        BY <4>1, <4>2, <4>3
    <3> QED
      BY <3>1, <3>2, <3>3
  <2>4. g = [t \in SUBSET (1..(n + 1)) |-> Step(g, t)]
    <3>1. \A t \in SUBSET (1..(n + 1)) : g[t] = Step(g, t)
      BY <2>3
    <3>2. DOMAIN g = SUBSET (1..(n + 1)) /\ g = [t \in SUBSET (1..(n + 1)) |-> g[t]]
      OBVIOUS
    <3> HIDE DEF g, Step
    <3> QED
      BY <3>1, <3>2
  <2> HIDE DEF g, Step
  <2>5. \E h : h = [t \in SUBSET (1..(n + 1)) |-> Step(h, t)]
    BY <2>4
  <2> QED
    BY <2>5
<1> HIDE DEF T
<1>3. N \in T
  BY <1>1, <1>2, Induction
<1>4. PICK f : f = [t \in SUBSET (1..N) |-> Step(f, t)]
  BY <1>3 DEF T
<1>5. IsFold(f, 1..N, kind, floor, base, s)
  BY <1>4 DEF IsFold
<1> QED
  BY <1>5

LEMMA FoldOfList ==
  ASSUME NEW kind, NEW floor, NEW base, NEW s, IsList(s)
  PROVE  \E f : IsFold(f, DOMAIN s, kind, floor, base, s)
<1>1. PICK N \in Nat : DOMAIN s = 1..N
  BY ListParts
<1> QED
  BY <1>1, FoldExists

\* A fold takes the elements of a list one after the other.
StepByStep(r, kind, floor, base, s, result) ==
  /\ r[0] = base /\ r[Len(s)] = result
  /\ \A i \in 1..Len(s) : r[i] = Fold(kind, floor, r[i - 1], s[i])

LEMMA FoldsStepByStep ==
  ASSUME NEW kind, NEW floor, NEW base, NEW s, IsList(s), NEW f, IsFold(f, DOMAIN s, kind, floor, base, s)
  PROVE  \E r : StepByStep(r, kind, floor, base, s, f[DOMAIN s])
<1> DEFINE n == Len(s)
           r == [i \in 0..n |-> f[1..i]]
<1>1. n \in Nat /\ DOMAIN s = 1..n
  BY ListParts
<1> HIDE DEF n
<1>2. r[0] = base
  <2>1. 1..0 = {} /\ {} \in SUBSET (1..n)
    OBVIOUS
  <2>2. f[{}] = base
    BY <1>1, <2>1 DEF IsFold
  <2> QED
    BY <1>1, <2>1, <2>2
<1>3. r[n] = f[DOMAIN s]
  BY <1>1
<1>4. ASSUME NEW i \in 1..n PROVE r[i] = Fold(kind, floor, r[i - 1], s[i])
  <2>1. 1..i \in SUBSET (1..n) /\ i \in 1..i /\ i \in Nat
    BY <1>1
  <2>2. Max(1..i) = i
    <3>1. Max(1..i) \in 1..i /\ i <= Max(1..i)
      BY <2>1, GreatestOf
    <3> QED
      BY <2>1, <3>1
  <2>3. (1..i) \ {i} = 1..(i - 1)
    BY <2>1
  <2>4. f[1..i] = Fold(kind, floor, f[1..(i - 1)], s[i])
    BY <1>1, <2>1, <2>2, <2>3 DEF IsFold
  <2>5. i \in 0..n /\ i - 1 \in 0..n
    BY <1>1
  <2> QED
    BY <2>4, <2>5
<1> HIDE DEF r
<1> QED
  BY <1>2, <1>3, <1>4 DEF StepByStep, n

LEMMA AccountsStepByStep ==
  ASSUME NEW L, NEW s, IsList(s)
  PROVE  \E r : StepByStep(r, "accounts", 0, L, s, CreateAccounts(L, s))
<1> DEFINE Step(f, t) == IF t = {} THEN L ELSE CreateAccount(f[t \ {Max(t)}], s[Max(t)])
           Same(f, t) == IF t = {} THEN L
                         ELSE Fold("accounts", 0, f[t \ {Max(t)}], s[Max(t)])
           f == CHOOSE f : f = [t \in SUBSET (DOMAIN s) |-> Step(f, t)]
<1>1. CreateAccounts(L, s) = f[DOMAIN s]
  BY DEF CreateAccounts, FoldLeft, MapThenFoldSet
<1>2. \A g, t : Step(g, t) = Same(g, t)
  BY DEF Fold
<1>3. PICK g : IsFold(g, DOMAIN s, "accounts", 0, L, s)
  BY FoldOfList
<1>4. g = [t \in SUBSET (DOMAIN s) |-> Same(g, t)]
  BY <1>3 DEF IsFold
<1> HIDE DEF Step, Same
<1>5. g = [t \in SUBSET (DOMAIN s) |-> Step(g, t)]
  BY <1>2, <1>4
<1>6. f = [t \in SUBSET (DOMAIN s) |-> Step(f, t)]
  BY <1>5
<1> HIDE DEF f
<1>7. f = [t \in SUBSET (DOMAIN s) |-> Same(f, t)]
  BY <1>2, <1>6
<1>8. IsFold(f, DOMAIN s, "accounts", 0, L, s)
  BY <1>7 DEF IsFold, Same
<1> QED
  BY <1>1, <1>8, FoldsStepByStep

LEMMA TransfersStepByStep ==
  ASSUME NEW L, NEW s, IsList(s)
  PROVE  \E r : StepByStep(r, "transfers", 0, L, s, CreateTransfers(L, s))
<1> DEFINE Step(f, t) == IF t = {} THEN L ELSE CreateTransfer(f[t \ {Max(t)}], s[Max(t)])
           Same(f, t) == IF t = {} THEN L
                         ELSE Fold("transfers", 0, f[t \ {Max(t)}], s[Max(t)])
           f == CHOOSE f : f = [t \in SUBSET (DOMAIN s) |-> Step(f, t)]
<1>1. CreateTransfers(L, s) = f[DOMAIN s]
  BY DEF CreateTransfers, FoldLeft, MapThenFoldSet
<1>2. \A g, t : Step(g, t) = Same(g, t)
  BY DEF Fold
<1>3. PICK g : IsFold(g, DOMAIN s, "transfers", 0, L, s)
  BY FoldOfList
<1>4. g = [t \in SUBSET (DOMAIN s) |-> Same(g, t)]
  BY <1>3 DEF IsFold
<1> HIDE DEF Step, Same
<1>5. g = [t \in SUBSET (DOMAIN s) |-> Step(g, t)]
  BY <1>2, <1>4
<1>6. f = [t \in SUBSET (DOMAIN s) |-> Step(f, t)]
  BY <1>5
<1> HIDE DEF f
<1>7. f = [t \in SUBSET (DOMAIN s) |-> Same(f, t)]
  BY <1>2, <1>6
<1>8. IsFold(f, DOMAIN s, "transfers", 0, L, s)
  BY <1>7 DEF IsFold, Same
<1> QED
  BY <1>1, <1>8, FoldsStepByStep

LEMMA LaterStepByStep ==
  ASSUME NEW floor, NEW s, IsList(s)
  PROVE  \E r : StepByStep(r, "later", floor, <<>>, s, DedupeTimestamps(s, floor))
<1> DEFINE Step(f, t) == IF t = {} THEN <<>> ELSE AppendLater(f[t \ {Max(t)}], s[Max(t)], floor)
           Same(f, t) == IF t = {} THEN <<>>
                         ELSE Fold("later", floor, f[t \ {Max(t)}], s[Max(t)])
           f == CHOOSE f : f = [t \in SUBSET (DOMAIN s) |-> Step(f, t)]
<1>1. DedupeTimestamps(s, floor) = f[DOMAIN s]
  BY DEF DedupeTimestamps, FoldLeft, MapThenFoldSet
<1>2. \A g, t : Step(g, t) = Same(g, t)
  BY DEF Fold
<1>3. PICK g : IsFold(g, DOMAIN s, "later", floor, <<>>, s)
  BY FoldOfList
<1>4. g = [t \in SUBSET (DOMAIN s) |-> Same(g, t)]
  BY <1>3 DEF IsFold
<1> HIDE DEF Step, Same
<1>5. g = [t \in SUBSET (DOMAIN s) |-> Step(g, t)]
  BY <1>2, <1>4
<1>6. f = [t \in SUBSET (DOMAIN s) |-> Step(f, t)]
  BY <1>5
<1> HIDE DEF f
<1>7. f = [t \in SUBSET (DOMAIN s) |-> Same(f, t)]
  BY <1>2, <1>6
<1>8. IsFold(f, DOMAIN s, "later", floor, <<>>, s)
  BY <1>7 DEF IsFold, Same
<1> QED
  BY <1>1, <1>8, FoldsStepByStep

LEMMA SumStepByStep ==
  ASSUME NEW s, IsList(s)
  PROVE  \E r : StepByStep(r, "sum", 0, 0, s, Total(s))
<1> DEFINE Step(f, t) == IF t = {} THEN 0 ELSE f[t \ {Max(t)}] + s[Max(t)]
           Same(f, t) == IF t = {} THEN 0
                         ELSE Fold("sum", 0, f[t \ {Max(t)}], s[Max(t)])
           f == CHOOSE f : f = [t \in SUBSET (DOMAIN s) |-> Step(f, t)]
<1>1. Total(s) = f[DOMAIN s]
  BY DEF Total, FoldLeft, MapThenFoldSet
<1>2. \A g, t : Step(g, t) = Same(g, t)
  BY DEF Fold
<1>3. PICK g : IsFold(g, DOMAIN s, "sum", 0, 0, s)
  BY FoldOfList
<1>4. g = [t \in SUBSET (DOMAIN s) |-> Same(g, t)]
  BY <1>3 DEF IsFold
<1> HIDE DEF Step, Same
<1>5. g = [t \in SUBSET (DOMAIN s) |-> Step(g, t)]
  BY <1>2, <1>4
<1>6. f = [t \in SUBSET (DOMAIN s) |-> Step(f, t)]
  BY <1>5
<1> HIDE DEF f
<1>7. f = [t \in SUBSET (DOMAIN s) |-> Same(f, t)]
  BY <1>2, <1>6
<1>8. IsFold(f, DOMAIN s, "sum", 0, 0, s)
  BY <1>7 DEF IsFold, Same
<1> QED
  BY <1>1, <1>8, FoldsStepByStep

-----------------------------------------------------------------------------
(***************************************************************************)
(* What a ledger takes of a batch.                                         *)
(***************************************************************************)

LedgerShape(L) ==
  /\ L = [accounts |-> L.accounts, transfers |-> L.transfers]
  /\ IsFiniteSet(DOMAIN L.accounts) /\ IsList(L.transfers)

LEMMA Sizes ==
  ASSUME NEW L, LedgerShape(L)
  PROVE  /\ Cardinality(DOMAIN L.accounts) \in Nat /\ Len(L.transfers) \in Nat
         /\ Size(L) \in Nat /\ Size(L) = Cardinality(DOMAIN L.accounts) + Len(L.transfers)
  BY FS_CardinalityType, ListParts DEF LedgerShape, Size

\* What creating one account may do.
AccountStep(L, x, R) ==
  /\ LedgerShape(R) /\ R.transfers = L.transfers
  /\ DOMAIN L.accounts \subseteq DOMAIN R.accounts
  /\ \/ Size(R) = Size(L)
     \/ Size(R) = Size(L) + 1 /\ x.id \in DOMAIN R.accounts \ DOMAIN L.accounts

LEMMA OneAccount ==
  ASSUME NEW L, LedgerShape(L), NEW x
  PROVE  AccountStep(L, x, CreateAccount(L, x))
<1>1. CASE AccountRefused(L, x)
  BY <1>1 DEF CreateAccount, AccountStep
<1>2. CASE ~AccountRefused(L, x)
  <2> DEFINE R == WithAccount(L, x)
  <2>1. CreateAccount(L, x) = R
    BY <1>2 DEF CreateAccount
  <2>2. x.id \notin DOMAIN L.accounts
    BY <1>2 DEF AccountRefused
  <2>3. /\ R = [accounts |-> R.accounts, transfers |-> R.transfers]
        /\ R.transfers = L.transfers
        /\ DOMAIN R.accounts = DOMAIN L.accounts \cup {x.id}
    BY DEF WithAccount, LedgerShape
  <2> HIDE DEF R
  <2>4. /\ IsFiniteSet(DOMAIN R.accounts)
        /\ Cardinality(DOMAIN R.accounts) = Cardinality(DOMAIN L.accounts) + 1
    BY <2>2, <2>3, FS_AddElement DEF LedgerShape
  <2>5. LedgerShape(R)
    BY <2>3, <2>4 DEF LedgerShape
  <2>6. Size(R) = Size(L) + 1
    <3>1. PICK c \in Nat, n \in Nat : c = Cardinality(DOMAIN L.accounts) /\ n = Len(L.transfers)
      BY Sizes
    <3>2. Size(L) = c + n
      BY <3>1, Sizes
    <3>3. Size(R) = (c + 1) + n
      BY <2>3, <2>4, <2>5, <3>1, Sizes
    <3> QED
      BY <3>2, <3>3
  <2> QED
    BY <2>1, <2>2, <2>3, <2>5, <2>6 DEF AccountStep
<1> QED
  BY <1>1, <1>2

\* What creating one transfer may do.
TransferStep(L, x, R) ==
  /\ LedgerShape(R) /\ DOMAIN R.accounts = DOMAIN L.accounts
  /\ Range(L.transfers) \subseteq Range(R.transfers)
  /\ \/ Size(R) = Size(L)
     \/ Size(R) = Size(L) + 1 /\ x \in Range(R.transfers) /\ x.id \notin TransferIds(L)

LEMMA OneTransfer ==
  ASSUME NEW L, LedgerShape(L), NEW x
  PROVE  TransferStep(L, x, CreateTransfer(L, x))
<1>1. CASE TransferRefused(L, x)
  BY <1>1 DEF CreateTransfer, TransferStep
<1>2. CASE ~TransferRefused(L, x)
  <2> DEFINE R == WithTransfer(L, x)
  <2>1. CreateTransfer(L, x) = R
    BY <1>2 DEF CreateTransfer
  <2>2. /\ R = [accounts |-> R.accounts, transfers |-> R.transfers]
        /\ R.transfers = Append(L.transfers, x)
        /\ DOMAIN R.accounts = DOMAIN L.accounts
    BY DEF WithTransfer
  <2> HIDE DEF R
  <2>3. /\ IsList(R.transfers) /\ Range(R.transfers) = Range(L.transfers) \cup {x}
        /\ Len(R.transfers) = Len(L.transfers) + 1
    BY <2>2, Appended DEF LedgerShape
  <2>4. LedgerShape(R)
    BY <2>2, <2>3 DEF LedgerShape
  <2>5. Size(R) = Size(L) + 1
    <3>1. PICK c \in Nat, n \in Nat : c = Cardinality(DOMAIN L.accounts) /\ n = Len(L.transfers)
      BY Sizes
    <3>2. Size(L) = c + n
      BY <3>1, Sizes
    <3>3. Size(R) = c + (n + 1)
      BY <2>2, <2>3, <2>4, <3>1, Sizes
    <3> QED
      BY <3>2, <3>3
  <2> QED
    BY <1>2, <2>1, <2>2, <2>3, <2>4, <2>5 DEF TransferStep, TransferRefused
<1> QED
  BY <1>1, <1>2

\* A batch of accounts.
LEMMA AccountsTaken ==
  ASSUME NEW L, LedgerShape(L), NEW s, IsList(s), NEW R, R = CreateAccounts(L, s)
  PROVE  /\ LedgerShape(R) /\ R.transfers = L.transfers
         /\ DOMAIN L.accounts \subseteq DOMAIN R.accounts
         /\ Size(R) = Size(L) + Len(s) => \A i \in 1..Len(s) :
               s[i].id \in DOMAIN R.accounts \ DOMAIN L.accounts
<1>1. PICK r : StepByStep(r, "accounts", 0, L, s, R)
  BY AccountsStepByStep
<1>2. /\ r[0] = L /\ r[Len(s)] = R /\ Len(s) \in Nat
      /\ \A i \in 1..Len(s) : r[i] = CreateAccount(r[i - 1], s[i])
  BY <1>1, ListParts DEF StepByStep, Fold
<1> DEFINE P(k) == /\ LedgerShape(r[k]) /\ r[k].transfers = L.transfers
                   /\ DOMAIN L.accounts \subseteq DOMAIN r[k].accounts
                   /\ Size(r[k]) <= Size(L) + k
                   /\ Size(r[k]) = Size(L) + k => \A i \in 1..k :
                         s[i].id \in DOMAIN r[k].accounts \ DOMAIN L.accounts
           T == {k \in 0..Len(s) : P(k)}
<1>3. Size(L) \in Nat
  BY Sizes
<1>4. 0 \in T
  BY <1>2, <1>3
<1>5. ASSUME NEW k \in 1..Len(s), k - 1 \in T PROVE k \in T
  <2>1. PICK j, old, new : j \in 0..Len(s) /\ j = k - 1 /\ old = r[j] /\ new = r[k] /\ k = j + 1
    BY <1>2
  <2>2. P(j)
    BY <1>5, <2>1
  <2>3. AccountStep(old, s[k], new)
    <3>1. new = CreateAccount(old, s[k]) /\ LedgerShape(old)
      BY <1>2, <2>1, <2>2
    <3> QED
      BY <3>1, OneAccount
  <2>4. /\ LedgerShape(new) /\ new.transfers = L.transfers
        /\ DOMAIN L.accounts \subseteq DOMAIN new.accounts
    BY <2>1, <2>2, <2>3 DEF AccountStep
  <2>5. Size(old) \in Nat /\ Size(new) \in Nat /\ Size(new) <= Size(old) + 1 /\ Size(old) <= Size(L) + j
    <3>1. LedgerShape(old) /\ LedgerShape(new) /\ Size(old) <= Size(L) + j
      BY <2>1, <2>2, <2>3 DEF AccountStep
    <3>2. Size(old) \in Nat /\ Size(new) \in Nat
      BY <3>1, Sizes
    <3> QED
      BY <2>3, <3>1, <3>2 DEF AccountStep
  <2>6. ASSUME Size(new) = Size(L) + k, NEW i \in 1..k
        PROVE  s[i].id \in DOMAIN new.accounts \ DOMAIN L.accounts
    <3>1. Size(old) = Size(L) + j /\ Size(new) = Size(old) + 1 /\ Size(new) # Size(old)
      <4>1. j \in Nat /\ k = j + 1 /\ Size(L) \in Nat
        BY <1>2, <1>3, <2>1
      <4> QED
        BY <2>5, <2>6, <4>1
    <3>2. /\ s[k].id \in DOMAIN new.accounts \ DOMAIN old.accounts
          /\ DOMAIN old.accounts \subseteq DOMAIN new.accounts
      BY <2>3, <2>5, <3>1 DEF AccountStep
    <3>3. i \in 1..j \/ i = k
      BY <2>1
    <3> QED
      BY <2>1, <2>2, <3>1, <3>2, <3>3
  <2> QED
    BY <1>2, <1>3, <2>1, <2>4, <2>5, <2>6
<1> HIDE DEF T
<1>6. Len(s) \in T
  <2>1. \A k \in 0..Len(s) : k \in T
    BY <1>2, <1>4, <1>5, Upwards
  <2> QED
    BY <1>2, <2>1
<1> QED
  BY <1>2, <1>6 DEF T

\* A batch of transfers.
LEMMA TransfersTaken ==
  ASSUME NEW L, LedgerShape(L), NEW s, IsList(s), NEW R, R = CreateTransfers(L, s)
  PROVE  /\ LedgerShape(R) /\ DOMAIN R.accounts = DOMAIN L.accounts
         /\ Range(L.transfers) \subseteq Range(R.transfers)
         /\ Size(R) = Size(L) + Len(s) => \A i \in 1..Len(s) :
               s[i] \in Range(R.transfers) /\ s[i].id \notin TransferIds(L)
<1>1. PICK r : StepByStep(r, "transfers", 0, L, s, R)
  BY TransfersStepByStep
<1>2. /\ r[0] = L /\ r[Len(s)] = R /\ Len(s) \in Nat
      /\ \A i \in 1..Len(s) : r[i] = CreateTransfer(r[i - 1], s[i])
  BY <1>1, ListParts DEF StepByStep, Fold
<1> DEFINE P(k) == /\ LedgerShape(r[k]) /\ DOMAIN r[k].accounts = DOMAIN L.accounts
                   /\ Range(L.transfers) \subseteq Range(r[k].transfers)
                   /\ Size(r[k]) <= Size(L) + k
                   /\ Size(r[k]) = Size(L) + k => \A i \in 1..k :
                         s[i] \in Range(r[k].transfers) /\ s[i].id \notin TransferIds(L)
           T == {k \in 0..Len(s) : P(k)}
<1>3. Size(L) \in Nat
  BY Sizes
<1>4. 0 \in T
  BY <1>2, <1>3
<1>5. ASSUME NEW k \in 1..Len(s), k - 1 \in T PROVE k \in T
  <2>1. PICK j, old, new : j \in 0..Len(s) /\ j = k - 1 /\ old = r[j] /\ new = r[k] /\ k = j + 1
    BY <1>2
  <2>2. P(j)
    BY <1>5, <2>1
  <2>3. TransferStep(old, s[k], new)
    <3>1. new = CreateTransfer(old, s[k]) /\ LedgerShape(old)
      BY <1>2, <2>1, <2>2
    <3> QED
      BY <3>1, OneTransfer
  <2>4. /\ LedgerShape(new) /\ DOMAIN new.accounts = DOMAIN L.accounts
        /\ Range(L.transfers) \subseteq Range(new.transfers)
    BY <2>1, <2>2, <2>3 DEF TransferStep
  <2>5. Size(old) \in Nat /\ Size(new) \in Nat /\ Size(new) <= Size(old) + 1 /\ Size(old) <= Size(L) + j
    <3>1. LedgerShape(old) /\ LedgerShape(new) /\ Size(old) <= Size(L) + j
      BY <2>1, <2>2, <2>3 DEF TransferStep
    <3>2. Size(old) \in Nat /\ Size(new) \in Nat
      BY <3>1, Sizes
    <3> QED
      BY <2>3, <3>1, <3>2 DEF TransferStep
  <2>6. ASSUME Size(new) = Size(L) + k, NEW i \in 1..k
        PROVE  s[i] \in Range(new.transfers) /\ s[i].id \notin TransferIds(L)
    <3>1. Size(old) = Size(L) + j /\ Size(new) = Size(old) + 1 /\ Size(new) # Size(old)
      <4>1. j \in Nat /\ k = j + 1 /\ Size(L) \in Nat
        BY <1>2, <1>3, <2>1
      <4> QED
        BY <2>5, <2>6, <4>1
    <3>2. /\ s[k] \in Range(new.transfers) /\ s[k].id \notin TransferIds(old)
          /\ Range(old.transfers) \subseteq Range(new.transfers)
      BY <2>3, <2>5, <3>1 DEF TransferStep
    <3>4. TransferIds(L) \subseteq TransferIds(old)
      BY <2>1, <2>2 DEF TransferIds
    <3>3. i \in 1..j \/ i = k
      BY <2>1
    <3> QED
      BY <2>1, <2>2, <3>1, <3>2, <3>3, <3>4
  <2> QED
    BY <1>2, <1>3, <2>1, <2>4, <2>5, <2>6
<1> HIDE DEF T
<1>6. Len(s) \in T
  <2>1. \A k \in 0..Len(s) : k \in T
    BY <1>2, <1>4, <1>5, Upwards
  <2> QED
    BY <1>2, <2>1
<1> QED
  BY <1>2, <1>6 DEF T

-----------------------------------------------------------------------------
(***************************************************************************)
(* The sequences of a plan are lists.                                      *)
(***************************************************************************)

LEMMA Mapped ==
  ASSUME NEW s, IsList(s), NEW q, q = [i \in DOMAIN s |-> q[i]]
  PROVE  IsList(q) /\ Len(q) = Len(s)
<1>1. DOMAIN s = 1..Len(s) /\ Len(s) \in Nat
  BY ListParts
<1> QED
  BY <1>1, ListOf

\* Flattening joins lists one after the other.
Flattens(g, seqs, result) ==
  /\ g[0] = <<>> /\ g[Len(seqs)] = result
  /\ \A i \in 1..Len(seqs) : g[i] = g[i - 1] \o seqs[i]
  /\ \A i \in 0..Len(seqs) : IsList(g[i])

LEMMA FlattensStepByStep ==
  ASSUME NEW seqs, IsList(seqs), \A i \in 1..Len(seqs) : IsList(seqs[i])
  PROVE  \E g : Flattens(g, seqs, FlattenSeq(seqs))
<1> DEFINE n == Len(seqs)
           U == UNION {Range(seqs[i]) : i \in 1..n}
           S == Seq(U)
           step == [i \in 1..n |-> [done \in S |-> done \o seqs[i]]]
           Flat(f) == [i \in 1..n |-> IF i = 1 THEN seqs[i] ELSE f[i - 1] \o seqs[i]]
           flat == CHOOSE f : f = Flat(f)
<1>1. n \in Nat
  BY ListParts
<1>2. CASE n = 0
  <2> DEFINE g == [i \in 0..0 |-> <<>>]
  <2>1. IsList(<<>>) /\ FlattenSeq(seqs) = <<>> /\ g[0] = <<>> /\ 1..0 = {} /\ 0..0 = {0}
    BY <1>2 DEF FlattenSeq, IsList
  <2> HIDE DEF g
  <2> QED
    BY <1>2, <2>1 DEF Flattens
<1>3. CASE n # 0
  <2>1. FlattenSeq(seqs) = flat[n]
    BY <1>3 DEF FlattenSeq
  <2>2. ASSUME NEW i \in 1..n PROVE seqs[i] \in S
    <3>1. seqs[i] \in Seq(Range(seqs[i])) /\ Range(seqs[i]) \subseteq U
      BY DEF IsList
    <3> HIDE DEF U
    <3> QED
      BY <3>1
  <2> HIDE DEF n, U
  <2>3. /\ <<>> \in S /\ \A p \in S, q \in S : p \o q \in S
        /\ \A q \in S : <<>> \o q = q
    OBVIOUS
  <2>4. step \in [1..n -> [S -> S]]
    BY <2>2, <2>3
  <2>5. \A i \in 1..n : \A done \in S : step[i][done] = done \o seqs[i]
    OBVIOUS
  <2> HIDE DEF step
  <2>6. PICK g \in [0..n -> S] : Walks(g, n, <<>>, step)
    BY <1>1, <2>3, <2>4, Recursion
  <2> DEFINE h == [i \in 1..n |-> g[i]]
  <2>7. g[0] = <<>> /\ \A i \in 1..n : g[i] = g[i - 1] \o seqs[i]
    <3>1. g[0] = <<>> /\ \A i \in 1..n : g[i] = step[i][g[i - 1]]
      BY <2>6 DEF Walks
    <3>2. \A i \in 1..n : i - 1 \in 0..n
      BY <1>1
    <3> QED
      BY <2>5, <2>6, <3>1, <3>2
  <2>8. h = Flat(h)
    <3>1. ASSUME NEW i \in 1..n
          PROVE  g[i] = IF i = 1 THEN seqs[i] ELSE h[i - 1] \o seqs[i]
      <4>1. CASE i = 1
        <5>1. g[i] = g[i - 1] \o seqs[i]
          BY <2>7
        <5>2. seqs[i] \in S /\ i - 1 = 0
          BY <2>2, <4>1
        <5>3. g[i] = <<>> \o seqs[i]
          BY <2>7, <5>1, <5>2
        <5> QED
          BY <2>3, <4>1, <5>2, <5>3
      <4>2. CASE i # 1
        <5>1. i - 1 \in 1..n
          BY <1>1, <4>2
        <5> QED
          BY <2>7, <4>2, <5>1
      <4> QED
        BY <4>1, <4>2
    <3> QED
      BY <3>1
  <2>9. flat = Flat(flat)
    <3> HIDE DEF h, Flat
    <3> QED
      BY <2>8
  <2> DEFINE T == {i \in 0..n : i > 0 => flat[i] = g[i]}
  <2>10. 0 \in T
    BY <1>1
  <2>11. ASSUME NEW i \in 1..n, i - 1 \in T PROVE i \in T
    <3>1. flat[i] = IF i = 1 THEN seqs[i] ELSE flat[i - 1] \o seqs[i]
      <4> HIDE DEF flat
      <4> QED
        BY <2>9
    <3>2. h[i] = IF i = 1 THEN seqs[i] ELSE h[i - 1] \o seqs[i]
      <4> HIDE DEF h
      <4> QED
        BY <2>8
    <3>3. i # 1 => h[i - 1] = g[i - 1] /\ flat[i - 1] = g[i - 1]
      BY <1>1, <2>11
    <3>4. h[i] = g[i]
      OBVIOUS
    <3> HIDE DEF flat, h
    <3>5. flat[i] = g[i]
      BY <3>1, <3>2, <3>3, <3>4
    <3> QED
      BY <1>1, <3>5
  <2> HIDE DEF T
  <2>12. \A i \in 0..n : i \in T
    BY <1>1, <2>10, <2>11, Upwards
  <2>13. n \in T
    BY <1>1, <2>12
  <2>14. flat[n] = g[n]
    BY <1>1, <1>3, <2>13 DEF T
  <2>15. \A i \in 0..n : IsList(g[i])
    BY <2>6, Listed
  <2> HIDE DEF flat
  <2> QED
    BY <2>1, <2>7, <2>14, <2>15 DEF Flattens, n
<1> QED
  BY <1>2, <1>3

LEMMA Flattened ==
  ASSUME NEW seqs, IsList(seqs), \A i \in 1..Len(seqs) : IsList(seqs[i])
  PROVE  IsList(FlattenSeq(seqs))
<1>1. PICK g : Flattens(g, seqs, FlattenSeq(seqs))
  BY FlattensStepByStep
<1>2. Len(seqs) \in 0..Len(seqs)
  BY ListParts
<1> QED
  BY <1>1, <1>2 DEF Flattens

\* Deduplicating timestamps keeps a list's length and everybody's id.
SameId(o, x) == "id" \in DOMAIN o => "id" \in DOMAIN x /\ x.id = o.id

LEMMA Deduplicated ==
  ASSUME NEW s, IsList(s), NEW floor, NEW q, q = DedupeTimestamps(s, floor)
  PROVE  IsList(q) /\ Len(q) = Len(s) /\ \A i \in 1..Len(s) : SameId(s[i], q[i])
<1>1. PICK r, n : StepByStep(r, "later", floor, <<>>, s, q) /\ n = Len(s)
  BY LaterStepByStep
<1>2. /\ r[0] = <<>> /\ r[n] = q /\ n \in Nat
      /\ \A i \in 1..n : r[i] = AppendLater(r[i - 1], s[i], floor)
  BY <1>1, ListParts DEF StepByStep, Fold
<1> DEFINE T == {k \in 0..n : IsList(r[k]) /\ Len(r[k]) = k /\ \A i \in 1..k : SameId(s[i], r[k][i])}
<1>3. 0 \in T
  <2>1. IsList(<<>>) /\ Len(<<>>) = 0
    BY DEF IsList
  <2> QED
    BY <1>2, <2>1
<1>4. ASSUME NEW k \in 1..n, k - 1 \in T PROVE k \in T
  <2>1. PICK x : r[k] = Append(r[k - 1], x) /\ SameId(s[k], x)
    <3>1. PICK ts : r[k] = Append(r[k - 1], [s[k] EXCEPT !.ts = ts])
      BY <1>2 DEF AppendLater
    <3>2. SameId(s[k], [s[k] EXCEPT !.ts = ts])
      BY DEF SameId
    <3> QED
      BY <3>1, <3>2
  <2>j. PICK j \in 0..n : j = k - 1 /\ k = j + 1
    BY <1>2
  <2>2. PICK old : old = r[k - 1]
    OBVIOUS
  <2>3. IsList(old) /\ Len(old) = j /\ \A i \in 1..j : SameId(s[i], old[i])
    BY <1>4, <2>j, <2>2
  <2>4. /\ IsList(r[k]) /\ Len(r[k]) = k /\ \A i \in 1..j : r[k][i] = old[i]
        /\ r[k][k] = x
    BY <2>1, <2>j, <2>2, <2>3, Appended
  <2>5. ASSUME NEW i \in 1..k PROVE SameId(s[i], r[k][i])
    <3>1. i \in 1..j \/ i = k
      BY <2>j
    <3> QED
      BY <2>1, <2>3, <2>4, <3>1
  <2> QED
    BY <1>2, <2>4, <2>5
<1> HIDE DEF T
<1>5. \A k \in 0..n : k \in T
  BY <1>2, <1>3, <1>4, Upwards
<1>6. n \in T
  BY <1>2, <1>5
<1> QED
  BY <1>1, <1>2, <1>6 DEF T

LEMMA PickedLists ==
  ASSUME NEW s, IsList(s), NEW places, places \subseteq DOMAIN s
  PROVE  IsFiniteSet(places) /\ IsList(Picked(s, places)) /\ Len(Picked(s, places)) = Cardinality(places)
<1>1. IsFiniteSet(places)
  <2>1. DOMAIN s = 1..Len(s) /\ Len(s) \in Nat
    BY ListParts
  <2>2. IsFiniteSet(1..Len(s))
    BY <2>1, FS_Interval
  <2> QED
    BY <2>1, <2>2, FS_Subset
<1>2. PICK n \in Nat : n = Cardinality(places)
  BY <1>1, FS_CardinalityType
<1>3. Picked(s, places) = [k \in 1..n |-> Picked(s, places)[k]]
  BY <1>2 DEF Picked, InOrder
<1> QED
  BY <1>1, <1>2, <1>3, ListOf

\* A list of transfers is split into two at a cutoff; nothing gets lost.
LEMMA SplitLists ==
  ASSUME NEW s, IsList(s), NEW c
  PROVE  IsList(Since(s, c)) /\ IsList(Until(s, c))
  BY PickedLists DEF Since, Until

LEMMA SplitKeepsSome ==
  ASSUME NEW s, IsList(s), s # <<>>, \A t \in Range(s) : t.ts \in Nat, NEW c \in Nat
  PROVE  Range(Until(s, c)) # {} \/ Len(Since(s, c)) > 0
<1> DEFINE early == {i \in DOMAIN s : s[i].ts < c}
           late == {i \in DOMAIN s : s[i].ts >= c}
<1>1. /\ IsFiniteSet(early) /\ IsList(Until(s, c)) /\ Len(Until(s, c)) = Cardinality(early)
      /\ IsFiniteSet(late) /\ IsList(Since(s, c)) /\ Len(Since(s, c)) = Cardinality(late)
  BY PickedLists DEF Until, Since
<1>2. 1 \in DOMAIN s /\ s[1].ts \in Nat
  <2>1. Len(s) # 0 /\ Len(s) \in Nat /\ DOMAIN s = 1..Len(s)
    BY DEF IsList
  <2> QED
    BY <2>1, ListParts
<1>3. CASE 1 \in early
  <2>1. Cardinality(early) \in Nat \ {0}
    BY <1>1, <1>3, FS_EmptySet, FS_CardinalityType
  <2>2. 1 \in 1..Len(Until(s, c))
    BY <1>1, <2>1
  <2> QED
    BY <1>1, <2>2, ListParts
<1>4. CASE 1 \in late
  <2>1. Cardinality(late) \in Nat \ {0}
    BY <1>1, <1>4, FS_EmptySet, FS_CardinalityType
  <2> QED
    BY <1>1, <2>1
<1> QED
  BY <1>2, <1>3, <1>4

LEMMA SortedLists ==
  ASSUME NEW s, IsList(s)
  PROVE  IsList(SortedByTimestamp(s)) /\ Len(SortedByTimestamp(s)) = Len(s)
<1>1. PICK q : q = SortedByTimestamp(s)
  OBVIOUS
<1>2. q = [i \in DOMAIN s |-> q[i]]
  BY <1>1 DEF SortedByTimestamp
<1> QED
  BY <1>1, <1>2, Mapped

\* Finite sets.
LEMMA FiniteImage ==
  ASSUME NEW S, IsFiniteSet(S), NEW f, f = [x \in S |-> f[x]]
  PROVE  IsFiniteSet(Range(f))
<1>1. f \in Surjection(S, Range(f))
  BY DEF Surjection, Range
<1> QED
  BY <1>1, FS_Surjection

\* Accounts, no two of which have the same timestamp.
Aged(S) ==
  /\ IsFiniteSet(S)
  /\ \A a \in S : DOMAIN a = AccountFields /\ a.ts \in Nat
  /\ \A a, b \in S : a.ts = b.ts => a = b

\* All of them are in the list that is ordered by timestamps.
LEMMA ByAge ==
  ASSUME NEW S, Aged(S), NEW q, q = InOrder(S, LAMBDA a : a.ts)
  PROVE  /\ IsList(q) /\ Range(q) = S /\ Len(q) = Cardinality(S)
         /\ \A i \in 1..Len(q) : \A j \in 1..Len(q) : i < j => q[i].ts < q[j].ts
<1> DEFINE n == Cardinality(S)
           Older(x) == {y \in S : y.ts < x.ts}
<1>1. n \in Nat
  BY FS_CardinalityType DEF Aged
<1>2. q = [i \in 1..n |-> CHOOSE x \in S : Cardinality(Older(x)) = i - 1]
  BY DEF InOrder
<1>3. IsList(q) /\ Len(q) = n
  <2>1. q = [i \in 1..n |-> q[i]]
    BY <1>2
  <2> QED
    BY <1>1, <2>1, ListOf
<1>4. ASSUME NEW V \in SUBSET S, NEW U \in SUBSET V, NEW x \in V \ U
      PROVE  Cardinality(U) < Cardinality(V)
  <2>1. IsFiniteSet(V) /\ IsFiniteSet(U)
    BY FS_Subset DEF Aged
  <2>2. Cardinality(U) <= Cardinality(V) /\ Cardinality(U) # Cardinality(V)
    BY <2>1, FS_Subset
  <2>3. Cardinality(U) \in Nat /\ Cardinality(V) \in Nat
    BY <2>1, FS_CardinalityType
  <2> QED
    BY <2>2, <2>3
<1>5. ASSUME NEW x \in S PROVE Cardinality(Older(x)) \in 0..(n - 1)
  <2>1. Older(x) \in SUBSET S /\ x \in S \ Older(x)
    BY DEF Aged
  <2>2. Cardinality(Older(x)) < n
    BY <1>4, <2>1
  <2>3. Cardinality(Older(x)) \in Nat
    BY <2>1, FS_Subset, FS_CardinalityType DEF Aged
  <2> QED
    BY <1>1, <2>2, <2>3
<1>6. ASSUME NEW x \in S, NEW y \in S, x.ts < y.ts
      PROVE  Cardinality(Older(x)) < Cardinality(Older(y))
  <2>1. Older(y) \in SUBSET S /\ Older(x) \in SUBSET Older(y) /\ x \in Older(y) \ Older(x)
    BY <1>6 DEF Aged
  <2> QED
    BY <1>4, <2>1
<1>7. ASSUME NEW x \in S, NEW y \in S, Cardinality(Older(x)) = Cardinality(Older(y))
      PROVE  x = y
  <2>1. Cardinality(Older(x)) \in Nat /\ Cardinality(Older(y)) \in Nat
    BY <1>1, <1>5
  <2>2. ~(x.ts < y.ts) /\ ~(y.ts < x.ts)
    BY <1>6, <1>7, <2>1
  <2> QED
    BY <2>2 DEF Aged
<1>8. ASSUME NEW x \in S PROVE x \in Range(q)
  <2>1. PICK i \in 1..n : Cardinality(Older(x)) = i - 1
    <3>1. PICK k \in 0..(n - 1) : k = Cardinality(Older(x))
      BY <1>5
    <3>2. k + 1 \in 1..n /\ k = (k + 1) - 1
      BY <1>1
    <3> HIDE DEF Older
    <3> QED
      BY <3>1, <3>2
  <2>2. PICK y : y = CHOOSE z \in S : Cardinality(Older(z)) = i - 1
    OBVIOUS
  <2>3. y \in S /\ Cardinality(Older(y)) = i - 1
    BY <2>1, <2>2
  <2>4. y = x
    BY <1>7, <2>1, <2>3
  <2>5. q[i] = y
    BY <1>2, <2>2
  <2> HIDE DEF n
  <2> QED
    BY <1>3, <2>4, <2>5, ListParts
<1>9. ASSUME NEW i \in 1..n PROVE q[i] \in S /\ Cardinality(Older(q[i])) = i - 1
  <2> DEFINE f == [x \in S |-> Cardinality(Older(x))]
  <2>1. /\ \A x \in S : f[x] \in 0..(n - 1)
        /\ \A x \in S, y \in S : f[x] = f[y] => x = y
    BY <1>5, <1>7
  <2>2. \A x \in S : f[x] = Cardinality(Older(x))
    OBVIOUS
  <2>3. IsFiniteSet(0..(n - 1)) /\ Cardinality(0..(n - 1)) = n
    <3>1. 0 \in Int /\ n - 1 \in Int
      BY <1>1
    <3>2. /\ IsFiniteSet(0..(n - 1))
          /\ Cardinality(0..(n - 1)) = IF 0 > n - 1 THEN 0 ELSE n - 1 - 0 + 1
      BY <3>1, FS_Interval
    <3> QED
      BY <1>1, <3>2
  <2>4. f \in Injection(S, 0..(n - 1))
    <3>1. f \in [S -> 0..(n - 1)]
      BY <2>1
    <3> HIDE DEF f, n
    <3> QED
      BY <2>1, <3>1 DEF Injection, IsInjective
  <2> HIDE DEF f
  <2>5. f \in Surjection(S, 0..(n - 1))
    <3>1. IsFiniteSet(S) /\ Cardinality(S) = Cardinality(0..(n - 1))
      BY <2>3 DEF Aged
    <3> HIDE DEF n
    <3> QED
      BY <2>3, <2>4, <3>1, FS_Injection
  <2>6. i - 1 \in 0..(n - 1)
    BY <1>1
  <2>7. PICK x \in S : f[x] = i - 1
    BY <2>5, <2>6 DEF Surjection
  <2>8. Cardinality(Older(x)) = i - 1
    BY <2>2, <2>7
  <2>9. q[i] = CHOOSE z \in S : Cardinality(Older(z)) = i - 1
    BY <1>2
  <2> HIDE DEF Older, n
  <2> QED
    BY <2>8, <2>9
<1>10. ASSUME NEW i \in 1..n, NEW j \in 1..n, i < j PROVE q[i].ts < q[j].ts
  <2>1. PICK x, y : x = q[i] /\ y = q[j] /\ x \in S /\ y \in S
    BY <1>9
  <2>2. Cardinality(Older(x)) = i - 1 /\ Cardinality(Older(y)) = j - 1
    BY <1>9, <2>1
  <2>3. x.ts \in Nat /\ y.ts \in Nat /\ (x.ts = y.ts => x = y)
    BY <2>1 DEF Aged
  <2>4. i - 1 < j - 1 /\ ~(j - 1 < i - 1) /\ i - 1 # j - 1
    BY <1>1, <1>10
  <2>5. x # y
    BY <2>2, <2>4
  <2>6. ~(y.ts < x.ts)
    <3>1. SUFFICES ASSUME y.ts < x.ts PROVE FALSE
      OBVIOUS
    <3>2. Cardinality(Older(y)) < Cardinality(Older(x))
      BY <1>6, <2>1, <3>1
    <3> QED
      BY <2>2, <2>4, <3>2
  <2> QED
    BY <2>1, <2>3, <2>5, <2>6
<1>11. Range(q) \subseteq S
  <2>1. ASSUME NEW x \in Range(q) PROVE x \in S
    <3>1. PICK i \in 1..Len(q) : x = q[i]
      BY <1>3, ListParts
    <3> QED
      BY <1>3, <1>9, <3>1
  <2> QED
    BY <2>1
<1> HIDE DEF n
<1> QED
  BY <1>3, <1>8, <1>10, <1>11 DEF n

LEMMA AccountsOfLedgers ==
  ASSUME NEW L, IsLedger(L)
  PROVE  /\ Aged(AccountsOf(L)) /\ IsList(L.transfers)
         /\ \A id \in DOMAIN L.accounts : \E a \in AccountsOf(L) : a.id = id
<1> DEFINE f == [id \in DOMAIN L.accounts |-> L.accounts[id]]
<1>1. IsFiniteSet(DOMAIN L.accounts) /\ IsList(L.transfers)
  BY DEF IsLedger, IsList
<1>2. Range(f) = AccountsOf(L)
  BY DEF AccountsOf, Range
<1>3. IsFiniteSet(AccountsOf(L))
  BY <1>1, <1>2, FiniteImage
<1> QED
  BY <1>1, <1>3 DEF Aged, AccountsOf, Range, IsLedger

\* R is what S was at a cutoff.
WasAtCutoff(R, S, window, c) == R = {AtCutoff(a, window, c) : a \in S}

LEMMA AccountsAtCutoff ==
  ASSUME NEW S, Aged(S), NEW window, NEW c, NEW R, WasAtCutoff(R, S, window, c)
  PROVE  Aged(R) /\ \A a \in S : \E b \in R : b.id = a.id
<1> DEFINE f == [a \in S |-> AtCutoff(a, window, c)]
<1>1. Range(f) = R /\ IsFiniteSet(S)
  BY DEF Range, Aged, WasAtCutoff
<1>2. IsFiniteSet(R)
  BY <1>1, FiniteImage
<1>3. ASSUME NEW a \in S
      PROVE  /\ DOMAIN AtCutoff(a, window, c) = AccountFields
             /\ AtCutoff(a, window, c).ts = a.ts /\ AtCutoff(a, window, c).id = a.id
  <2>1. DOMAIN a = AccountFields
    BY DEF Aged
  <2> QED
    BY <2>1 DEF AtCutoff, AccountFields
<1>4. \A b \in R : DOMAIN b = AccountFields /\ b.ts \in Nat
  BY <1>3 DEF Aged, WasAtCutoff
<1>5. \A a, b \in R : a.ts = b.ts => a = b
  BY <1>3 DEF Aged, WasAtCutoff
<1>6. \A a \in S : \E b \in R : b.id = a.id
  BY <1>3 DEF WasAtCutoff
<1> QED
  BY <1>2, <1>4, <1>5, <1>6 DEF Aged

-----------------------------------------------------------------------------
(***************************************************************************)
(* Plans.                                                                  *)
(***************************************************************************)

PlanLists(plan) ==
  /\ IsList(plan.genesis) /\ IsList(plan.regular)
  /\ IsList(plan.synthetic) /\ IsList(plan.windowed)

\* Every account of S is a regular account of the plan.
Covers(plan, S) ==
  \A a \in S : \E b \in Range(plan.regular) : "id" \in DOMAIN b /\ b.id = a.id

LEMMA NoList == IsList(<<>>) /\ Range(<<>>) = {} /\ Len(<<>>) = 0
<1>1. IsList(<<>>) /\ Len(<<>>) = 0
  BY DEF IsList
<1>2. Range(<<>>) = {}
  BY <1>1, ListParts
<1> QED
  BY <1>1, <1>2

LEMMA GenesisLists ==
  ASSUME NEW S, IsFiniteSet(S)
  PROVE  IsList(GenesisAccounts(S))
<1> DEFINE R == {a.ledger : a \in S}
           f == [a \in S |-> a.ledger]
<1>1. IsFiniteSet(R)
  <2>1. Range(f) = R
    BY DEF Range
  <2>2. f = [a \in S |-> f[a]]
    OBVIOUS
  <2> HIDE DEF f
  <2>3. IsFiniteSet(Range(f))
    BY <2>2, FiniteImage
  <2> QED
    BY <2>1, <2>3
<1>2. PICK n \in Nat : n = Cardinality(R)
  BY <1>1, FS_CardinalityType
<1> DEFINE ledgers == InOrder(R, LAMBDA l : l)
           seqs == [i \in DOMAIN ledgers |-> GenesisPair(ledgers[i], i)]
<1>3. GenesisAccounts(S) = FlattenSeq(seqs)
  BY DEF GenesisAccounts
<1>4. DOMAIN ledgers = 1..n
  BY <1>2 DEF InOrder
<1> HIDE DEF ledgers
<1>5. IsList(seqs) /\ Len(seqs) = n
  BY <1>4, ListOf
<1>6. ASSUME NEW i \in 1..n PROVE IsList(seqs[i])
  <2>1. PICK x, y : seqs[i] = <<x, y>>
    BY <1>4 DEF GenesisPair
  <2>2. <<x, y>> \in Seq({x, y})
    OBVIOUS
  <2> QED
    BY <2>1, <2>2, Listed
<1> HIDE DEF seqs
<1> QED
  BY <1>3, <1>5, <1>6, Flattened

LEMMA RegularLists ==
  ASSUME NEW S, Aged(S), NEW floor, NEW q, q = RegularAccounts(S, floor)
  PROVE  /\ IsList(q)
         /\ \A a \in S : \E b \in Range(q) : "id" \in DOMAIN b /\ b.id = a.id
<1>1. PICK s : s = InOrder(S, LAMBDA a : a.ts) /\ q = DedupeTimestamps(s, floor)
  BY DEF RegularAccounts
<1>2. IsList(s) /\ S \subseteq Range(s)
  BY <1>1, ByAge
<1>3. IsList(q) /\ Len(q) = Len(s) /\ \A i \in 1..Len(s) : SameId(s[i], q[i])
  BY <1>1, <1>2, Deduplicated
<1>4. ASSUME NEW a \in S PROVE \E b \in Range(q) : "id" \in DOMAIN b /\ b.id = a.id
  <2>1. PICK i \in 1..Len(s) : a = s[i]
    BY <1>2, ListParts
  <2>2. "id" \in DOMAIN a
    BY DEF Aged, AccountFields
  <2>3. "id" \in DOMAIN q[i] /\ q[i].id = a.id
    BY <1>3, <2>1, <2>2 DEF SameId
  <2>4. q[i] \in Range(q)
    BY <1>3, ListParts
  <2> QED
    BY <2>3, <2>4
<1> QED
  BY <1>3, <1>4

LEMMA MovedLists ==
  \A d, c, amount, l : IsList(Moved(d, c, amount, l))
<1>1. \A x : <<x>> \in Seq({x})
  OBVIOUS
<1>2. \A x : IsList(<<x>>)
  BY <1>1, Listed
<1> QED
  BY <1>2, NoList DEF Moved

LEMMA SyntheticLists ==
  ASSUME NEW s, IsList(s), NEW floor
  PROVE  IsList(SyntheticTransfers(s, floor))
<1>1. ASSUME NEW a PROVE IsList(RebuildAccount(a))
  BY MovedLists, Joined DEF RebuildAccount
<1>2. PICK seqs : /\ seqs = [i \in DOMAIN s |-> RebuildAccount(s[i])]
                  /\ seqs = [i \in DOMAIN s |-> seqs[i]]
  OBVIOUS
<1>3. IsList(seqs) /\ DOMAIN seqs = 1..Len(seqs)
  BY <1>2, Mapped, ListParts
<1>4. \A i \in 1..Len(seqs) : IsList(seqs[i])
  BY <1>1, <1>2, <1>3
<1>5. PICK q : q = FlattenSeq(seqs) /\ IsList(q)
  BY <1>3, <1>4, Flattened
<1>6. PICK r : r = SyntheticTransfers(s, floor)
  OBVIOUS
<1>7. r = [i \in DOMAIN q |-> Synthetic(q[i], i, floor + i)]
  BY <1>2, <1>5, <1>6 DEF SyntheticTransfers
<1>8. r = [i \in DOMAIN q |-> r[i]]
  BY <1>7
<1> QED
  BY <1>5, <1>6, <1>8, Mapped

LEMMA Snapshots ==
  ASSUME NEW S, Aged(S), NEW windowed, NEW plan, plan = BuildSnapshot(S, windowed)
  PROVE  /\ PlanLists(plan) /\ Covers(plan, S)
         /\ plan = [genesis |-> plan.genesis, regular |-> plan.regular,
                    synthetic |-> plan.synthetic, windowed |-> plan.windowed]
<1>1. PICK floor1, floor2 :
         plan = [genesis   |-> GenesisAccounts(S),
                 regular   |-> RegularAccounts(S, floor1),
                 synthetic |-> SyntheticTransfers(RegularAccounts(S, floor1), floor2),
                 windowed  |-> <<>>]
  BY DEF BuildSnapshot
<1>2. IsFiniteSet(S)
  BY DEF Aged
<1>3. PICK regular : /\ regular = RegularAccounts(S, floor1) /\ IsList(regular)
                     /\ \A a \in S : \E b \in Range(regular) : "id" \in DOMAIN b /\ b.id = a.id
  BY RegularLists
<1>4. /\ plan.regular = regular /\ plan.genesis = GenesisAccounts(S)
      /\ plan.synthetic = SyntheticTransfers(regular, floor2) /\ plan.windowed = <<>>
      /\ plan = [genesis |-> plan.genesis, regular |-> plan.regular,
                 synthetic |-> plan.synthetic, windowed |-> plan.windowed]
  BY <1>1, <1>3
<1> QED
  BY <1>2, <1>3, <1>4, GenesisLists, SyntheticLists, NoList DEF PlanLists, Covers

\* The plan of a ledger covers its accounts, also when only accounts are imported.
LEMMA LedgerPlans ==
  ASSUME NEW L, IsLedger(L), NEW c, NEW plan, plan \in {PlanOf(L, c), AccountsOnly(PlanOf(L, c))}
  PROVE  PlanLists(plan) /\ \A id \in DOMAIN L.accounts : \E b \in Range(plan.regular) : b.id = id
<1> DEFINE S == AccountsOf(L)
           full == PlanOf(L, c)
<1>1. Aged(S) /\ IsList(L.transfers) /\ \A id \in DOMAIN L.accounts : \E a \in S : a.id = id
  BY AccountsOfLedgers
<1>2. IsList(WindowOf(L, c))
  BY <1>1, SplitLists, NoList DEF WindowOf
<1> HIDE DEF S
<1>3. /\ PlanLists(full) /\ Covers(full, S)
      /\ full = [genesis |-> full.genesis, regular |-> full.regular,
                 synthetic |-> full.synthetic, windowed |-> full.windowed]
  <2>1. CASE c > 0
    <3> DEFINE W == WindowOf(L, c)
    <3>0. PICK R : WasAtCutoff(R, S, W, c)
      BY DEF WasAtCutoff
    <3> DEFINE p == BuildSnapshot(R, TRUE)
    <3>2. full = [p EXCEPT !.windowed = W]
      BY <2>1, <3>0 DEF PlanOf, BuildWindowed, WasAtCutoff, S
    <3> HIDE DEF p, W, full
    <3>1. Aged(R) /\ \A a \in S : \E b \in R : b.id = a.id
      BY <1>1, <3>0, AccountsAtCutoff
    <3>3. /\ PlanLists(p) /\ Covers(p, R)
          /\ p = [genesis |-> p.genesis, regular |-> p.regular,
                  synthetic |-> p.synthetic, windowed |-> p.windowed]
      BY <3>1, Snapshots DEF p
    <3>4. /\ full.genesis = p.genesis /\ full.regular = p.regular
          /\ full.synthetic = p.synthetic /\ full.windowed = W
          /\ full = [genesis |-> full.genesis, regular |-> full.regular,
                     synthetic |-> full.synthetic, windowed |-> full.windowed]
      BY <3>2, <3>3
    <3>5. Covers(full, S)
      BY <3>1, <3>3, <3>4 DEF Covers
    <3> QED
      BY <1>2, <3>3, <3>4, <3>5 DEF PlanLists, W
  <2>2. CASE ~(c > 0)
    <3>1. full = BuildSnapshot(S, FALSE)
      BY <2>2 DEF PlanOf, Build, S
    <3> HIDE DEF full
    <3> QED
      BY <1>1, <3>1, Snapshots
  <2> QED
    BY <2>1, <2>2
<1>4. ASSUME NEW id \in DOMAIN L.accounts
      PROVE  \E b \in Range(full.regular) : "id" \in DOMAIN b /\ b.id = id
  BY <1>1, <1>3 DEF Covers
<1>5. CASE plan = full
  BY <1>3, <1>4, <1>5
<1>6. CASE plan = AccountsOnly(full)
  <2> HIDE DEF full
  <2> DEFINE q == [i \in DOMAIN full.regular |->
                     [full.regular[i] EXCEPT !.dr = 0, !.cr = 0, !.drp = 0, !.crp = 0]]
  <2>1. /\ plan.genesis = <<>> /\ plan.synthetic = <<>> /\ plan.windowed = <<>>
        /\ plan.regular = q
    BY <1>3, <1>6 DEF AccountsOnly
  <2>2. IsList(full.regular) /\ DOMAIN full.regular = 1..Len(full.regular)
    BY <1>3, ListParts DEF PlanLists
  <2>3. IsList(q) /\ Len(q) = Len(full.regular)
    BY <2>2, Mapped
  <2>4. PlanLists(plan)
    BY <2>1, <2>3, NoList DEF PlanLists
  <2>5. ASSUME NEW id \in DOMAIN L.accounts PROVE \E b \in Range(q) : b.id = id
    <3>1. PICK a \in Range(full.regular) : "id" \in DOMAIN a /\ a.id = id
      BY <1>4
    <3>2. PICK i \in 1..Len(full.regular) : a = full.regular[i]
      BY <2>2, ListParts
    <3>3. q[i].id = id /\ q[i] \in Range(q)
      BY <2>2, <3>1, <3>2 DEF Range
    <3> QED
      BY <3>3
  <2> QED
    BY <2>1, <2>4, <2>5
<1> QED
  BY <1>5, <1>6

LEMMA AggregatedLists ==
  ASSUME NEW s, NEW pairs, IsList(pairs), NEW c
  PROVE  IsList(Aggregated(s, pairs, c))
<1>1. PICK q : q = Aggregated(s, pairs, c)
  OBVIOUS
<1>2. q = [i \in DOMAIN pairs |-> q[i]]
  BY <1>1 DEF Aggregated
<1> QED
  BY <1>1, <1>2, Mapped

LEMMA PairLists ==
  ASSUME NEW s, IsList(s), NEW pairs \in SetToSeqs({PairOf(t) : t \in Range(s)})
  PROVE  IsList(pairs) /\ IsFiniteSet({PairOf(t) : t \in Range(s)})
<1> DEFINE R == {PairOf(t) : t \in Range(s)}
           f == [i \in 1..Len(s) |-> PairOf(s[i])]
<1>1. IsFiniteSet(R)
  <2>1. Len(s) \in Nat /\ \A x : x \in Range(s) <=> \E i \in 1..Len(s) : x = s[i]
    BY ListParts
  <2>2. IsFiniteSet(1..Len(s))
    BY <2>1, FS_Interval
  <2>3. IsFiniteSet(Range(f))
    BY <2>2, FiniteImage
  <2>4. Range(f) = R
    BY <2>1 DEF Range
  <2> QED
    BY <2>3, <2>4
<1>2. PICK n \in Nat : n = Cardinality(R)
  BY <1>1, FS_CardinalityType
<1>3. pairs = [i \in 1..n |-> pairs[i]]
  BY <1>2 DEF SetToSeqs
<1> QED
  BY <1>1, <1>3, ListOf

\* With a cutoff, a plan of a CSV file has two parts.
LEMMA CsvParts ==
  ASSUME NEW s, NEW c, c # 0, NEW plan \in FromCsv(s, c)
  PROVE  \E pairs \in SetToSeqs({PairOf(t) : t \in Range(Until(s, c))}) :
            plan = CsvPlan(Aggregated(Until(s, c), pairs, c),
                           DedupeTimestamps(SortedByTimestamp(Since(s, c)), Minus(c, 1)))
  BY DEF FromCsv

LEMMA CsvPlans ==
  ASSUME NEW s, IsList(s), NEW c, NEW plan \in FromCsv(s, c)
  PROVE  PlanLists(plan)
<1>1. ASSUME NEW t, IsList(t), NEW floor PROVE IsList(DedupeTimestamps(SortedByTimestamp(t), floor))
  BY <1>1, SortedLists, Deduplicated
<1>2. CASE c = 0
  <2>1. plan = CsvPlan(<<>>, DedupeTimestamps(SortedByTimestamp(s), 0))
    BY <1>2 DEF FromCsv
  <2> QED
    BY <1>1, <2>1, NoList DEF CsvPlan, PlanLists
<1>3. CASE c # 0
  <2> DEFINE pre == Until(s, c)
             post == Since(s, c)
  <2>1. PICK pairs \in SetToSeqs({PairOf(t) : t \in Range(pre)}) :
           plan = CsvPlan(Aggregated(pre, pairs, c),
                          DedupeTimestamps(SortedByTimestamp(post), Minus(c, 1)))
    BY <1>3, CsvParts
  <2>2. IsList(pre) /\ IsList(post)
    BY SplitLists
  <2> HIDE DEF pre, post
  <2>3. IsList(pairs)
    BY <2>1, <2>2, PairLists
  <2> QED
    BY <1>1, <2>1, <2>2, <2>3, AggregatedLists, NoList DEF CsvPlan, PlanLists
<1> QED
  BY <1>2, <1>3

-----------------------------------------------------------------------------
(***************************************************************************)
(* Sums of numbers.                                                        *)
(***************************************************************************)

Numbers(f, n) == \A i \in 1..n : f[i] \in Int

\* g holds the sums of the first numbers of f.
Adds(g, f, n) == g \in [0..n -> Int] /\ g[0] = 0 /\ \A i \in 1..n : g[i] = g[i - 1] + f[i]

\* The sum of the first n numbers of f.
SumTo(f, n) == (CHOOSE g : Adds(g, f, n))[n]

LEMMA SumExists ==
  ASSUME NEW n \in Nat, NEW f, Numbers(f, n)
  PROVE  \E g : Adds(g, f, n)
<1> DEFINE step == [i \in 1..n |-> [x \in Int |-> x + f[i]]]
<1>1. step \in [1..n -> [Int -> Int]]
  BY DEF Numbers
<1>2. \A i \in 1..n : \A x \in Int : step[i][x] = x + f[i]
  OBVIOUS
<1> HIDE DEF step
<1>3. PICK g \in [0..n -> Int] : Walks(g, n, 0, step)
  <2>1. 0 \in Int
    OBVIOUS
  <2> HIDE DEF Walks
  <2> QED
    BY <1>1, <2>1, Recursion
<1>4. ASSUME NEW i \in 1..n PROVE g[i] = g[i - 1] + f[i]
  <2>1. i - 1 \in 0..n
    OBVIOUS
  <2>2. g[i - 1] \in Int
    BY <2>1
  <2> QED
    BY <1>2, <1>3, <2>2 DEF Walks
<1> QED
  BY <1>3, <1>4 DEF Adds, Walks

\* Sums of the same numbers are the same.
LEMMA SumsAgree ==
  ASSUME NEW n \in Nat, NEW m \in Nat, NEW f, NEW e, NEW g, NEW h, Adds(g, f, n), Adds(h, e, m),
         NEW k \in Nat, k <= n, k <= m, \A i \in 1..k : f[i] = e[i]
  PROVE  g[k] = h[k]
<1> DEFINE T == {i \in 0..k : g[i] = h[i]}
<1>1. 0 \in T
  BY DEF Adds
<1>2. ASSUME NEW i \in 1..k, i - 1 \in T PROVE i \in T
  <2>1. i \in 1..n /\ i \in 1..m /\ i \in 0..k
    OBVIOUS
  <2>2. g[i - 1] = h[i - 1] /\ f[i] = e[i]
    BY <1>2
  <2>3. g[i] = g[i - 1] + f[i] /\ h[i] = h[i - 1] + e[i]
    BY <2>1 DEF Adds
  <2> QED
    BY <2>1, <2>2, <2>3
<1> HIDE DEF T
<1>3. \A i \in 0..k : i \in T
  BY <1>1, <1>2, Upwards
<1>4. k \in T
  BY <1>3
<1> QED
  BY <1>4 DEF T

LEMMA SumSteps ==
  ASSUME NEW n \in Nat, NEW f, Numbers(f, n)
  PROVE  /\ SumTo(f, 0) = 0 /\ \A k \in 0..n : SumTo(f, k) \in Int
         /\ \A k \in 1..n : SumTo(f, k) = SumTo(f, k - 1) + f[k]
<1>1. PICK g : Adds(g, f, n)
  BY SumExists
<1>2. ASSUME NEW k \in 0..n PROVE SumTo(f, k) = g[k]
  <2>1. k \in Nat /\ Numbers(f, k)
    BY DEF Numbers
  <2>2. PICK h : h = CHOOSE x : Adds(x, f, k)
    OBVIOUS
  <2>3. Adds(h, f, k) /\ SumTo(f, k) = h[k]
    BY <2>1, <2>2, SumExists DEF SumTo
  <2> QED
    BY <1>1, <2>1, <2>3, SumsAgree
<1>3. 0 \in 0..n /\ \A k \in 1..n : k \in 0..n /\ k - 1 \in 0..n
  OBVIOUS
<1>4. /\ g[0] = 0 /\ \A k \in 0..n : g[k] \in Int
      /\ \A k \in 1..n : g[k] = g[k - 1] + f[k]
  BY <1>1 DEF Adds
<1>5. \A k \in 1..n : SumTo(f, k) = SumTo(f, k - 1) + f[k]
  BY <1>2, <1>3, <1>4
<1> QED
  BY <1>2, <1>3, <1>4, <1>5

\* The same numbers have the same sum.
LEMMA SumSame ==
  ASSUME NEW n \in Nat, NEW f, Numbers(f, n), NEW e, \A i \in 1..n : e[i] = f[i]
  PROVE  \A k \in 0..n : SumTo(e, k) = SumTo(f, k)
<1>1. Numbers(e, n)
  BY DEF Numbers
<1>2. PICK g, h : Adds(g, f, n) /\ Adds(h, e, n)
  BY <1>1, SumExists
<1> TAKE k \in 0..n
<1>3. k \in Nat /\ Numbers(f, k) /\ Numbers(e, k)
  BY <1>1 DEF Numbers
<1>4. PICK a, b : a = (CHOOSE x : Adds(x, f, k)) /\ b = (CHOOSE x : Adds(x, e, k))
  OBVIOUS
<1>5. Adds(a, f, k) /\ Adds(b, e, k)
  BY <1>3, <1>4, SumExists
<1>6. a[k] = b[k]
  BY <1>3, <1>5, SumsAgree
<1> QED
  BY <1>4, <1>6 DEF SumTo

\* Numbers that are not negative.
Amounted(f, n) == \A i \in 1..n : f[i] \in Nat

\* Their sums grow, by at least each of the numbers.
LEMMA SumGrows ==
  ASSUME NEW n \in Nat, NEW f, Amounted(f, n)
  PROVE  /\ \A k \in 0..n : SumTo(f, k) \in Nat
         /\ \A k \in 0..n : \A j \in 0..k : SumTo(f, j) <= SumTo(f, k)
<1>1. Numbers(f, n)
  BY DEF Numbers, Amounted
<1>2. /\ SumTo(f, 0) = 0 /\ \A k \in 0..n : SumTo(f, k) \in Int
      /\ \A k \in 1..n : SumTo(f, k) = SumTo(f, k - 1) + f[k]
  BY <1>1, SumSteps
<1> DEFINE T == {k \in 0..n : SumTo(f, k) \in Nat /\ \A j \in 0..k : SumTo(f, j) <= SumTo(f, k)}
<1>3. 0 \in T
  BY <1>2
<1>4. ASSUME NEW k \in 1..n, k - 1 \in T PROVE k \in T
  <2>1. PICK i \in 0..n : i = k - 1 /\ k = i + 1
    OBVIOUS
  <2>2. SumTo(f, i) \in Nat /\ \A j \in 0..i : SumTo(f, j) <= SumTo(f, i)
    BY <1>4, <2>1
  <2>3. SumTo(f, k) = SumTo(f, i) + f[k] /\ f[k] \in Nat
    BY <1>2, <2>1 DEF Amounted
  <2>4. SumTo(f, k) \in Nat /\ SumTo(f, i) <= SumTo(f, k)
    BY <2>2, <2>3
  <2>5. ASSUME NEW j \in 0..k PROVE SumTo(f, j) <= SumTo(f, k)
    <3>1. j \in 0..i \/ j = k
      BY <2>1
    <3>2. CASE j \in 0..i
      <4>1. SumTo(f, j) <= SumTo(f, i) /\ j \in 0..n
        BY <2>2, <3>2
      <4>2. SumTo(f, j) \in Int
        BY <1>2, <4>1
      <4> QED
        BY <2>2, <2>4, <4>1, <4>2
    <3> QED
      BY <2>4, <3>1, <3>2
  <2> QED
    BY <2>4, <2>5
<1> HIDE DEF T
<1>5. \A k \in 0..n : k \in T
  BY <1>3, <1>4, Upwards
<1> QED
  BY <1>5 DEF T

\* Numbers that are not greater have no greater sum.
LEMMA SumLesser ==
  ASSUME NEW n \in Nat, NEW f, Numbers(f, n), NEW e, Numbers(e, n), \A i \in 1..n : e[i] <= f[i]
  PROVE  \A k \in 0..n : SumTo(e, k) <= SumTo(f, k)
<1> DEFINE T == {k \in 0..n : SumTo(e, k) <= SumTo(f, k)}
<1>1. /\ SumTo(f, 0) = 0 /\ \A k \in 0..n : SumTo(f, k) \in Int
      /\ \A k \in 1..n : SumTo(f, k) = SumTo(f, k - 1) + f[k]
      /\ SumTo(e, 0) = 0 /\ \A k \in 0..n : SumTo(e, k) \in Int
      /\ \A k \in 1..n : SumTo(e, k) = SumTo(e, k - 1) + e[k]
  BY SumSteps
<1>2. 0 \in T
  BY <1>1
<1>3. ASSUME NEW k \in 1..n, k - 1 \in T PROVE k \in T
  <2>1. PICK i \in 0..n : i = k - 1 /\ k \in 0..n
    OBVIOUS
  <2>2. SumTo(e, i) <= SumTo(f, i) /\ SumTo(e, i) \in Int /\ SumTo(f, i) \in Int
    BY <1>1, <1>3, <2>1
  <2>3. SumTo(f, k) = SumTo(f, i) + f[k] /\ SumTo(e, k) = SumTo(e, i) + e[k] /\ e[k] <= f[k]
    BY <1>1, <2>1
  <2>4. e[k] \in Int /\ f[k] \in Int
    BY DEF Numbers
  <2> QED
    BY <2>1, <2>2, <2>3, <2>4
<1> HIDE DEF T
<1>4. \A k \in 0..n : k \in T
  BY <1>2, <1>3, Upwards
<1> QED
  BY <1>4 DEF T

\* The sum of nothing.
LEMMA SumNothing ==
  ASSUME NEW n \in Nat, NEW f, \A i \in 1..n : f[i] = 0
  PROVE  \A k \in 0..n : SumTo(f, k) = 0
<1> DEFINE T == {k \in 0..n : SumTo(f, k) = 0}
<1>1. SumTo(f, 0) = 0 /\ \A k \in 1..n : SumTo(f, k) = SumTo(f, k - 1) + f[k]
  BY SumSteps DEF Numbers
<1>2. 0 \in T
  BY <1>1
<1>3. ASSUME NEW k \in 1..n, k - 1 \in T PROVE k \in T
  BY <1>1, <1>3
<1> HIDE DEF T
<1>4. \A k \in 0..n : k \in T
  BY <1>2, <1>3, Upwards
<1> QED
  BY <1>4 DEF T

\* A sum is that of the first k numbers and that of the others.
LEMMA SumSplit ==
  ASSUME NEW n \in Nat, NEW f, Numbers(f, n), NEW k \in 0..n, NEW e,
         \A i \in 1..(n - k) : e[i] = f[k + i]
  PROVE  \A j \in 0..(n - k) : SumTo(f, k + j) = SumTo(f, k) + SumTo(e, j)
<1> DEFINE T == {j \in 0..(n - k) : SumTo(f, k + j) = SumTo(f, k) + SumTo(e, j)}
<1>0. n - k \in Nat /\ Numbers(e, n - k)
  <2>1. \A i \in 1..(n - k) : k + i \in 1..n
    OBVIOUS
  <2> QED
    BY <2>1 DEF Numbers
<1>1. /\ \A i \in 0..n : SumTo(f, i) \in Int
      /\ \A i \in 1..n : SumTo(f, i) = SumTo(f, i - 1) + f[i]
  BY SumSteps
<1>2. /\ SumTo(e, 0) = 0 /\ \A i \in 0..(n - k) : SumTo(e, i) \in Int
      /\ \A i \in 1..(n - k) : SumTo(e, i) = SumTo(e, i - 1) + e[i]
  BY <1>0, SumSteps
<1>3. 0 \in T
  BY <1>0, <1>1, <1>2
<1>4. ASSUME NEW j \in 1..(n - k), j - 1 \in T PROVE j \in T
  <2>1. PICK i \in 0..(n - k) : i = j - 1 /\ k + i = k + j - 1 /\ k + j \in 1..n /\ k + i \in 0..n
    OBVIOUS
  <2>2. SumTo(f, k + i) = SumTo(f, k) + SumTo(e, i)
    BY <1>4, <2>1
  <2>3. SumTo(f, k + j) = SumTo(f, k + i) + f[k + j] /\ SumTo(e, j) = SumTo(e, i) + e[j]
    BY <1>1, <1>2, <2>1
  <2>4. /\ SumTo(f, k) \in Int /\ SumTo(e, i) \in Int /\ e[j] = f[k + j]
        /\ f[k + j] \in Int
    BY <1>1, <1>2, <2>1 DEF Numbers
  <2> QED
    BY <2>2, <2>3, <2>4
<1> HIDE DEF T
<1>5. \A j \in 0..(n - k) : j \in T
  BY <1>0, <1>3, <1>4, Upwards
<1> QED
  BY <1>5 DEF T

\* One number has changed.
LEMMA SumChanged ==
  ASSUME NEW n \in Nat, NEW f, Numbers(f, n), NEW e, Numbers(e, n), NEW p \in 1..n,
         \A i \in 1..n : i # p => e[i] = f[i]
  PROVE  SumTo(e, n) = SumTo(f, n) + (e[p] - f[p])
<1> DEFINE T == {k \in 0..n : SumTo(e, k) = SumTo(f, k) + (IF p <= k THEN e[p] - f[p] ELSE 0)}
<1>1. /\ SumTo(f, 0) = 0 /\ \A k \in 0..n : SumTo(f, k) \in Int
      /\ \A k \in 1..n : SumTo(f, k) = SumTo(f, k - 1) + f[k]
      /\ SumTo(e, 0) = 0 /\ \A k \in 0..n : SumTo(e, k) \in Int
      /\ \A k \in 1..n : SumTo(e, k) = SumTo(e, k - 1) + e[k]
  BY SumSteps
<1>2. 0 \in T
  BY <1>1
<1>3. ASSUME NEW k \in 1..n, k - 1 \in T PROVE k \in T
  <2>1. PICK i \in 0..n : i = k - 1 /\ k \in 0..n
    OBVIOUS
  <2>2. /\ SumTo(e, i) = SumTo(f, i) + (IF p <= i THEN e[p] - f[p] ELSE 0)
        /\ SumTo(e, i) \in Int /\ SumTo(f, i) \in Int
    BY <1>1, <1>3, <2>1
  <2>3. SumTo(f, k) = SumTo(f, i) + f[k] /\ SumTo(e, k) = SumTo(e, i) + e[k]
    BY <1>1, <2>1
  <2>4. e[k] \in Int /\ f[k] \in Int /\ e[p] \in Int /\ f[p] \in Int
    BY DEF Numbers
  <2>5. CASE k = p
    BY <2>1, <2>2, <2>3, <2>4, <2>5
  <2>6. CASE k # p
    <3>1. e[k] = f[k] /\ (p <= k <=> p <= i)
      BY <2>1, <2>6
    <3> QED
      BY <2>1, <2>2, <2>3, <2>4, <3>1
  <2> QED
    BY <2>5, <2>6
<1> HIDE DEF T
<1>4. \A k \in 0..n : k \in T
  BY <1>2, <1>3, Upwards
<1>5. n \in T /\ p <= n
  BY <1>4
<1> QED
  BY <1>5 DEF T

\* Total adds a list up.
LEMMA TotalIsSum ==
  ASSUME NEW s, IsList(s), NEW n, n = Len(s), Numbers(s, n)
  PROVE  Total(s) = SumTo(s, n)
<1>1. PICK r : StepByStep(r, "sum", 0, 0, s, Total(s))
  BY SumStepByStep
<1>2. n \in Nat /\ r[0] = 0 /\ r[n] = Total(s) /\ \A i \in 1..n : r[i] = r[i - 1] + s[i]
  BY <1>1, ListParts DEF StepByStep, Fold
<1>3. SumTo(s, 0) = 0 /\ \A k \in 1..n : SumTo(s, k) = SumTo(s, k - 1) + s[k]
  BY <1>2, SumSteps
<1> DEFINE T == {k \in 0..n : r[k] = SumTo(s, k)}
<1>4. 0 \in T
  BY <1>2, <1>3
<1>5. ASSUME NEW k \in 1..n, k - 1 \in T PROVE k \in T
  BY <1>2, <1>3, <1>5
<1> HIDE DEF T
<1>6. \A k \in 0..n : k \in T
  BY <1>2, <1>4, <1>5, Upwards
<1>7. n \in T
  BY <1>2, <1>6
<1> QED
  BY <1>2, <1>7 DEF T

-----------------------------------------------------------------------------
(***************************************************************************)
(* Pieces of lists, and transfers one piece after the other.               *)
(***************************************************************************)

\* q is what comes after place a in s, up to place b.
IsPiece(q, s, a, b) == IsList(q) /\ Len(q) = b - a /\ \A i \in 1..(b - a) : q[i] = s[a + i]

\* A run of places picks a piece of a list.
LEMMA PickedRun ==
  ASSUME NEW s, IsList(s), NEW n, n = Len(s), NEW a \in Nat, NEW b \in Nat, a <= b, b <= n,
         NEW places, places = (a + 1)..b, NEW q, q = Picked(s, places)
  PROVE  IsPiece(q, s, a, b)
<1>1. n \in Nat /\ DOMAIN s = 1..n
  BY ListParts
<1>2. IsFiniteSet(places) /\ Cardinality(places) = b - a
  <2>1. a + 1 \in Int /\ b \in Int
    BY <1>1
  <2>2. IsFiniteSet((a + 1)..b) /\ Cardinality((a + 1)..b) = IF a + 1 > b THEN 0 ELSE b - (a + 1) + 1
    BY <2>1, FS_Interval
  <2> QED
    BY <1>1, <2>2
<1>3. places \subseteq DOMAIN s
  BY <1>1
<1>4. IsList(q) /\ Len(q) = b - a
  BY <1>2, <1>3, PickedLists
<1> DEFINE Below(x) == {y \in places : y < x}
<1>5. ASSUME NEW x \in places PROVE Cardinality(Below(x)) = x - (a + 1)
  <2>1. Below(x) = (a + 1)..(x - 1)
    BY <1>1
  <2>2. a + 1 \in Int /\ x - 1 \in Int
    BY <1>1
  <2>3. Cardinality((a + 1)..(x - 1)) = IF a + 1 > x - 1 THEN 0 ELSE x - 1 - (a + 1) + 1
    BY <2>2, FS_Interval
  <2>4. (IF a + 1 > x - 1 THEN 0 ELSE x - 1 - (a + 1) + 1) = x - (a + 1)
    BY <1>1
  <2> HIDE DEF Below
  <2> QED
    BY <2>1, <2>3, <2>4
<1>6. ASSUME NEW i \in 1..(b - a) PROVE q[i] = s[a + i]
  <2>1. q[i] = s[CHOOSE x \in places : Cardinality(Below(x)) = i - 1]
    BY <1>1, <1>2 DEF Picked, InOrder
  <2>2. a + i \in places /\ a + i - (a + 1) = i - 1
    BY <1>1
  <2>3. \A x \in places : x - (a + 1) = i - 1 => x = a + i
    BY <1>1
  <2> HIDE DEF Below
  <2>4. PICK x : x = CHOOSE z \in places : Cardinality(Below(z)) = i - 1
    OBVIOUS
  <2>5. x \in places /\ Cardinality(Below(x)) = i - 1
    <3>1. Cardinality(Below(a + i)) = i - 1
      BY <1>5, <2>2
    <3> QED
      BY <2>2, <2>4, <3>1
  <2>6. x = a + i
    BY <1>5, <2>3, <2>5
  <2> QED
    BY <2>1, <2>4, <2>6
<1> QED
  BY <1>4, <1>6 DEF IsPiece

\* Lists whose timestamps increase.
InTime(s) ==
  /\ \A i \in 1..Len(s) : s[i].ts \in Nat
  /\ \A i \in 1..Len(s) : \A j \in 1..Len(s) : i < j => s[i].ts < s[j].ts

\* Lists whose timestamps do not decrease.
Ordered(s) ==
  /\ \A i \in 1..Len(s) : s[i].ts \in Nat
  /\ \A i \in 1..Len(s) : \A j \in 1..Len(s) : i < j => s[i].ts <= s[j].ts

\* A cutoff cuts such a list in two.
LEMMA CutOrdered ==
  ASSUME NEW s, IsList(s), Ordered(s), NEW c \in Nat, NEW n, n = Len(s)
  PROVE  \E k \in 0..n :
            /\ \A i \in 1..n : s[i].ts < c <=> i <= k
            /\ IsPiece(Until(s, c), s, 0, k) /\ IsPiece(Since(s, c), s, k, n)
<1>1. n \in Nat /\ DOMAIN s = 1..n
  BY ListParts
<1> DEFINE T == {i \in 1..n : s[i].ts < c}
<1>2. PICK k \in 0..n : \A i \in 1..n : s[i].ts < c <=> i <= k
  <2>1. CASE T = {}
    <3>1. \A i \in 1..n : ~(s[i].ts < c) /\ ~(i <= 0)
      BY <1>1, <2>1
    <3>2. 0 \in 0..n
      BY <1>1
    <3> QED
      BY <3>1, <3>2
  <2>2. CASE T # {}
    <3>1. PICK k \in T : \A i \in T : i <= k
      <4> HIDE DEF T
      <4>1. T \subseteq 1..n
        BY DEF T
      <4> QED
        BY <1>1, <2>2, <4>1, Greatest
    <3>2. ASSUME NEW i \in 1..n, i <= k PROVE s[i].ts < c
      <4>1. i = k \/ i < k
        BY <1>1, <3>1, <3>2
      <4>2. s[i].ts \in Nat /\ s[k].ts \in Nat /\ s[k].ts < c /\ (i < k => s[i].ts <= s[k].ts)
        BY <3>1 DEF Ordered
      <4> QED
        BY <4>1, <4>2
    <3>3. k \in 0..n
      BY <1>1, <3>1
    <3> QED
      BY <3>1, <3>2, <3>3
  <2> QED
    BY <2>1, <2>2
<1>3. /\ {i \in DOMAIN s : s[i].ts < c} = (0 + 1)..k
      /\ {i \in DOMAIN s : s[i].ts >= c} = (k + 1)..n
  <2>1. \A i \in 1..n : s[i].ts \in Nat
    BY DEF Ordered
  <2>2. \A i : i \in (0 + 1)..k <=> i \in 1..n /\ i <= k
    BY <1>1
  <2>3. \A i : i \in (k + 1)..n <=> i \in 1..n /\ ~(i <= k)
    BY <1>1
  <2>4. \A i \in 1..n : s[i].ts >= c <=> ~(i <= k)
    BY <1>2, <2>1
  <2> QED
    BY <1>1, <1>2, <2>2, <2>3, <2>4
<1>4. IsPiece(Until(s, c), s, 0, k)
  <2>1. PICK q : q = Until(s, c)
    OBVIOUS
  <2>2. 0 \in Nat /\ k \in Nat /\ 0 <= k /\ k <= n
    BY <1>1
  <2>3. PICK places : places = (0 + 1)..k /\ q = Picked(s, places)
    BY <1>3, <2>1 DEF Until
  <2> QED
    BY <2>1, <2>2, <2>3, PickedRun
<1>5. IsPiece(Since(s, c), s, k, n)
  <2>1. PICK q : q = Since(s, c)
    OBVIOUS
  <2>2. k \in Nat /\ n \in Nat /\ k <= n /\ n <= n
    BY <1>1
  <2>3. PICK places : places = (k + 1)..n /\ q = Picked(s, places)
    BY <1>3, <2>1 DEF Since
  <2> QED
    BY <2>1, <2>2, <2>3, PickedRun
<1> QED
  BY <1>2, <1>4, <1>5

LEMMA Cut ==
  ASSUME NEW s, IsList(s), InTime(s), NEW c \in Nat, NEW n, n = Len(s)
  PROVE  \E k \in 0..n :
            /\ \A i \in 1..n : s[i].ts < c <=> i <= k
            /\ IsPiece(Until(s, c), s, 0, k) /\ IsPiece(Since(s, c), s, k, n)
<1>1. Ordered(s)
  BY DEF InTime, Ordered
<1> QED
  BY <1>1, CutOrdered

\* A finite set of numbers in order: each of them once.
LEMMA NumbersInOrder ==
  ASSUME NEW S, S \subseteq Nat, IsFiniteSet(S), NEW q, q = InOrder(S, LAMBDA l : l)
  PROVE  /\ IsList(q) /\ Len(q) = Cardinality(S) /\ Range(q) = S
         /\ \A i \in 1..Len(q) : \A j \in 1..Len(q) : q[i] = q[j] => i = j
<1> DEFINE n == Cardinality(S)
<1>1. n \in Nat
  BY FS_CardinalityType
<1>2. ASSUME NEW x \in S PROVE Rank(S, FALSE, x) = Cardinality({y \in S : y < x})
  BY DEF Rank, Earlier
<1>3. q = [i \in 1..n |-> CHOOSE x \in S : Cardinality({y \in S : y < x}) = i - 1]
  BY DEF InOrder
<1>4. IsList(q) /\ Len(q) = n
  <2>1. q = [i \in 1..n |-> q[i]]
    BY <1>3
  <2> QED
    BY <1>1, <2>1, ListOf
<1>5. ASSUME NEW i \in 1..n PROVE q[i] \in S /\ Rank(S, FALSE, q[i]) = i - 1
  <2>1. i - 1 \in 0..(n - 1)
    BY <1>1
  <2>2. PICK x \in S : Rank(S, FALSE, x) = i - 1
    BY <2>1, RankIsOnto
  <2>3. q[i] = CHOOSE z \in S : Cardinality({y \in S : y < z}) = i - 1
    BY <1>3
  <2>4. Cardinality({y \in S : y < x}) = i - 1
    BY <1>2, <2>2
  <2>5. q[i] \in S /\ Cardinality({y \in S : y < q[i]}) = i - 1
    BY <2>3, <2>4
  <2> QED
    BY <1>2, <2>5
<1>6. ASSUME NEW i \in 1..n, NEW j \in 1..n, q[i] = q[j] PROVE i = j
  <2>1. i - 1 = j - 1
    BY <1>5, <1>6
  <2> QED
    BY <1>1, <2>1
<1>7. ASSUME NEW x \in S PROVE x \in Range(q)
  <2>1. PICK k \in 0..(n - 1) : k = Rank(S, FALSE, x)
    BY RankGrows
  <2>2. k + 1 \in 1..n /\ (k + 1) - 1 = k
    <3> HIDE DEF n
    <3> QED
      BY <1>1
  <2>3. PICK y : y = q[k + 1] /\ y \in S /\ Rank(S, FALSE, y) = k
    BY <1>5, <2>2
  <2>4. x = y
    <3>0. ~(k < k)
      BY <1>1
    <3>1. x \in Nat /\ y \in Nat
      BY <2>3
    <3>2. CASE x < y
      <4>1. x \in Earlier(S, FALSE, y)
        BY <3>2 DEF Earlier
      <4>2. Rank(S, FALSE, x) < Rank(S, FALSE, y)
        BY <2>3, <4>1, RankGrows
      <4> QED
        BY <2>1, <2>3, <3>0, <4>2
    <3>3. CASE y < x
      <4>1. y \in Earlier(S, FALSE, x)
        BY <2>3, <3>3 DEF Earlier
      <4>2. Rank(S, FALSE, y) < Rank(S, FALSE, x)
        BY <2>3, <4>1, RankGrows
      <4> QED
        BY <2>1, <2>3, <3>0, <4>2
    <3> QED
      BY <3>1, <3>2, <3>3
  <2> HIDE DEF n
  <2> QED
    BY <1>4, <2>2, <2>3, <2>4, ListParts
<1>8. Range(q) \subseteq S
  <2>1. ASSUME NEW x \in Range(q) PROVE x \in S
    <3>0. \A z : z \in Range(q) <=> \E i \in 1..Len(q) : z = q[i]
      BY <1>4, ListParts
    <3>1. PICK i \in 1..Len(q) : x = q[i]
      BY <3>0
    <3> HIDE DEF n
    <3> QED
      BY <1>4, <1>5, <3>1
  <2> QED
    BY <2>1
<1> HIDE DEF n
<1> QED
  BY <1>4, <1>6, <1>7, <1>8 DEF n

\* Lists of the same length with the same elements are the same.
LEMMA SameLists ==
  ASSUME NEW s, IsList(s), NEW t, IsList(t), Len(s) = Len(t), \A i \in 1..Len(s) : s[i] = t[i]
  PROVE  s = t
<1>1. s = [i \in 1..Len(s) |-> s[i]] /\ t = [i \in 1..Len(s) |-> t[i]]
  BY ListParts
<1> QED
  BY <1>1

IsRecord(o) == o = [f \in DOMAIN o |-> o[f]]

\* Deduplicating leaves a list as it is whose timestamps increase from above
\* the floor.
LEMMA NothingToDeduplicate ==
  ASSUME NEW s, IsList(s), InTime(s), NEW floor \in Nat,
         \A i \in 1..Len(s) : floor < s[i].ts /\ IsRecord(s[i])
  PROVE  DedupeTimestamps(s, floor) = s
<1>1. PICK r, n, q : StepByStep(r, "later", floor, <<>>, s, q) /\ n = Len(s)
                     /\ q = DedupeTimestamps(s, floor)
  BY LaterStepByStep
<1>2. /\ r[0] = <<>> /\ r[n] = q /\ n \in Nat
      /\ \A i \in 1..n : r[i] = AppendLater(r[i - 1], s[i], floor)
  BY <1>1, ListParts DEF StepByStep, Fold
<1> DEFINE T == {k \in 0..n : IsList(r[k]) /\ Len(r[k]) = k /\ \A i \in 1..k : r[k][i] = s[i]}
<1>3. 0 \in T
  BY <1>2, NoList
<1>4. ASSUME NEW k \in 1..n, k - 1 \in T PROVE k \in T
  <2>1. PICK j, done, new : j \in 0..n /\ j = k - 1 /\ done = r[j] /\ new = r[k] /\ k = j + 1
    BY <1>2
  <2>2. IsList(done) /\ Len(done) = j /\ \A i \in 1..j : done[i] = s[i]
    BY <1>4, <2>1
  <2>3. PICK prev : prev = IF done = <<>> THEN floor ELSE Last(done).ts
    OBVIOUS
  <2>4. prev \in Nat /\ prev < s[k].ts
    <3>1. CASE done = <<>>
      BY <1>1, <2>3, <3>1
    <3>2. CASE done # <<>>
      <4>1. j # 0
        BY <2>2, <3>2 DEF IsList
      <4>2. j \in 1..n /\ j < k
        BY <1>2, <2>1, <4>1
      <4>3. Last(done) = s[j] /\ prev = s[j].ts
        <5>1. Last(done) = done[j] /\ j \in 1..j
          BY <2>2, <4>2 DEF Last
        <5> QED
          BY <2>2, <2>3, <3>2, <5>1
      <4> QED
        BY <1>1, <4>2, <4>3 DEF InTime
    <3> QED
      BY <3>1, <3>2
  <2>5. s[k].ts \in Nat
    BY <1>1 DEF InTime
  <2>6. new = Append(done, [s[k] EXCEPT !.ts = IF @ <= prev THEN prev + 1 ELSE @])
    BY <1>2, <2>1, <2>3 DEF AppendLater
  <2>7. new = Append(done, [s[k] EXCEPT !.ts = @])
    <3>1. ~(s[k].ts <= prev)
      BY <2>4, <2>5
    <3> QED
      BY <2>6, <3>1
  <2>8. [s[k] EXCEPT !.ts = @] = s[k]
    BY <1>1 DEF IsRecord
  <2>9. /\ IsList(new) /\ Len(new) = k /\ \A i \in 1..j : new[i] = s[i]
        /\ new[k] = s[k]
    <3>1. new = Append(done, s[k])
      BY <2>7, <2>8
    <3>2. /\ IsList(new) /\ Len(new) = Len(done) + 1 /\ \A i \in 1..Len(done) : new[i] = done[i]
          /\ new[Len(done) + 1] = s[k]
      BY <2>2, <3>1, Appended
    <3> QED
      BY <2>1, <2>2, <3>2
  <2>10. \A i \in 1..k : i \in 1..j \/ i = k
    BY <2>1
  <2>11. \A i \in 1..k : new[i] = s[i]
    BY <2>9, <2>10
  <2> QED
    BY <1>2, <2>1, <2>9, <2>11
<1> HIDE DEF T
<1>5. \A k \in 0..n : k \in T
  BY <1>2, <1>3, <1>4, Upwards
<1>6. n \in T
  BY <1>2, <1>5
<1>7. IsList(q) /\ Len(q) = n /\ \A i \in 1..n : q[i] = s[i]
  BY <1>2, <1>6 DEF T
<1> QED
  BY <1>1, <1>7, SameLists

\* A fold over two lists, one after the other.
LEMMA FoldsJoin ==
  ASSUME NEW kind, NEW floor, NEW base, NEW s, NEW t, IsList(s), IsList(t), NEW middle, NEW last, NEW result,
         NEW r, NEW u, NEW v,
         StepByStep(r, kind, floor, base, s, middle),
         StepByStep(u, kind, floor, middle, t, last),
         StepByStep(v, kind, floor, base, s \o t, result)
  PROVE  result = last
<1> DEFINE n == Len(s)
           m == Len(t)
           q == s \o t
<1>1. /\ n \in Nat /\ m \in Nat /\ Len(q) = n + m
      /\ \A i \in 1..n : q[i] = s[i]
      /\ \A i \in 1..m : q[n + i] = t[i]
  <2>1. s \in Seq(Range(s)) /\ t \in Seq(Range(t))
    BY DEF IsList
  <2> QED
    BY <2>1
<1> HIDE DEF n, m, q
<1>2. /\ r[0] = base /\ r[n] = middle /\ \A i \in 1..n : r[i] = Fold(kind, floor, r[i - 1], s[i])
      /\ u[0] = middle /\ u[m] = last /\ \A i \in 1..m : u[i] = Fold(kind, floor, u[i - 1], t[i])
      /\ v[0] = base /\ v[n + m] = result
      /\ \A i \in 1..(n + m) : v[i] = Fold(kind, floor, v[i - 1], q[i])
  BY <1>1 DEF StepByStep, n, m, q
<1> DEFINE S == {i \in 0..n : v[i] = r[i]}
           T == {i \in 0..m : v[n + i] = u[i]}
<1>3. 0 \in S
  BY <1>1, <1>2
<1>4. ASSUME NEW i \in 1..n, i - 1 \in S PROVE i \in S
  <2>1. i \in 1..(n + m) /\ i \in 0..n
    BY <1>1
  <2>2. v[i - 1] = r[i - 1] /\ q[i] = s[i]
    BY <1>1, <1>4
  <2>3. v[i] = Fold(kind, floor, r[i - 1], s[i])
    BY <1>2, <2>1, <2>2
  <2> QED
    BY <1>2, <2>1, <2>3
<1> HIDE DEF S
<1>5. \A i \in 0..n : i \in S
  BY <1>1, <1>3, <1>4, Upwards
<1>6. n \in S
  BY <1>1, <1>5
<1>7. 0 \in T
  <2>1. v[n] = middle /\ n + 0 = n
    BY <1>1, <1>2, <1>6 DEF S
  <2> QED
    BY <1>1, <1>2, <2>1
<1>8. ASSUME NEW i \in 1..m, i - 1 \in T PROVE i \in T
  <2>1. PICK j : j = n + i /\ j \in 1..(n + m) /\ j - 1 = n + (i - 1) /\ i \in 0..m
    BY <1>1
  <2>2. v[j - 1] = u[i - 1] /\ q[j] = t[i]
    BY <1>1, <1>8, <2>1
  <2>3. v[j] = Fold(kind, floor, u[i - 1], t[i])
    BY <1>2, <2>1, <2>2
  <2> QED
    BY <1>2, <2>1, <2>3
<1> HIDE DEF T
<1>9. \A i \in 0..m : i \in T
  BY <1>1, <1>7, <1>8, Upwards
<1>10. m \in T
  BY <1>1, <1>9
<1> QED
  BY <1>2, <1>10 DEF T

LEMMA TransfersJoin ==
  ASSUME NEW L, NEW s, NEW t, IsList(s), IsList(t)
  PROVE  CreateTransfers(L, s \o t) = CreateTransfers(CreateTransfers(L, s), t)
<1>1. IsList(s \o t)
  BY Joined
<1>2. PICK middle, last, result : /\ middle = CreateTransfers(L, s)
                                  /\ last = CreateTransfers(middle, t)
                                  /\ result = CreateTransfers(L, s \o t)
  OBVIOUS
<1>3. PICK r, u, v : /\ StepByStep(r, "transfers", 0, L, s, middle)
                     /\ StepByStep(u, "transfers", 0, middle, t, last)
                     /\ StepByStep(v, "transfers", 0, L, s \o t, result)
  BY <1>1, <1>2, TransfersStepByStep
<1>4. result = last
  BY <1>3, FoldsJoin
<1> QED
  BY <1>2, <1>4

LEMMA NoTransfers == \A L : CreateTransfers(L, <<>>) = L
<1> TAKE L
<1>1. PICK r : StepByStep(r, "transfers", 0, L, <<>>, CreateTransfers(L, <<>>))
  BY NoList, TransfersStepByStep
<1> QED
  BY <1>1, NoList DEF StepByStep

LEMMA OneOfTransfers == \A L, t : IsList(<<t>>) /\ CreateTransfers(L, <<t>>) = CreateTransfer(L, t)
<1> TAKE L, t
<1>1. <<t>> \in Seq({t}) /\ Len(<<t>>) = 1 /\ <<t>>[1] = t
  OBVIOUS
<1>2. PICK s : s = <<t>> /\ IsList(s) /\ Len(s) = 1 /\ s[1] = t
  BY <1>1, Listed
<1>3. PICK r : StepByStep(r, "transfers", 0, L, s, CreateTransfers(L, s))
  BY <1>2, TransfersStepByStep
<1>4. /\ r[0] = L /\ r[1] = CreateTransfers(L, s)
      /\ \A i \in 1..1 : r[i] = CreateTransfer(r[i - 1], s[i])
  BY <1>2, <1>3 DEF StepByStep, Fold
<1>5. r[1] = CreateTransfer(L, t)
  BY <1>2, <1>4
<1> QED
  BY <1>2, <1>4, <1>5

LEMMA OneMoreTransfer ==
  ASSUME NEW L, NEW s, IsList(s), NEW t
  PROVE  CreateTransfers(L, Append(s, t)) = CreateTransfer(CreateTransfers(L, s), t)
<1>1. Append(s, t) = s \o <<t>>
  <2>1. PICK S : s \in Seq(S) /\ t \in S
    <3>1. s \in Seq(Range(s) \cup {t}) /\ t \in Range(s) \cup {t}
      BY DEF IsList
    <3> QED
      BY <3>1
  <2> QED
    BY <2>1
<1> QED
  BY <1>1, OneOfTransfers, TransfersJoin

-----------------------------------------------------------------------------
(***************************************************************************)
(* Ledgers in which accounts have only moved posted amounts.               *)
(***************************************************************************)

\* The record of an account.
Account(id, ledgerId, limit, ts, dr, cr, drp, crp) ==
  [id |-> id, ledger |-> ledgerId, limit |-> limit, ts |-> ts,
   dr |-> dr, cr |-> cr, drp |-> drp, crp |-> crp]

LEMMA AccountHas ==
  ASSUME NEW i, NEW l, NEW m, NEW ts, NEW d, NEW c, NEW p, NEW q, NEW a,
         a = Account(i, l, m, ts, d, c, p, q)
  PROVE  /\ DOMAIN a = AccountFields /\ IsRecord(a) /\ a.id = i /\ a.ledger = l /\ a.limit = m /\ a.ts = ts
         /\ a.dr = d /\ a.cr = c /\ a.drp = p /\ a.crp = q
  BY DEF Account, AccountFields, IsRecord

\* The account with other posted balances, or more on one side.
Holding(a, x, y) == [a EXCEPT !.dr = x, !.cr = y]
Debited(a, x, y) == [a EXCEPT !.dr = @ + x, !.drp = @ + y]
Credited(a, x, y) == [a EXCEPT !.cr = @ + x, !.crp = @ + y]

LEMMA AccountWith ==
  ASSUME NEW i, NEW l, NEW m, NEW ts, NEW d, NEW c, NEW p, NEW q, NEW a,
         a = Account(i, l, m, ts, d, c, p, q), NEW x, NEW y
  PROVE  /\ Holding(a, x, y) = Account(i, l, m, ts, x, y, p, q)
         /\ Debited(a, x, y) = Account(i, l, m, ts, d + x, c, p + y, q)
         /\ Credited(a, x, y) = Account(i, l, m, ts, d, c + x, p, q + y)
<1>1. \A u, d1, c1, p1, q1 :
         /\ [Account(i, l, m, ts, d1, c1, p1, q1) EXCEPT !.dr = u] = Account(i, l, m, ts, u, c1, p1, q1)
         /\ [Account(i, l, m, ts, d1, c1, p1, q1) EXCEPT !.cr = u] = Account(i, l, m, ts, d1, u, p1, q1)
         /\ [Account(i, l, m, ts, d1, c1, p1, q1) EXCEPT !.drp = u] = Account(i, l, m, ts, d1, c1, u, q1)
         /\ [Account(i, l, m, ts, d1, c1, p1, q1) EXCEPT !.crp = u] = Account(i, l, m, ts, d1, c1, p1, u)
  BY DEF Account
<1>2. [a EXCEPT !.dr = x, !.cr = y] = Account(i, l, m, ts, x, y, p, q)
  <2>1. PICK b : b = [a EXCEPT !.dr = x]
    OBVIOUS
  <2>2. [a EXCEPT !.dr = x, !.cr = y] = [b EXCEPT !.cr = y]
    BY <2>1
  <2>3. b = Account(i, l, m, ts, x, c, p, q)
    BY <1>1, <2>1
  <2> QED
    BY <1>1, <2>2, <2>3
<1>3. [a EXCEPT !.dr = @ + x, !.drp = @ + y] = Account(i, l, m, ts, d + x, c, p + y, q)
  <2>1. PICK b : b = [a EXCEPT !.dr = a.dr + x]
    OBVIOUS
  <2>2. [a EXCEPT !.dr = @ + x, !.drp = @ + y] = [b EXCEPT !.drp = a.drp + y]
    BY <2>1
  <2>3. a.dr = d /\ a.drp = p
    BY AccountHas
  <2>4. b = Account(i, l, m, ts, d + x, c, p, q)
    BY <1>1, <2>1, <2>3
  <2> QED
    BY <1>1, <2>2, <2>3, <2>4
<1>4. [a EXCEPT !.cr = @ + x, !.crp = @ + y] = Account(i, l, m, ts, d, c + x, p, q + y)
  <2>1. PICK b : b = [a EXCEPT !.cr = a.cr + x]
    OBVIOUS
  <2>2. [a EXCEPT !.cr = @ + x, !.crp = @ + y] = [b EXCEPT !.crp = a.crp + y]
    BY <2>1
  <2>3. a.cr = c /\ a.crp = q
    BY AccountHas
  <2>4. b = Account(i, l, m, ts, d, c + x, p, q)
    BY <1>1, <2>1, <2>3
  <2> QED
    BY <1>1, <2>2, <2>3, <2>4
<1> QED
  BY <1>2, <1>3, <1>4 DEF Holding, Debited, Credited

\* B is what A becomes when t posts x and reserves y.
TwoSides(A, B, t, x, y) ==
  /\ DOMAIN B = DOMAIN A /\ B = [id \in DOMAIN A |-> B[id]]
  /\ B[t.debit] = Debited(A[t.debit], x, y) /\ B[t.credit] = Credited(A[t.credit], x, y)
  /\ \A id \in DOMAIN A \ {t.debit, t.credit} : B[id] = A[id]

\* What a transfer does to the accounts of a ledger.
LEMMA TransferMoves ==
  ASSUME NEW L, NEW A, A = L.accounts, NEW t, t.debit # t.credit,
         t.debit \in DOMAIN A, t.credit \in DOMAIN A,
         NEW x, x = Posts(t), NEW y, y = Reserves(L, t), NEW R, R = WithTransfer(L, t)
  PROVE  /\ R = [accounts |-> R.accounts, transfers |-> R.transfers]
         /\ R.transfers = Append(L.transfers, t)
         /\ TwoSides(A, R.accounts, t, x, y)
<1>1. /\ R = [accounts |-> R.accounts, transfers |-> R.transfers]
      /\ R.transfers = Append(L.transfers, t)
      /\ R.accounts = [A EXCEPT
             ![t.debit].dr   = @ + x, ![t.debit].drp  = @ + y,
             ![t.credit].cr  = @ + x, ![t.credit].crp = @ + y]
  BY DEF WithTransfer
<1>2. PICK d, c, B : /\ d = t.debit /\ c = t.credit /\ B = R.accounts
                     /\ B = [A EXCEPT ![d].dr = @ + x, ![d].drp = @ + y, ![c].cr = @ + x, ![c].crp = @ + y]
  BY <1>1
<1>3. d \in DOMAIN A /\ c \in DOMAIN A /\ d # c
  BY <1>2
<1>4. DOMAIN B = DOMAIN A
  BY <1>2
<1>5. B = [id \in DOMAIN B |-> B[id]]
  BY <1>2
<1>6. B[d] = Debited(A[d], x, y)
  BY <1>2, <1>3 DEF Debited
<1>7. B[c] = Credited(A[c], x, y)
  BY <1>2, <1>3 DEF Credited
<1>8. \A id \in DOMAIN A \ {d, c} : B[id] = A[id]
  BY <1>2, <1>3
<1>9. TwoSides(A, B, t, x, y)
  <2>1. B = [id \in DOMAIN A |-> B[id]]
    BY <1>4, <1>5
  <2>2. t.debit = d /\ t.credit = c
    BY <1>2
  <2> QED
    BY <1>4, <1>6, <1>7, <1>8, <2>1, <2>2, Zenon DEF TwoSides
<1>10. R.accounts = B
  BY <1>2
<1> QED
  BY <1>1, <1>9, <1>10, Zenon

\* Accounts with ids of their own, in the order of their timestamps, are all
\* opened in an empty ledger.
LEMMA AllOpened ==
  ASSUME NEW s, IsList(s), InTime(s), NEW n, n = Len(s), \A i \in 1..n : s[i].ts > 0,
         \A i \in 1..n : \A j \in 1..n : s[i].id = s[j].id => i = j,
         NEW R, R = CreateAccounts(EmptyLedger, s)
  PROVE  /\ R = [accounts |-> R.accounts, transfers |-> <<>>]
         /\ R.accounts = [id \in DOMAIN R.accounts |-> R.accounts[id]]
         /\ DOMAIN R.accounts = {s[i].id : i \in 1..n}
         /\ \A i \in 1..n : R.accounts[s[i].id] = Opened(s[i])
<1>1. PICK r : StepByStep(r, "accounts", 0, EmptyLedger, s, R)
  BY AccountsStepByStep
<1>2. /\ r[0] = EmptyLedger /\ r[n] = R /\ n \in Nat
      /\ \A i \in 1..n : r[i] = CreateAccount(r[i - 1], s[i])
  BY <1>1, ListParts DEF StepByStep, Fold
<1> DEFINE P(L, k) == /\ L = [accounts |-> L.accounts, transfers |-> <<>>]
                      /\ L.accounts = [id \in DOMAIN L.accounts |-> L.accounts[id]]
                      /\ DOMAIN L.accounts = {s[i].id : i \in 1..k}
                      /\ \A i \in 1..k : L.accounts[s[i].id] = Opened(s[i])
           T == {k \in 0..n : P(r[k], k)}
<1>3. 0 \in T
  <2>1. 1..0 = {} /\ 0 \in 0..n
    BY <1>2
  <2>2. P(EmptyLedger, 0)
    BY <2>1 DEF EmptyLedger
  <2> QED
    BY <1>2, <2>1, <2>2
<1>4. ASSUME NEW k \in 1..n, k - 1 \in T PROVE k \in T
  <2>1. PICK j, L, new : j \in 0..n /\ j = k - 1 /\ L = r[j] /\ new = r[k] /\ k = j + 1
    BY <1>2
  <2>2. P(L, j) /\ new = CreateAccount(L, s[k])
    BY <1>2, <1>4, <2>1
  <2>3. \A i \in 1..j : i \in 1..n /\ i < k /\ i # k
    BY <1>2, <2>1
  <2>4. \A i : i \in 1..k <=> i \in 1..j \/ i = k
    BY <1>2, <2>1
  <2>5. s[k].id \notin DOMAIN L.accounts
    BY <2>2, <2>3
  <2>6. s[k].ts # 0
    BY DEF InTime
  <2>7. After(s[k].ts, AccountTs(L))
    <3>1. ASSUME NEW id \in DOMAIN L.accounts PROVE L.accounts[id].ts < s[k].ts
      <4>1. PICK i \in 1..j : id = s[i].id
        BY <2>2
      <4>2. L.accounts[id] = Opened(s[i]) /\ Opened(s[i]).ts = s[i].ts
        BY <2>2, <4>1 DEF Opened
      <4> QED
        BY <2>3, <4>2 DEF InTime
    <3> QED
      BY <3>1 DEF After, AccountTs, Timestamps, Range
  <2>8. new = WithAccount(L, s[k])
    BY <2>2, <2>5, <2>6, <2>7 DEF CreateAccount, AccountRefused
  <2>9. /\ new = [accounts |-> new.accounts, transfers |-> <<>>]
        /\ new.accounts = [id \in DOMAIN L.accounts \cup {s[k].id} |->
              IF id = s[k].id THEN Opened(s[k]) ELSE L.accounts[id]]
    <3>1. /\ DOMAIN L = {"accounts", "transfers"} /\ L.transfers = <<>>
      <4> HIDE DEF P
      <4>1. L = [accounts |-> L.accounts, transfers |-> <<>>]
        BY <2>2 DEF P
      <4>2. DOMAIN [accounts |-> L.accounts, transfers |-> <<>>] = {"accounts", "transfers"}
        OBVIOUS
      <4>3. [accounts |-> L.accounts, transfers |-> <<>>].transfers = <<>>
        OBVIOUS
      <4> QED
        BY <4>1, <4>2, <4>3
    <3>2. PICK A : A = [id \in DOMAIN L.accounts \cup {s[k].id} |->
              IF id = s[k].id THEN Opened(s[k]) ELSE L.accounts[id]]
      OBVIOUS
    <3>3. new = [L EXCEPT !.accounts = A]
      BY <2>8, <3>2 DEF WithAccount
    <3>4. new.accounts = A /\ new.transfers = <<>> /\ new = [accounts |-> A, transfers |-> <<>>]
      BY <3>1, <3>3
    <3> QED
      BY <3>2, <3>4
  <2>10. /\ DOMAIN new.accounts = {s[i].id : i \in 1..k}
         /\ new.accounts = [id \in DOMAIN new.accounts |-> new.accounts[id]]
    BY <2>2, <2>4, <2>9
  <2>11. ASSUME NEW i \in 1..k PROVE new.accounts[s[i].id] = Opened(s[i])
    <3>1. CASE i = k
      BY <2>9, <3>1
    <3>2. CASE i \in 1..j
      <4>1. s[i].id # s[k].id /\ s[i].id \in DOMAIN L.accounts
        BY <2>2, <2>3, <3>2
      <4> QED
        BY <2>2, <2>9, <3>2, <4>1
    <3> QED
      BY <2>4, <3>1, <3>2
  <2>12. P(new, k)
    BY <2>9, <2>10, <2>11
  <2> QED
    BY <1>2, <2>1, <2>12
<1> HIDE DEF T
<1>5. \A k \in 0..n : k \in T
  BY <1>2, <1>3, <1>4, Upwards
<1>6. n \in T
  BY <1>2, <1>5
<1>7. P(R, n)
  BY <1>2, <1>6 DEF T
<1> QED
  BY <1>7

\* Accounts as they are opened: without balances.
IsBase(base) ==
  /\ base = [id \in DOMAIN base |-> base[id]]
  /\ \A id \in DOMAIN base :
        /\ base[id] = Account(id, base[id].ledger, base[id].limit, base[id].ts, 0, 0, 0, 0)
        /\ base[id].ts \in Nat /\ base[id].limit # "credits"

\* The ledger in which they have moved dr and cr by single-phase transfers s.
LedgerAt(base, dr, cr, s) ==
  [accounts  |-> [id \in DOMAIN base |-> Holding(base[id], dr[id], cr[id])],
   transfers |-> s]

\* Amounts, one for each account of base.
Moves(base, m) == m \in [DOMAIN base -> Int]
Plus(m, id, amount) == [m EXCEPT ![id] = @ + amount]

\* A transfer that such a ledger takes, and what comes of it.
Fits(base, dr, cr, s, t) ==
  /\ \A i \in 1..Len(s) : s[i].id # t.id /\ s[i].ts < t.ts
  /\ t.kind = "single" /\ t.debit # t.credit /\ t.amount \in Nat
  /\ \A id \in {t.debit, t.credit} :
        id \in DOMAIN base /\ base[id].ledger = t.ledger /\ base[id].ts < t.ts
  /\ base[t.debit].limit = "debits" => dr[t.debit] + t.amount <= cr[t.debit]

LEMMA OneTaken ==
  ASSUME NEW base, IsBase(base), NEW dr, Moves(base, dr), NEW cr, Moves(base, cr),
         NEW s, IsList(s), NEW t, Fits(base, dr, cr, s, t)
  PROVE  /\ CreateTransfer(LedgerAt(base, dr, cr, s), t)
               = LedgerAt(base, Plus(dr, t.debit, t.amount), Plus(cr, t.credit, t.amount), Append(s, t))
         /\ Moves(base, Plus(dr, t.debit, t.amount)) /\ Moves(base, Plus(cr, t.credit, t.amount))
<1> DEFINE L == LedgerAt(base, dr, cr, s)
           more == [dr EXCEPT ![t.debit] = @ + t.amount]
           less == [cr EXCEPT ![t.credit] = @ + t.amount]
<1>1. /\ L = [accounts |-> L.accounts, transfers |-> s] /\ L.transfers = s
      /\ DOMAIN L.accounts = DOMAIN base
      /\ L.accounts = [id \in DOMAIN base |-> Holding(base[id], dr[id], cr[id])]
  BY DEF LedgerAt
<1>2. ASSUME NEW id \in DOMAIN base
      PROVE  /\ L.accounts[id].id = id /\ L.accounts[id].dr = dr[id] /\ L.accounts[id].cr = cr[id]
             /\ L.accounts[id].ledger = base[id].ledger /\ L.accounts[id].limit = base[id].limit
             /\ L.accounts[id].ts = base[id].ts
             /\ L.accounts[id].drp = 0 /\ L.accounts[id].crp = 0
             /\ dr[id] \in Int /\ cr[id] \in Int
  <2>1. PICK ledgerId, limit, ts, b :
           /\ b = base[id] /\ ledgerId = b.ledger /\ limit = b.limit /\ ts = b.ts
           /\ b = Account(id, ledgerId, limit, ts, 0, 0, 0, 0)
    BY DEF IsBase
  <2>2. PICK a : a = L.accounts[id] /\ a = Holding(b, dr[id], cr[id])
    BY <1>1, <2>1
  <2>3. a = Account(id, ledgerId, limit, ts, dr[id], cr[id], 0, 0)
    BY <2>1, <2>2, AccountWith
  <2>4. /\ a.id = id /\ a.dr = dr[id] /\ a.cr = cr[id] /\ a.ledger = ledgerId /\ a.limit = limit
        /\ a.ts = ts /\ a.drp = 0 /\ a.crp = 0
    BY <2>3, AccountHas
  <2>5. dr[id] \in Int /\ cr[id] \in Int
    BY DEF Moves
  <2> HIDE DEF L
  <2> QED
    BY <2>1, <2>2, <2>4, <2>5
<1> HIDE DEF L
<1>3. ~TransferRefused(L, t)
  <2>0. \A o \in Range(L.transfers) : o.id # t.id /\ o.ts < t.ts
    <3>1. \A o \in Range(s) : \E i \in 1..Len(s) : o = s[i]
      BY ListParts
    <3>2. \A i \in 1..Len(s) : s[i].id # t.id /\ s[i].ts < t.ts
      BY DEF Fits
    <3> QED
      BY <1>1, <3>1, <3>2
  <2>1. t.id \notin TransferIds(L)
    BY <2>0 DEF TransferIds
  <2>2. After(t.ts, TransferTs(L))
    BY <2>0 DEF After, TransferTs, Timestamps
  <2>3. SidesFit(L, t)
    BY <1>1, <1>2 DEF SidesFit, Fits
  <2>4. WithinLimits(L, t)
    <3>1. ASSUME NEW id \in {t.debit, t.credit} PROVE ~LimitExceeded(L.accounts[id], t)
      <4>1. id \in DOMAIN base /\ base[id].limit # "credits" /\ t.amount \in Nat
        BY DEF Fits, IsBase
      <4>2. L.accounts[id].limit # "credits" /\ L.accounts[id].id = id
        BY <1>2, <4>1
      <4>3. ASSUME L.accounts[id].limit = "debits", t.debit = id
            PROVE  ~(L.accounts[id].dr + L.accounts[id].drp + t.amount > L.accounts[id].cr)
        <5>1. dr[id] + t.amount <= cr[id] /\ dr[id] \in Int /\ cr[id] \in Int
          BY <1>2, <4>1, <4>3 DEF Fits
        <5>2. L.accounts[id].dr = dr[id] /\ L.accounts[id].cr = cr[id] /\ L.accounts[id].drp = 0
          BY <1>2, <4>1
        <5> QED
          BY <4>1, <5>1, <5>2
      <4> QED
        BY <4>2, <4>3 DEF LimitExceeded
    <3> QED
      BY <3>1 DEF WithinLimits
  <2>5. t.kind = "single"
    BY DEF Fits
  <2> QED
    BY <2>1, <2>2, <2>3, <2>4, <2>5 DEF TransferRefused
<1>4. CreateTransfer(L, t) = WithTransfer(L, t)
  BY <1>3 DEF CreateTransfer
<1>5. /\ t.debit \in DOMAIN base /\ t.credit \in DOMAIN base /\ t.debit # t.credit /\ t.amount \in Nat
      /\ Posts(t) = t.amount /\ Reserves(L, t) = 0
  BY DEF Fits, Posts, Reserves
<1>6. /\ dr \in [DOMAIN base -> Int] /\ cr \in [DOMAIN base -> Int]
      /\ Moves(base, more) /\ Moves(base, less)
  BY <1>5 DEF Moves
<1>7. PICK R, A : R = WithTransfer(L, t) /\ A = R.accounts
  OBVIOUS
<1>8. /\ R = [accounts |-> A, transfers |-> Append(s, t)]
      /\ DOMAIN A = DOMAIN base /\ A = [id \in DOMAIN base |-> A[id]]
      /\ A[t.debit] = Debited(L.accounts[t.debit], t.amount, 0)
      /\ A[t.credit] = Credited(L.accounts[t.credit], t.amount, 0)
      /\ \A id \in DOMAIN base \ {t.debit, t.credit} : A[id] = L.accounts[id]
  <2>1. PICK x, y : x = Posts(t) /\ y = Reserves(L, t) /\ x = t.amount /\ y = 0
    BY <1>5
  <2>2. PICK B : B = L.accounts
    OBVIOUS
  <2>3. t.debit # t.credit /\ t.debit \in DOMAIN B /\ t.credit \in DOMAIN B
    BY <1>1, <1>5, <2>2
  <2>4. /\ R = [accounts |-> R.accounts, transfers |-> R.transfers]
        /\ R.transfers = Append(L.transfers, t)
        /\ TwoSides(B, R.accounts, t, x, y)
    BY <1>7, <2>1, <2>2, <2>3, TransferMoves
  <2> QED
    BY <1>1, <1>7, <2>1, <2>2, <2>4 DEF TwoSides
<1>11. ASSUME NEW id \in DOMAIN base
       PROVE  A[id] = Holding(base[id], more[id], less[id])
  <2>1. PICK ledgerId, limit, ts, b :
           /\ b = base[id] /\ ledgerId = b.ledger /\ limit = b.limit /\ ts = b.ts
           /\ b = Account(id, ledgerId, limit, ts, 0, 0, 0, 0)
    BY DEF IsBase
  <2>2. PICK a, d, c : /\ a = L.accounts[id] /\ d = dr[id] /\ c = cr[id]
                       /\ a = Holding(b, d, c)
    <3>1. L.accounts[id] = Holding(base[id], dr[id], cr[id])
      BY <1>1
    <3> QED
      BY <2>1, <3>1
  <2>3. a = Account(id, ledgerId, limit, ts, d, c, 0, 0)
    BY <2>1, <2>2, AccountWith
  <2>4. PICK u, v : /\ u = more[id] /\ v = less[id]
                    /\ u = (IF id = t.debit THEN d + t.amount ELSE d)
                    /\ v = (IF id = t.credit THEN c + t.amount ELSE c)
    BY <1>6, <2>2
  <2>5. Holding(b, u, v) = Account(id, ledgerId, limit, ts, u, v, 0, 0)
    BY <2>1, AccountWith
  <2>6. 0 + 0 = 0
    OBVIOUS
  <2> HIDE DEF more, less
  <2>7. A[id] = Account(id, ledgerId, limit, ts, u, v, 0, 0)
    <3>1. CASE id = t.debit
      <4>1. A[id] = Debited(a, t.amount, 0)
        BY <1>8, <2>2, <3>1
      <4>2. A[id] = Account(id, ledgerId, limit, ts, d + t.amount, c, 0 + 0, 0)
        BY <2>3, <4>1, AccountWith
      <4> QED
        BY <1>5, <2>4, <2>6, <3>1, <4>2
    <3>2. CASE id = t.credit
      <4>1. A[id] = Credited(a, t.amount, 0)
        BY <1>8, <2>2, <3>2
      <4>2. A[id] = Account(id, ledgerId, limit, ts, d, c + t.amount, 0, 0 + 0)
        BY <2>3, <4>1, AccountWith
      <4> QED
        BY <1>5, <2>4, <2>6, <3>2, <4>2
    <3>3. CASE id # t.debit /\ id # t.credit
      <4>1. A[id] = a
        BY <1>8, <2>2, <3>3
      <4> QED
        BY <2>3, <2>4, <3>3, <4>1
    <3> QED
      BY <3>1, <3>2, <3>3
  <2> QED
    BY <2>1, <2>4, <2>5, <2>7
<1> HIDE DEF more, less
<1>12. A = [id \in DOMAIN base |-> Holding(base[id], more[id], less[id])]
  BY <1>8, <1>11
<1>13. WithTransfer(L, t) = LedgerAt(base, more, less, Append(s, t))
  BY <1>7, <1>8, <1>12 DEF LedgerAt
<1> QED
  BY <1>4, <1>6, <1>13 DEF L, more, less, Plus

-----------------------------------------------------------------------------
(***************************************************************************)
(* The synthetic transfers of a plan, taken one by one: each account gets its *)
(* balances, and the genesis accounts the other side.                      *)
(***************************************************************************)

\* The synthetic transfers of what is to be moved.
SyntheticOf(s, floor) == [i \in DOMAIN s |-> Synthetic(s[i], i, floor + i)]

\* What is to be moved after s.
AndThen(s, debit, credit, amount, l) == s \o Moved(debit, credit, amount, l)

OneSynthetic(was, now, n, floor, debit, credit, amount, l) ==
  \E x : /\ now = Append(was, x)
         /\ x.id = n + 1 /\ x.ts = floor + n + 1 /\ x.kind = "single" /\ x.debit = debit
         /\ x.credit = credit /\ x.amount = amount /\ x.ledger = l

LEMMA SyntheticMore ==
  ASSUME NEW s, IsList(s), NEW n, n = Len(s), NEW floor \in Nat,
         NEW debit, NEW credit, NEW amount \in Nat, amount > 0, NEW l,
         NEW t, t = AndThen(s, debit, credit, amount, l),
         NEW was, was = SyntheticOf(s, floor), NEW now, now = SyntheticOf(t, floor)
  PROVE  /\ IsList(was) /\ Len(was) = n /\ IsList(t) /\ Len(t) = n + 1
         /\ OneSynthetic(was, now, n, floor, debit, credit, amount, l)
<1>a. PICK m : /\ m = [debit |-> debit, credit |-> credit, amount |-> amount, ledger |-> l]
               /\ Moved(debit, credit, amount, l) = <<m>>
  BY DEF Moved
<1>b. t = Append(s, m)
  <2>1. PICK S : s \in Seq(S) /\ m \in S
    <3>1. s \in Seq(Range(s) \cup {m}) /\ m \in Range(s) \cup {m}
      BY DEF IsList
    <3> QED
      BY <3>1
  <2> QED
    BY <1>a, <2>1 DEF AndThen
<1>c. PICK x : x = Synthetic(m, n + 1, floor + n + 1)
  OBVIOUS
<1>d. /\ x.id = n + 1 /\ x.ts = floor + n + 1 /\ x.kind = "single" /\ x.debit = debit
      /\ x.credit = credit /\ x.amount = amount /\ x.ledger = l
  BY <1>a, <1>c DEF Synthetic
<1> DEFINE q == SyntheticOf(s, floor)
           r == SyntheticOf(t, floor)
<1>0. n \in Nat /\ DOMAIN s = 1..n
  BY ListParts
<1>1. q = [j \in DOMAIN s |-> q[j]] /\ \A j \in 1..n : q[j] = Synthetic(s[j], j, floor + j)
  BY <1>0 DEF SyntheticOf
<1> HIDE DEF q
<1>2. IsList(q) /\ Len(q) = n
  BY <1>1, Mapped
<1>3. PICK u : /\ u = t /\ u = Append(s, m) /\ IsList(u) /\ Len(u) = n + 1
               /\ \A j \in 1..n : u[j] = s[j]
               /\ u[n + 1] = m
  BY <1>b, Appended
<1>4. DOMAIN u = 1..(n + 1)
  BY <1>3, ListParts
<1>5. r = [j \in DOMAIN u |-> r[j]] /\ \A j \in 1..(n + 1) : r[j] = Synthetic(u[j], j, floor + j)
  BY <1>3, <1>4 DEF SyntheticOf
<1> HIDE DEF r
<1>6. IsList(r) /\ Len(r) = n + 1
  BY <1>3, <1>5, Mapped
<1>7. PICK v : /\ v = Append(q, x) /\ IsList(v) /\ Len(v) = n + 1
               /\ \A j \in 1..n : v[j] = q[j]
               /\ v[n + 1] = x
  <2>1. PICK v : v = Append(q, x)
    OBVIOUS
  <2>2. /\ IsList(v) /\ Len(v) = Len(q) + 1
        /\ \A j \in 1..Len(q) : v[j] = q[j]
        /\ v[Len(q) + 1] = x
    BY <1>2, <2>1, Appended
  <2> QED
    BY <1>2, <2>1, <2>2
<1>8. ASSUME NEW j \in 1..(n + 1) PROVE r[j] = v[j]
  <2>1. CASE j = n + 1
    <3>1. n + 1 \in 1..(n + 1) /\ floor + (n + 1) = floor + n + 1
      BY <1>0
    <3>2. r[n + 1] = Synthetic(u[n + 1], n + 1, floor + (n + 1))
      BY <1>5, <3>1
    <3>3. r[n + 1] = x
      BY <1>3, <1>c, <3>1, <3>2
    <3> QED
      BY <1>7, <2>1, <3>3
  <2>2. CASE j # n + 1
    <3>1. j \in 1..n
      BY <1>0, <2>2
    <3>2. u[j] = s[j] /\ v[j] = q[j] /\ q[j] = Synthetic(s[j], j, floor + j)
      BY <1>1, <1>3, <1>7, <3>1
    <3>3. r[j] = Synthetic(u[j], j, floor + j)
      BY <1>5
    <3> QED
      BY <3>2, <3>3
  <2> QED
    BY <2>1, <2>2
<1>9. r = v
  BY <1>6, <1>7, <1>8, SameLists
<1> QED
  BY <1>2, <1>3, <1>7, <1>9, <1>d DEF q, r, OneSynthetic

\* The regular accounts q of a plan, in a ledger that has opened base, with
\* the genesis accounts among them.
LedgersIn(q) == {q[j].ledger : j \in 1..Len(q)}

Prepares(base, q, floor) ==
  /\ IsList(q) /\ floor \in Nat /\ IsBase(base)
  /\ \A j \in 1..Len(q) :
        /\ q[j].dr \in Nat /\ q[j].cr \in Nat
        /\ q[j].id \in DOMAIN base /\ base[q[j].id].ledger = q[j].ledger
        /\ q[j].cr > 0 => base[q[j].id].ts <= floor
        /\ q[j].dr > 0 => base[q[j].id].ts <= floor
        /\ base[q[j].id].limit = "debits" => q[j].dr <= q[j].cr
        /\ \A l \in LedgersIn(q) : q[j].id # GenesisCredit(l) /\ q[j].id # GenesisDebit(l)
  /\ \A l \in LedgersIn(q) : \A g \in {GenesisCredit(l), GenesisDebit(l)} :
        g \in DOMAIN base /\ base[g].ledger = l /\ base[g].limit = "none" /\ base[g].ts <= floor
  /\ \A j \in 1..Len(q) : \A k \in 1..Len(q) : q[j].id = q[k].id => j = k

\* The balances of the accounts of one ledger.
CreditsOf(q, l) == [j \in 1..Len(q) |-> IF q[j].ledger = l THEN q[j].cr ELSE 0]
DebitsOf(q, l) == [j \in 1..Len(q) |-> IF q[j].ledger = l THEN q[j].dr ELSE 0]

\* The credits of the first a accounts and the debits of the first b are there.
Rebuilt(base, q, a, b, dr, cr) ==
  /\ Moves(base, dr) /\ Moves(base, cr)
  /\ \A j \in 1..Len(q) : /\ cr[q[j].id] = IF j <= a THEN q[j].cr ELSE 0
                          /\ dr[q[j].id] = IF j <= b THEN q[j].dr ELSE 0
  /\ \A l \in LedgersIn(q) :
        /\ dr[GenesisCredit(l)] = SumTo(CreditsOf(q, l), a) /\ cr[GenesisCredit(l)] = 0
        /\ cr[GenesisDebit(l)] = SumTo(DebitsOf(q, l), b) /\ dr[GenesisDebit(l)] = 0

\* Without balances.
Nothing(base) == [id \in DOMAIN base |-> 0]
Start(base) == LedgerAt(base, Nothing(base), Nothing(base), <<>>)

\* The transfers of s have put them there.
RebuiltBy(base, q, floor, s, a, b) ==
  /\ IsList(s)
  /\ \E dr, cr :
        /\ CreateTransfers(Start(base), SyntheticOf(s, floor)) = LedgerAt(base, dr, cr, SyntheticOf(s, floor))
        /\ Rebuilt(base, q, a, b, dr, cr)

LEMMA BalanceSums ==
  ASSUME NEW base, NEW q, NEW floor \in Nat, Prepares(base, q, floor), NEW l
  PROVE  /\ Len(q) \in Nat
         /\ Amounted(CreditsOf(q, l), Len(q)) /\ Amounted(DebitsOf(q, l), Len(q))
         /\ \A k \in 1..Len(q) :
               /\ SumTo(CreditsOf(q, l), k)
                     = SumTo(CreditsOf(q, l), k - 1) + (IF q[k].ledger = l THEN q[k].cr ELSE 0)
               /\ SumTo(DebitsOf(q, l), k)
                     = SumTo(DebitsOf(q, l), k - 1) + (IF q[k].ledger = l THEN q[k].dr ELSE 0)
<1>1. Len(q) \in Nat
  BY ListParts DEF Prepares
<1>2. \A j \in 1..Len(q) : q[j].dr \in Nat /\ q[j].cr \in Nat
  BY DEF Prepares
<1>3. /\ \A j \in 1..Len(q) : CreditsOf(q, l)[j] = IF q[j].ledger = l THEN q[j].cr ELSE 0
      /\ \A j \in 1..Len(q) : DebitsOf(q, l)[j] = IF q[j].ledger = l THEN q[j].dr ELSE 0
  BY DEF CreditsOf, DebitsOf
<1>4. Amounted(CreditsOf(q, l), Len(q)) /\ Amounted(DebitsOf(q, l), Len(q))
  BY <1>2, <1>3 DEF Amounted
<1>5. Numbers(CreditsOf(q, l), Len(q)) /\ Numbers(DebitsOf(q, l), Len(q))
  BY <1>4 DEF Amounted, Numbers
<1>6. /\ \A k \in 1..Len(q) : SumTo(CreditsOf(q, l), k) = SumTo(CreditsOf(q, l), k - 1) + CreditsOf(q, l)[k]
      /\ \A k \in 1..Len(q) : SumTo(DebitsOf(q, l), k) = SumTo(DebitsOf(q, l), k - 1) + DebitsOf(q, l)[k]
  BY <1>1, <1>5, SumSteps
<1> QED
  BY <1>1, <1>3, <1>4, <1>6

\* One transfer more.
LEMMA RebuildOne ==
  ASSUME NEW base, NEW q, NEW floor \in Nat, Prepares(base, q, floor), NEW s, IsList(s), NEW n, n = Len(s),
         NEW dr, NEW cr, Moves(base, dr), Moves(base, cr), NEW was, was = SyntheticOf(s, floor),
         CreateTransfers(Start(base), was) = LedgerAt(base, dr, cr, was),
         NEW debit, NEW credit, NEW amount \in Nat, NEW l, amount > 0,
         debit # credit, debit \in DOMAIN base, credit \in DOMAIN base,
         base[debit].ledger = l, base[credit].ledger = l,
         base[debit].ts <= floor, base[credit].ts <= floor,
         base[debit].limit = "debits" => dr[debit] + amount <= cr[debit],
         NEW more, more = Plus(dr, debit, amount),
         NEW less, less = Plus(cr, credit, amount),
         NEW t, t = AndThen(s, debit, credit, amount, l), NEW now, now = SyntheticOf(t, floor)
  PROVE  /\ IsList(t) /\ Moves(base, more) /\ Moves(base, less)
         /\ CreateTransfers(Start(base), now) = LedgerAt(base, more, less, now)
<1>1. n \in Nat /\ floor \in Nat /\ IsBase(base) /\ base[debit].ts \in Nat /\ base[credit].ts \in Nat
  BY ListParts DEF Prepares, IsBase
<1>2. /\ IsList(was) /\ Len(was) = n /\ IsList(t)
      /\ OneSynthetic(was, now, n, floor, debit, credit, amount, l)
  BY <1>1, SyntheticMore
<1>8. PICK x : /\ now = Append(was, x)
               /\ x.id = n + 1 /\ x.ts = floor + n + 1 /\ x.kind = "single" /\ x.debit = debit
               /\ x.credit = credit /\ x.amount = amount /\ x.ledger = l
  BY <1>2 DEF OneSynthetic
<1>7. ASSUME NEW i \in 1..n PROVE was[i].id = i /\ was[i].ts = floor + i
  <2>1. was[i] = Synthetic(s[i], i, floor + i)
    <3>1. DOMAIN s = 1..n
      BY ListParts
    <3> QED
      BY <3>1 DEF SyntheticOf
  <2> QED
    BY <2>1 DEF Synthetic
<1>9. Fits(base, dr, cr, was, x)
  <2>1. \A i \in 1..n : was[i].id # x.id /\ was[i].ts < x.ts
    BY <1>1, <1>7, <1>8
  <2>2. base[debit].ts < floor + n + 1 /\ base[credit].ts < floor + n + 1
    BY <1>1
  <2> QED
    BY <1>2, <1>8, <2>1, <2>2 DEF Fits
<1>10. /\ CreateTransfer(LedgerAt(base, dr, cr, was), x) = LedgerAt(base, more, less, now)
       /\ Moves(base, more) /\ Moves(base, less)
  BY <1>1, <1>2, <1>8, <1>9, OneTaken
<1>11. CreateTransfers(Start(base), now) = CreateTransfer(LedgerAt(base, dr, cr, was), x)
  BY <1>2, <1>8, OneMoreTransfer
<1> QED
  BY <1>2, <1>10, <1>11

LEMMA NothingMoved ==
  ASSUME NEW s, IsList(s), NEW d, NEW c, NEW amount \in Nat, ~(amount > 0), NEW l
  PROVE  AndThen(s, d, c, amount, l) = s /\ amount = 0
<1>1. Moved(d, c, amount, l) = <<>>
  BY DEF Moved
<1>2. s \o <<>> = s
  BY DEF IsList
<1> QED
  BY <1>1, <1>2 DEF AndThen

\* The credit of the next account.
LEMMA RebuildCredit ==
  ASSUME NEW base, NEW q, NEW floor \in Nat, Prepares(base, q, floor), NEW k \in 1..Len(q), NEW a, a = k - 1,
         NEW s, RebuiltBy(base, q, floor, s, a, a), NEW l, l = q[k].ledger, NEW id, id = q[k].id,
         NEW amount, amount = q[k].cr, NEW t, t = AndThen(s, GenesisCredit(l), id, amount, l)
  PROVE  RebuiltBy(base, q, floor, t, k, a)
<1>1. PICK dr, cr, was :
         /\ IsList(s) /\ was = SyntheticOf(s, floor)
         /\ CreateTransfers(Start(base), was) = LedgerAt(base, dr, cr, was)
         /\ Rebuilt(base, q, a, a, dr, cr)
  BY DEF RebuiltBy
<1>2. /\ Len(q) \in Nat /\ k \in Nat /\ a \in Nat /\ k = a + 1 /\ k <= Len(q) /\ ~(k <= a)
      /\ \A j \in 1..Len(q) : j <= k <=> j <= a \/ j = k
  BY BalanceSums
<1>3. l \in LedgersIn(q) /\ amount \in Nat /\ id \in DOMAIN base
  BY DEF LedgersIn, Prepares
<1>4. \A x : /\ SumTo(CreditsOf(q, x), k) = SumTo(CreditsOf(q, x), a) + (IF l = x THEN amount ELSE 0)
             /\ SumTo(CreditsOf(q, x), a) \in Nat
  <2> TAKE x
  <2>1. SumTo(CreditsOf(q, x), k) = SumTo(CreditsOf(q, x), a) + (IF l = x THEN amount ELSE 0)
    BY BalanceSums
  <2>2. Amounted(CreditsOf(q, x), Len(q)) /\ a \in 0..Len(q)
    BY <1>2, BalanceSums
  <2> QED
    BY <1>2, <2>1, <2>2, SumGrows
<1>5. CASE ~(amount > 0)
  <2>1. t = s /\ amount = 0
    BY <1>1, <1>3, <1>5, NothingMoved
  <2>2. ASSUME NEW j \in 1..Len(q)
        PROVE  /\ cr[q[j].id] = IF j <= k THEN q[j].cr ELSE 0
               /\ dr[q[j].id] = IF j <= a THEN q[j].dr ELSE 0
    <3>1. /\ cr[q[j].id] = IF j <= a THEN q[j].cr ELSE 0
          /\ dr[q[j].id] = IF j <= a THEN q[j].dr ELSE 0
      BY <1>1 DEF Rebuilt
    <3> QED
      BY <1>2, <2>1, <3>1
  <2>3. ASSUME NEW x \in LedgersIn(q)
        PROVE  /\ dr[GenesisCredit(x)] = SumTo(CreditsOf(q, x), k) /\ cr[GenesisCredit(x)] = 0
               /\ cr[GenesisDebit(x)] = SumTo(DebitsOf(q, x), a) /\ dr[GenesisDebit(x)] = 0
    <3>1. SumTo(CreditsOf(q, x), k) = SumTo(CreditsOf(q, x), a)
      BY <1>4, <2>1
    <3> QED
      BY <1>1, <3>1 DEF Rebuilt
  <2>4. Rebuilt(base, q, k, a, dr, cr)
    BY <1>1, <2>2, <2>3 DEF Rebuilt
  <2> QED
    BY <1>1, <2>1, <2>4 DEF RebuiltBy
<1>6. CASE amount > 0
  <2>1. PICK g : g = GenesisCredit(l)
    OBVIOUS
  <2>2. /\ g \in DOMAIN base /\ base[g].ledger = l /\ base[g].limit = "none" /\ base[g].ts <= floor
        /\ base[id].ledger = l /\ base[id].ts <= floor /\ g # id
    BY <1>3, <1>6, <2>1 DEF Prepares
  <2>3. PICK more, less, now : /\ more = Plus(dr, g, amount)
                               /\ less = Plus(cr, id, amount)
                               /\ now = SyntheticOf(t, floor)
    OBVIOUS
  <2>4. Moves(base, dr) /\ Moves(base, cr)
    BY <1>1 DEF Rebuilt
  <2>5. /\ IsList(t) /\ Moves(base, more) /\ Moves(base, less)
        /\ CreateTransfers(Start(base), now) = LedgerAt(base, more, less, now)
    <3>1. t = AndThen(s, g, id, amount, l) /\ (base[g].limit = "debits" => dr[g] + amount <= cr[g])
      BY <2>1, <2>2
    <3>2. PICK n : n = Len(s)
      OBVIOUS
    <3> QED
      BY <1>1, <1>3, <1>6, <2>2, <2>3, <2>4, <3>1, <3>2, RebuildOne
  <2>6. /\ \A y \in DOMAIN base : more[y] = IF y = g THEN dr[y] + amount ELSE dr[y]
        /\ \A y \in DOMAIN base : less[y] = IF y = id THEN cr[y] + amount ELSE cr[y]
    BY <2>3, <2>4 DEF Moves, Plus
  <2>7. ASSUME NEW j \in 1..Len(q)
        PROVE  /\ less[q[j].id] = IF j <= k THEN q[j].cr ELSE 0
               /\ more[q[j].id] = IF j <= a THEN q[j].dr ELSE 0
    <3>1. /\ cr[q[j].id] = IF j <= a THEN q[j].cr ELSE 0
          /\ dr[q[j].id] = IF j <= a THEN q[j].dr ELSE 0
      BY <1>1 DEF Rebuilt
    <3>2. q[j].id \in DOMAIN base /\ q[j].id # g /\ (q[j].id = id <=> j = k)
      BY <1>3, <2>1 DEF Prepares
    <3>3. more[q[j].id] = dr[q[j].id]
      BY <2>6, <3>2
    <3>4. CASE j = k
      <4>1. cr[id] = 0 /\ q[j].cr = amount /\ j <= k
        BY <1>2, <3>1, <3>4
      <4>2. less[q[j].id] = 0 + amount
        BY <2>6, <3>2, <3>4, <4>1
      <4> QED
        BY <1>3, <3>1, <3>3, <4>1, <4>2
    <3>5. CASE j # k
      <4>1. less[q[j].id] = cr[q[j].id] /\ (j <= k <=> j <= a)
        BY <1>2, <2>6, <3>2, <3>5
      <4> QED
        BY <3>1, <3>3, <4>1
    <3> QED
      BY <3>4, <3>5
  <2>8. ASSUME NEW x \in LedgersIn(q)
        PROVE  /\ more[GenesisCredit(x)] = SumTo(CreditsOf(q, x), k) /\ less[GenesisCredit(x)] = 0
               /\ less[GenesisDebit(x)] = SumTo(DebitsOf(q, x), a) /\ more[GenesisDebit(x)] = 0
    <3>1. /\ dr[GenesisCredit(x)] = SumTo(CreditsOf(q, x), a) /\ cr[GenesisCredit(x)] = 0
          /\ cr[GenesisDebit(x)] = SumTo(DebitsOf(q, x), a) /\ dr[GenesisDebit(x)] = 0
      BY <1>1 DEF Rebuilt
    <3>2. /\ GenesisCredit(x) \in DOMAIN base /\ GenesisDebit(x) \in DOMAIN base
          /\ GenesisCredit(x) # id /\ GenesisDebit(x) # id
      BY DEF Prepares
    <3>3. GenesisDebit(x) # g /\ (GenesisCredit(x) = g <=> l = x)
      BY <2>1 DEF GenesisDebit, GenesisCredit
    <3>4. less[GenesisCredit(x)] = 0 /\ less[GenesisDebit(x)] = SumTo(DebitsOf(q, x), a) /\ more[GenesisDebit(x)] = 0
      BY <2>6, <3>1, <3>2, <3>3
    <3>5. more[GenesisCredit(x)] = SumTo(CreditsOf(q, x), k)
      BY <1>4, <2>6, <3>1, <3>2, <3>3
    <3> QED
      BY <3>4, <3>5
  <2>9. Rebuilt(base, q, k, a, more, less)
    BY <2>5, <2>7, <2>8 DEF Rebuilt
  <2> QED
    BY <2>3, <2>5, <2>9 DEF RebuiltBy
<1> QED
  BY <1>5, <1>6

LEMMA RebuildDebit ==
  ASSUME NEW base, NEW q, NEW floor \in Nat, Prepares(base, q, floor), NEW k \in 1..Len(q), NEW a, a = k - 1,
         NEW s, RebuiltBy(base, q, floor, s, k, a), NEW l, l = q[k].ledger, NEW id, id = q[k].id,
         NEW amount, amount = q[k].dr, NEW t, t = AndThen(s, id, GenesisDebit(l), amount, l)
  PROVE  RebuiltBy(base, q, floor, t, k, k)
<1>1. PICK dr, cr, was :
         /\ IsList(s) /\ was = SyntheticOf(s, floor)
         /\ CreateTransfers(Start(base), was) = LedgerAt(base, dr, cr, was)
         /\ Rebuilt(base, q, k, a, dr, cr)
  BY DEF RebuiltBy
<1>2. /\ Len(q) \in Nat /\ k \in Nat /\ a \in Nat /\ k = a + 1 /\ k <= Len(q) /\ ~(k <= a)
      /\ \A j \in 1..Len(q) : j <= k <=> j <= a \/ j = k
  BY BalanceSums
<1>3. l \in LedgersIn(q) /\ amount \in Nat /\ id \in DOMAIN base
  BY DEF LedgersIn, Prepares
<1>4. \A x : /\ SumTo(DebitsOf(q, x), k) = SumTo(DebitsOf(q, x), a) + (IF l = x THEN amount ELSE 0)
             /\ SumTo(DebitsOf(q, x), a) \in Nat
  <2> TAKE x
  <2>1. SumTo(DebitsOf(q, x), k) = SumTo(DebitsOf(q, x), a) + (IF l = x THEN amount ELSE 0)
    BY BalanceSums
  <2>2. Amounted(DebitsOf(q, x), Len(q)) /\ a \in 0..Len(q)
    BY <1>2, BalanceSums
  <2> QED
    BY <1>2, <2>1, <2>2, SumGrows
<1>5. CASE ~(amount > 0)
  <2>1. t = s /\ amount = 0
    BY <1>1, <1>3, <1>5, NothingMoved
  <2>2. ASSUME NEW j \in 1..Len(q)
        PROVE  /\ cr[q[j].id] = IF j <= k THEN q[j].cr ELSE 0
               /\ dr[q[j].id] = IF j <= k THEN q[j].dr ELSE 0
    <3>1. /\ cr[q[j].id] = IF j <= k THEN q[j].cr ELSE 0
          /\ dr[q[j].id] = IF j <= a THEN q[j].dr ELSE 0
      BY <1>1 DEF Rebuilt
    <3> QED
      BY <1>2, <2>1, <3>1
  <2>3. ASSUME NEW x \in LedgersIn(q)
        PROVE  /\ dr[GenesisCredit(x)] = SumTo(CreditsOf(q, x), k) /\ cr[GenesisCredit(x)] = 0
               /\ cr[GenesisDebit(x)] = SumTo(DebitsOf(q, x), k) /\ dr[GenesisDebit(x)] = 0
    <3>1. SumTo(DebitsOf(q, x), k) = SumTo(DebitsOf(q, x), a)
      BY <1>4, <2>1
    <3> QED
      BY <1>1, <3>1 DEF Rebuilt
  <2>4. Rebuilt(base, q, k, k, dr, cr)
    BY <1>1, <2>2, <2>3 DEF Rebuilt
  <2> QED
    BY <1>1, <2>1, <2>4 DEF RebuiltBy
<1>6. CASE amount > 0
  <2>1. PICK g : g = GenesisDebit(l)
    OBVIOUS
  <2>2. /\ g \in DOMAIN base /\ base[g].ledger = l /\ base[g].ts <= floor
        /\ base[id].ledger = l /\ base[id].ts <= floor /\ g # id
        /\ base[id].limit = "debits" => amount <= q[k].cr
    BY <1>3, <1>6, <2>1 DEF Prepares
  <2>3. PICK more, less, now : /\ more = Plus(dr, id, amount)
                               /\ less = Plus(cr, g, amount)
                               /\ now = SyntheticOf(t, floor)
    OBVIOUS
  <2>4. Moves(base, dr) /\ Moves(base, cr) /\ dr[id] = 0 /\ cr[id] = q[k].cr
    BY <1>1, <1>2 DEF Rebuilt
  <2>5. /\ IsList(t) /\ Moves(base, more) /\ Moves(base, less)
        /\ CreateTransfers(Start(base), now) = LedgerAt(base, more, less, now)
    <3>1. t = AndThen(s, id, g, amount, l) /\ (base[id].limit = "debits" => dr[id] + amount <= cr[id])
      BY <1>3, <2>1, <2>2, <2>4
    <3>2. PICK n : n = Len(s)
      OBVIOUS
    <3> QED
      BY <1>1, <1>3, <1>6, <2>2, <2>3, <2>4, <3>1, <3>2, RebuildOne
  <2>6. /\ \A y \in DOMAIN base : more[y] = IF y = id THEN dr[y] + amount ELSE dr[y]
        /\ \A y \in DOMAIN base : less[y] = IF y = g THEN cr[y] + amount ELSE cr[y]
    BY <2>3, <2>4 DEF Moves, Plus
  <2>7. ASSUME NEW j \in 1..Len(q)
        PROVE  /\ less[q[j].id] = IF j <= k THEN q[j].cr ELSE 0
               /\ more[q[j].id] = IF j <= k THEN q[j].dr ELSE 0
    <3>1. /\ cr[q[j].id] = IF j <= k THEN q[j].cr ELSE 0
          /\ dr[q[j].id] = IF j <= a THEN q[j].dr ELSE 0
      BY <1>1 DEF Rebuilt
    <3>2. q[j].id \in DOMAIN base /\ q[j].id # g /\ (q[j].id = id <=> j = k)
      BY <1>3, <2>1 DEF Prepares
    <3>3. less[q[j].id] = cr[q[j].id]
      BY <2>6, <3>2
    <3>4. CASE j = k
      <4>1. dr[id] = 0 /\ q[j].dr = amount /\ j <= k
        BY <1>2, <2>4, <3>4
      <4>2. more[q[j].id] = 0 + amount
        BY <2>6, <3>2, <3>4, <4>1
      <4> QED
        BY <1>3, <3>1, <3>3, <4>1, <4>2
    <3>5. CASE j # k
      <4>1. more[q[j].id] = dr[q[j].id] /\ (j <= k <=> j <= a)
        BY <1>2, <2>6, <3>2, <3>5
      <4> QED
        BY <3>1, <3>3, <4>1
    <3> QED
      BY <3>4, <3>5
  <2>8. ASSUME NEW x \in LedgersIn(q)
        PROVE  /\ more[GenesisCredit(x)] = SumTo(CreditsOf(q, x), k) /\ less[GenesisCredit(x)] = 0
               /\ less[GenesisDebit(x)] = SumTo(DebitsOf(q, x), k) /\ more[GenesisDebit(x)] = 0
    <3>1. /\ dr[GenesisCredit(x)] = SumTo(CreditsOf(q, x), k) /\ cr[GenesisCredit(x)] = 0
          /\ cr[GenesisDebit(x)] = SumTo(DebitsOf(q, x), a) /\ dr[GenesisDebit(x)] = 0
      BY <1>1 DEF Rebuilt
    <3>2. /\ GenesisCredit(x) \in DOMAIN base /\ GenesisDebit(x) \in DOMAIN base
          /\ GenesisCredit(x) # id /\ GenesisDebit(x) # id
      BY DEF Prepares
    <3>3. GenesisCredit(x) # g /\ (GenesisDebit(x) = g <=> l = x)
      BY <2>1 DEF GenesisDebit, GenesisCredit
    <3>4. less[GenesisCredit(x)] = 0 /\ more[GenesisCredit(x)] = SumTo(CreditsOf(q, x), k) /\ more[GenesisDebit(x)] = 0
      BY <2>6, <3>1, <3>2, <3>3
    <3>5. less[GenesisDebit(x)] = SumTo(DebitsOf(q, x), k)
      BY <1>4, <2>6, <3>1, <3>2, <3>3
    <3> QED
      BY <3>4, <3>5
  <2>9. Rebuilt(base, q, k, k, more, less)
    BY <2>5, <2>7, <2>8 DEF Rebuilt
  <2> QED
    BY <2>3, <2>5, <2>9 DEF RebuiltBy
<1> QED
  BY <1>5, <1>6

LEMMA RebuiltFromNothing ==
  ASSUME NEW base, NEW q, NEW floor \in Nat, Prepares(base, q, floor)
  PROVE  RebuiltBy(base, q, floor, <<>>, 0, 0)
<1>1. SyntheticOf(<<>>, floor) = <<>> /\ IsList(<<>>)
  BY NoList DEF SyntheticOf
<1>2. CreateTransfers(Start(base), <<>>) = LedgerAt(base, Nothing(base), Nothing(base), <<>>)
  BY NoTransfers DEF Start
<1>3. Moves(base, Nothing(base)) /\ \A id \in DOMAIN base : Nothing(base)[id] = 0
  BY DEF Moves, Nothing
<1>4. \A l : SumTo(CreditsOf(q, l), 0) = 0 /\ SumTo(DebitsOf(q, l), 0) = 0
  <2> TAKE l
  <2>1. Len(q) \in Nat /\ Numbers(CreditsOf(q, l), Len(q)) /\ Numbers(DebitsOf(q, l), Len(q))
    BY BalanceSums DEF Amounted, Numbers
  <2> QED
    BY <2>1, SumSteps
<1>5. \A j \in 1..Len(q) : ~(j <= 0)
  BY BalanceSums
<1>6. Rebuilt(base, q, 0, 0, Nothing(base), Nothing(base))
  BY <1>3, <1>4, <1>5 DEF Rebuilt, Prepares
<1> QED
  BY <1>1, <1>2, <1>6 DEF RebuiltBy

\* How many synthetic transfers there are at most.
Balanced(q, k) == {j \in 1..k : HasBalance(q[j])}

LEMMA RebuildParts ==
  ASSUME NEW s, IsList(s), NEW a, NEW t, t = s \o RebuildAccount(a),
         a.cr \in Nat, a.dr \in Nat
  PROVE  /\ t = AndThen(AndThen(s, GenesisCredit(a.ledger), a.id, a.cr, a.ledger),
                         a.id, GenesisDebit(a.ledger), a.dr, a.ledger)
         /\ IsList(t) /\ Len(t) <= Len(s) + 2 /\ (~HasBalance(a) => Len(t) = Len(s))
<1>1. PICK x, y : /\ x = Moved(GenesisCredit(a.ledger), a.id, a.cr, a.ledger)
                  /\ y = Moved(a.id, GenesisDebit(a.ledger), a.dr, a.ledger)
                  /\ RebuildAccount(a) = x \o y
  BY DEF RebuildAccount
<1>2. IsList(x) /\ IsList(y)
  BY <1>1, MovedLists
<1>3. s \o (x \o y) = (s \o x) \o y
  <2>1. PICK S : s \in Seq(S) /\ x \in Seq(S) /\ y \in Seq(S)
    <3>1. s \in Seq(Range(s) \cup Range(x) \cup Range(y))
      BY DEF IsList
    <3>2. x \in Seq(Range(s) \cup Range(x) \cup Range(y))
      BY <1>2 DEF IsList
    <3>3. y \in Seq(Range(s) \cup Range(x) \cup Range(y))
      BY <1>2 DEF IsList
    <3> QED
      BY <3>1, <3>2, <3>3
  <2> QED
    BY <2>1
<1>4. /\ Len(x) \in {0, 1} /\ (~(a.cr > 0) => Len(x) = 0)
      /\ Len(y) \in {0, 1} /\ (~(a.dr > 0) => Len(y) = 0)
  BY <1>1, NoList DEF Moved
<1>5. /\ IsList(s \o x) /\ Len(s \o x) = Len(s) + Len(x)
      /\ IsList((s \o x) \o y) /\ Len((s \o x) \o y) = Len(s \o x) + Len(y)
  BY <1>2, Joined
<1>6. t = (s \o x) \o y
  BY <1>1, <1>3
<1>7. Len(s) \in Nat
  BY ListParts
<1>8. Len(t) = Len(s) + Len(x) + Len(y)
  BY <1>5, <1>6
<1>9. Len(t) <= Len(s) + 2 /\ (~HasBalance(a) => Len(t) = Len(s))
  <2>1. PICK lx, ly : lx = Len(x) /\ ly = Len(y)
    OBVIOUS
  <2>2. lx \in {0, 1} /\ ly \in {0, 1} /\ Len(t) = Len(s) + lx + ly
    BY <1>4, <1>8, <2>1
  <2>3. ~HasBalance(a) => lx = 0 /\ ly = 0
    BY <1>4, <2>1 DEF HasBalance
  <2> QED
    BY <1>7, <2>2, <2>3
<1> QED
  BY <1>1, <1>5, <1>6, <1>9 DEF AndThen

LEMMA SyntheticPlaces ==
  ASSUME NEW q, IsList(q), NEW floor \in Nat, NEW N, N = Len(q),
         \A i \in 1..N : q[i].cr \in Nat /\ q[i].dr \in Nat,
         NEW S, S = SyntheticTransfers(q, floor)
  PROVE  /\ IsList(S) /\ \A i \in 1..Len(S) : S[i].id = i /\ S[i].ts = floor + i
         /\ Len(S) <= 2 * Cardinality(Balanced(q, N))
<1>0. N \in Nat /\ IsList(q) /\ DOMAIN q = 1..N
  BY ListParts
<1>1. PICK seqs : seqs = [i \in DOMAIN q |-> RebuildAccount(q[i])]
  OBVIOUS
<1>2. /\ IsList(seqs) /\ Len(seqs) = N
      /\ \A i \in 1..N : seqs[i] = RebuildAccount(q[i]) /\ IsList(seqs[i])
  <2>1. seqs = [i \in DOMAIN q |-> seqs[i]]
    BY <1>1
  <2>2. IsList(seqs) /\ Len(seqs) = N
    BY <1>0, <2>1, Mapped
  <2>3. ASSUME NEW i \in 1..N PROVE IsList(RebuildAccount(q[i]))
    BY MovedLists, Joined DEF RebuildAccount
  <2> QED
    BY <1>0, <1>1, <2>2, <2>3
<1>3. PICK g, rebuild : Flattens(g, seqs, rebuild) /\ rebuild = FlattenSeq(seqs)
  BY <1>2, FlattensStepByStep
<1>4. /\ g[0] = <<>> /\ g[N] = rebuild
      /\ \A i \in 1..N : g[i] = g[i - 1] \o RebuildAccount(q[i])
      /\ \A i \in 0..N : IsList(g[i])
  BY <1>2, <1>3 DEF Flattens
<1> DEFINE T == {k \in 0..N : Len(g[k]) <= 2 * Cardinality(Balanced(q, k))}
<1>5. 0 \in T
  <2>1. Balanced(q, 0) = {} /\ 0 \in 0..N
    BY <1>0 DEF Balanced
  <2>2. Len(g[0]) = 0 /\ Cardinality(Balanced(q, 0)) = 0
    BY <1>4, <2>1, FS_EmptySet
  <2> QED
    BY <1>4, <2>1, <2>2
<1>6. ASSUME NEW k \in 1..N, k - 1 \in T PROVE k \in T
  <2>1. PICK a, x, s, t : /\ a = k - 1 /\ x = q[k] /\ s = g[a] /\ t = g[k]
    OBVIOUS
  <2>2. /\ a \in 0..N /\ k \in 0..N /\ k = a + 1 /\ a \in Nat /\ k \in 1..Len(q)
        /\ Len(s) <= 2 * Cardinality(Balanced(q, a)) /\ IsList(s) /\ t = s \o RebuildAccount(x)
        /\ x.cr \in Nat /\ x.dr \in Nat
    <3>1. a \in 0..N /\ k \in 0..N /\ k = a + 1 /\ a \in Nat /\ k \in 1..Len(q) /\ a \in T
      BY <1>0, <1>6, <2>1
    <3>2. x.cr \in Nat /\ x.dr \in Nat
      BY <1>0, <2>1, <3>1
    <3>3. Len(s) <= 2 * Cardinality(Balanced(q, a))
      BY <2>1, <3>1
    <3>4. IsList(s) /\ t = s \o RebuildAccount(x)
      BY <1>4, <2>1, <3>1
    <3> QED
      BY <3>1, <3>2, <3>3, <3>4
  <2>3. PICK m : m = AndThen(s, GenesisCredit(x.ledger), x.id, x.cr, x.ledger)
    OBVIOUS
  <2>4. /\ t = AndThen(m, x.id, GenesisDebit(x.ledger), x.dr, x.ledger)
        /\ Len(t) <= Len(s) + 2 /\ (~HasBalance(x) => Len(t) = Len(s))
    BY <2>2, <2>3, RebuildParts
  <2>7. Len(t) <= 2 * Cardinality(Balanced(q, k))
    <3>1. PICK B, C, u, v : /\ B = Balanced(q, a) /\ C = Balanced(q, k)
                            /\ u = Cardinality(B) /\ v = Cardinality(C)
      OBVIOUS
    <3>2. /\ B \subseteq 1..a /\ k \notin B
          /\ C = IF HasBalance(x) THEN B \cup {k} ELSE B
      <4>1. \A j : j \in 1..k <=> j \in 1..a \/ j = k
        BY <2>2
      <4>2. k \notin 1..a
        BY <2>2
      <4> QED
        BY <2>1, <3>1, <4>1, <4>2 DEF Balanced
    <3>3. IsFiniteSet(B) /\ u \in Nat
      <4>1. IsFiniteSet(1..a)
        BY <2>2, FS_Interval
      <4>2. IsFiniteSet(B)
        BY <3>2, <4>1, FS_Subset
      <4> QED
        BY <3>1, <4>2, FS_CardinalityType
    <3>4. HasBalance(x) => v = u + 1
      BY <3>1, <3>2, <3>3, FS_AddElement
    <3>5. ~HasBalance(x) => v = u
      BY <3>1, <3>2
    <3>6. Len(s) \in Nat /\ Len(t) \in Nat
      BY <1>4, <2>1, <2>2, ListParts
    <3>7. Len(s) <= 2 * u
      BY <2>2, <3>1
    <3>8. Len(t) <= 2 * v
      BY <2>4, <3>3, <3>4, <3>5, <3>6, <3>7
    <3> QED
      BY <3>1, <3>8
  <2> QED
    BY <2>1, <2>2, <2>7
<1> HIDE DEF T
<1>7. \A k \in 0..N : k \in T
  BY <1>0, <1>5, <1>6, Upwards
<1>8. N \in T
  BY <1>0, <1>7
<1>9. Len(rebuild) <= 2 * Cardinality(Balanced(q, N))
  BY <1>4, <1>8 DEF T
<1>10. S = SyntheticOf(rebuild, floor)
  BY <1>1, <1>3 DEF SyntheticTransfers, SyntheticOf
<1>11. IsList(rebuild) /\ Len(rebuild) \in Nat /\ DOMAIN rebuild = 1..Len(rebuild)
  <2>1. N \in 0..N
    BY <1>0
  <2> QED
    BY <1>4, <2>1, ListParts
<1>12. /\ S = [i \in DOMAIN rebuild |-> S[i]]
       /\ \A i \in 1..Len(rebuild) : S[i] = Synthetic(rebuild[i], i, floor + i)
  BY <1>10, <1>11 DEF SyntheticOf
<1>13. IsList(S) /\ Len(S) = Len(rebuild)
  BY <1>11, <1>12, Mapped
<1>14. \A i \in 1..Len(S) : S[i].id = i /\ S[i].ts = floor + i
  <2> TAKE i \in 1..Len(S)
  <2>1. S[i] = Synthetic(rebuild[i], i, floor + i)
    BY <1>12, <1>13
  <2> QED
    BY <2>1 DEF Synthetic
<1> QED
  BY <1>9, <1>13, <1>14

LEMMA SyntheticTaken ==
  ASSUME NEW base, NEW q, NEW floor \in Nat, Prepares(base, q, floor), NEW N, N = Len(q),
         NEW S, S = SyntheticTransfers(q, floor)
  PROVE  \E dr, cr : /\ CreateTransfers(Start(base), S) = LedgerAt(base, dr, cr, S)
                     /\ Rebuilt(base, q, N, N, dr, cr)
<1>0. N \in Nat /\ IsList(q) /\ DOMAIN q = 1..N
  BY ListParts DEF Prepares
<1>1. PICK seqs : seqs = [i \in DOMAIN q |-> RebuildAccount(q[i])]
  OBVIOUS
<1>2. /\ IsList(seqs) /\ Len(seqs) = N
      /\ \A i \in 1..N : seqs[i] = RebuildAccount(q[i]) /\ IsList(seqs[i])
  <2>1. seqs = [i \in DOMAIN q |-> seqs[i]]
    BY <1>1
  <2>2. IsList(seqs) /\ Len(seqs) = N
    BY <1>0, <2>1, Mapped
  <2>3. ASSUME NEW i \in 1..N PROVE IsList(RebuildAccount(q[i]))
    BY MovedLists, Joined DEF RebuildAccount
  <2> QED
    BY <1>0, <1>1, <2>2, <2>3
<1>3. PICK g, rebuild : Flattens(g, seqs, rebuild) /\ rebuild = FlattenSeq(seqs)
  BY <1>2, FlattensStepByStep
<1>4. /\ g[0] = <<>> /\ g[N] = rebuild
      /\ \A i \in 1..N : g[i] = g[i - 1] \o RebuildAccount(q[i])
      /\ \A i \in 0..N : IsList(g[i])
  BY <1>2, <1>3 DEF Flattens
<1> DEFINE T == {k \in 0..N : RebuiltBy(base, q, floor, g[k], k, k)}
<1>5. 0 \in T
  <2>1. 0 \in 0..N
    BY <1>0
  <2> QED
    BY <1>4, <2>1, RebuiltFromNothing
<1>6. ASSUME NEW k \in 1..N, k - 1 \in T PROVE k \in T
  <2>1. PICK a, x, s, t : /\ a = k - 1 /\ x = q[k] /\ s = g[a] /\ t = g[k]
    OBVIOUS
  <2>2. /\ a \in 0..N /\ k \in 0..N /\ k = a + 1 /\ a \in Nat /\ k \in 1..Len(q)
        /\ RebuiltBy(base, q, floor, s, a, a)
        /\ IsList(s) /\ t = s \o RebuildAccount(x)
        /\ x.cr \in Nat /\ x.dr \in Nat
    <3>1. a \in 0..N /\ k \in 0..N /\ k = a + 1 /\ a \in Nat /\ k \in 1..Len(q) /\ a \in T
      BY <1>0, <1>6, <2>1
    <3>2. x.cr \in Nat /\ x.dr \in Nat
      BY <2>1, <3>1 DEF Prepares
    <3>3. RebuiltBy(base, q, floor, s, a, a)
      BY <2>1, <3>1
    <3>4. IsList(s) /\ t = s \o RebuildAccount(x)
      BY <1>4, <2>1, <3>1
    <3> QED
      BY <3>1, <3>2, <3>3, <3>4
  <2>3. PICK m : m = AndThen(s, GenesisCredit(x.ledger), x.id, x.cr, x.ledger)
    OBVIOUS
  <2>4. t = AndThen(m, x.id, GenesisDebit(x.ledger), x.dr, x.ledger)
    BY <2>2, <2>3, RebuildParts
  <2>5. RebuiltBy(base, q, floor, m, k, a)
    BY <2>1, <2>2, <2>3, RebuildCredit
  <2>6. RebuiltBy(base, q, floor, t, k, k)
    BY <2>1, <2>2, <2>4, <2>5, RebuildDebit
  <2> QED
    BY <2>1, <2>2, <2>6
<1> HIDE DEF T
<1>7. \A k \in 0..N : k \in T
  BY <1>0, <1>5, <1>6, Upwards
<1>8. N \in T
  BY <1>0, <1>7
<1>9. RebuiltBy(base, q, floor, rebuild, N, N)
  BY <1>4, <1>8 DEF T
<1>10. S = SyntheticOf(rebuild, floor)
  BY <1>1, <1>3 DEF SyntheticTransfers, SyntheticOf
<1> QED
  BY <1>9, <1>10 DEF RebuiltBy

-----------------------------------------------------------------------------
(***************************************************************************)
(* The accounts of a plan.                                                 *)
(***************************************************************************)

\* The ledgers of accounts.
LedgersOf(S) == {a.ledger : a \in S}

\* What the genesis accounts of some ledgers are: two for each, numbered from
\* 1 on by their timestamps.
IsGenesis(G, Ls) ==
  /\ IsList(G) /\ Len(G) = 2 * Cardinality(Ls)
  /\ \A i \in 1..Len(G) : \E l \in Ls : \E id \in {GenesisCredit(l), GenesisDebit(l)} :
        G[i] = Account(id, l, "none", i, 0, 0, 0, 0)
  /\ \A l \in Ls : \A id \in {GenesisCredit(l), GenesisDebit(l)} : \E i \in 1..Len(G) : G[i].id = id
  /\ \A i \in 1..Len(G) : \A j \in 1..Len(G) : G[i].id = G[j].id => i = j

LEMMA PairOfGenesis ==
  ASSUME NEW l, NEW i \in Nat, NEW p, p = GenesisPair(l, i)
  PROVE  /\ IsList(p) /\ Len(p) = 2
         /\ p[1] = Account(GenesisCredit(l), l, "none", 2 * i - 1, 0, 0, 0, 0)
         /\ p[2] = Account(GenesisDebit(l), l, "none", 2 * i, 0, 0, 0, 0)
<1>1. PICK x, y : /\ p = <<x, y>>
                  /\ x = Account(GenesisCredit(l), l, "none", 2 * i - 1, 0, 0, 0, 0)
                  /\ y = Account(GenesisDebit(l), l, "none", 2 * i, 0, 0, 0, 0)
  BY DEF GenesisPair, Genesis, Account
<1>2. <<x, y>> \in Seq({x, y}) /\ Len(<<x, y>>) = 2 /\ <<x, y>>[1] = x /\ <<x, y>>[2] = y
  OBVIOUS
<1> QED
  BY <1>1, <1>2, Listed

LEMMA GenesisParts ==
  ASSUME NEW S, IsFiniteSet(S), \A a \in S : a.ledger \in Nat,
         NEW Ls, Ls = LedgersOf(S), NEW G, G = GenesisAccounts(S)
  PROVE  IsGenesis(G, Ls) /\ IsFiniteSet(Ls)
<1> DEFINE R == {a.ledger : a \in S}
           f == [a \in S |-> a.ledger]
<1>0. R = Ls
  BY DEF LedgersOf
<1>1. IsFiniteSet(R)
  <2>1. Range(f) = R
    BY DEF Range
  <2>2. f = [a \in S |-> f[a]]
    OBVIOUS
  <2> HIDE DEF f
  <2>3. IsFiniteSet(Range(f))
    BY <2>2, FiniteImage
  <2> QED
    BY <2>1, <2>3
<1>2. Ls \subseteq Nat
  BY DEF LedgersOf
<1> DEFINE ledgers == InOrder(R, LAMBDA l : l)
<1>3. PICK n : n = Cardinality(Ls)
  OBVIOUS
<1>4. PICK q : q = ledgers
  OBVIOUS
<1>5. /\ n \in Nat /\ IsList(q) /\ Len(q) = n /\ DOMAIN q = 1..n /\ Range(q) = Ls
      /\ \A i \in 1..n : \A j \in 1..n : q[i] = q[j] => i = j
  <2>1. q = InOrder(Ls, LAMBDA l : l)
    BY <1>0, <1>4
  <2> HIDE DEF R, ledgers
  <2>2. /\ IsList(q) /\ Len(q) = n /\ Range(q) = Ls
        /\ \A i \in 1..Len(q) : \A j \in 1..Len(q) : q[i] = q[j] => i = j
    BY <1>0, <1>1, <1>2, <1>3, <2>1, NumbersInOrder
  <2> QED
    BY <2>2, ListParts
<1>6. PICK seqs : seqs = [i \in DOMAIN q |-> GenesisPair(q[i], i)] /\ G = FlattenSeq(seqs)
  BY <1>4 DEF GenesisAccounts
<1> HIDE DEF R, ledgers, f
<1>7. /\ IsList(seqs) /\ Len(seqs) = n
      /\ \A i \in 1..n : seqs[i] = GenesisPair(q[i], i)
      /\ \A i \in 1..n : IsList(seqs[i])
  <2>1. seqs = [i \in DOMAIN q |-> seqs[i]]
    BY <1>6
  <2>2. IsList(seqs) /\ Len(seqs) = n
    BY <1>5, <2>1, Mapped
  <2>3. ASSUME NEW i \in 1..n PROVE IsList(seqs[i])
    <3>1. seqs[i] = GenesisPair(q[i], i) /\ i \in Nat
      BY <1>5, <1>6
    <3> QED
      BY <3>1, PairOfGenesis
  <2> QED
    BY <1>5, <1>6, <2>2, <2>3
<1>8. PICK g : Flattens(g, seqs, G)
  BY <1>6, <1>7, FlattensStepByStep
<1>9. /\ g[0] = <<>> /\ g[n] = G
      /\ \A i \in 1..n : g[i] = g[i - 1] \o seqs[i]
      /\ \A i \in 0..n : IsList(g[i])
  BY <1>7, <1>8 DEF Flattens
<1> DEFINE P(s, k) == /\ Len(s) = 2 * k
                      /\ \A i \in 1..k :
                            /\ s[2 * i - 1] = Account(GenesisCredit(q[i]), q[i], "none", 2 * i - 1, 0, 0, 0, 0)
                            /\ s[2 * i] = Account(GenesisDebit(q[i]), q[i], "none", 2 * i, 0, 0, 0, 0)
           T == {k \in 0..n : P(g[k], k)}
<1>10. 0 \in T
  <2>1. Len(g[0]) = 0 /\ 0 \in 0..n /\ 1..0 = {}
    BY <1>5, <1>9
  <2> QED
    BY <2>1
<1>11. ASSUME NEW k \in 1..n, k - 1 \in T PROVE k \in T
  <2>1. PICK j, l, s, t, p : /\ j = k - 1 /\ l = q[k] /\ s = g[j] /\ t = g[k] /\ p = seqs[k]
    OBVIOUS
  <2>2. /\ j \in 0..n /\ k \in 0..n /\ k = j + 1 /\ j \in Nat /\ k \in Nat /\ P(s, j)
    <3>1. k - 1 \in 0..n /\ P(g[k - 1], k - 1)
      BY <1>11
    <3>2. j \in 0..n /\ k \in 0..n /\ k = j + 1 /\ j \in Nat /\ k \in Nat
      BY <1>5, <2>1
    <3> HIDE DEF P
    <3>3. P(s, j)
      BY <2>1, <3>1
    <3> QED
      BY <3>2, <3>3
  <2>3. IsList(s) /\ IsList(p) /\ t = s \o p /\ p = GenesisPair(l, k)
    BY <1>7, <1>9, <2>1, <2>2
  <2>4. /\ Len(p) = 2
        /\ p[1] = Account(GenesisCredit(l), l, "none", 2 * k - 1, 0, 0, 0, 0)
        /\ p[2] = Account(GenesisDebit(l), l, "none", 2 * k, 0, 0, 0, 0)
    BY <2>2, <2>3, PairOfGenesis
  <2>5. Len(t) = 2 * k
    <3>1. Len(t) = Len(s) + Len(p)
      BY <2>3, Joined
    <3> QED
      BY <2>2, <2>4, <3>1
  <2>6. \A i \in 1..(2 * k) : t[i] = IF i <= 2 * j THEN s[i] ELSE p[i - 2 * j]
    <3>1. \A i \in 1..(Len(s) + Len(p)) : (s \o p)[i] = IF i <= Len(s) THEN s[i] ELSE p[i - Len(s)]
      <4>1. PICK U : s \in Seq(U) /\ p \in Seq(U)
        <5>1. s \in Seq(Range(s) \cup Range(p)) /\ p \in Seq(Range(s) \cup Range(p))
          BY <2>3 DEF IsList
        <5> QED
          BY <5>1
      <4> QED
        BY <4>1
    <3> QED
      BY <2>2, <2>3, <2>4, <3>1
  <2>7. /\ t[2 * k - 1] = p[1] /\ t[2 * k] = p[2]
    <3>1. 2 * k - 1 \in 1..(2 * k) /\ ~(2 * k - 1 <= 2 * j) /\ 2 * k - 1 - 2 * j = 1
      BY <2>2
    <3>2. 2 * k \in 1..(2 * k) /\ ~(2 * k <= 2 * j) /\ 2 * k - 2 * j = 2
      BY <2>2
    <3>3. t[2 * k - 1] = p[2 * k - 1 - 2 * j]
      BY <2>6, <3>1
    <3>4. t[2 * k] = p[2 * k - 2 * j]
      BY <2>6, <3>2
    <3> QED
      BY <3>1, <3>2, <3>3, <3>4
  <2>8. ASSUME NEW i \in 1..k
        PROVE  /\ t[2 * i - 1] = Account(GenesisCredit(q[i]), q[i], "none", 2 * i - 1, 0, 0, 0, 0)
               /\ t[2 * i] = Account(GenesisDebit(q[i]), q[i], "none", 2 * i, 0, 0, 0, 0)
    <3>1. CASE i = k
      BY <2>1, <2>4, <2>7, <3>1
    <3>2. CASE i # k
      <4>1. i \in 1..j /\ 2 * i - 1 \in 1..(2 * k) /\ 2 * i - 1 <= 2 * j
            /\ 2 * i \in 1..(2 * k) /\ 2 * i <= 2 * j
        BY <2>2, <3>2
      <4>2. t[2 * i - 1] = s[2 * i - 1] /\ t[2 * i] = s[2 * i]
        BY <2>6, <4>1
      <4> QED
        BY <2>2, <4>1, <4>2
    <3> QED
      BY <3>1, <3>2
  <2> QED
    BY <2>1, <2>2, <2>5, <2>8
<1> HIDE DEF T
<1>12. \A k \in 0..n : k \in T
  BY <1>5, <1>10, <1>11, Upwards
<1>13. n \in T
  BY <1>5, <1>12
<1>14. P(G, n) /\ IsList(G)
  <2>1. n \in 0..n
    BY <1>5
  <2> QED
    BY <1>9, <1>13, <2>1 DEF T
<1> DEFINE C(l, i) == Account(GenesisCredit(l), l, "none", i, 0, 0, 0, 0)
           D(l, i) == Account(GenesisDebit(l), l, "none", i, 0, 0, 0, 0)
<1>15. ASSUME NEW i \in 1..(2 * n)
       PROVE  \E k \in 1..n : \/ i = 2 * k - 1 /\ G[i] = C(q[k], i)
                              \/ i = 2 * k /\ G[i] = D(q[k], i)
  <2>1. PICK k \in 1..n : i = 2 * k - 1 \/ i = 2 * k
    <3>1. ((i + 1) \div 2) \in 1..n /\ (i = 2 * ((i + 1) \div 2) - 1 \/ i = 2 * ((i + 1) \div 2))
      BY <1>5
    <3> QED
      BY <3>1
  <2> QED
    BY <1>14, <2>1
<1> HIDE DEF P
<1>16. /\ \A l, i : C(l, i).id = GenesisCredit(l) /\ D(l, i).id = GenesisDebit(l)
       /\ \A l, m : /\ GenesisCredit(l) = GenesisCredit(m) <=> l = m
                    /\ GenesisDebit(l) = GenesisDebit(m) <=> l = m
                    /\ GenesisCredit(l) # GenesisDebit(m)
  BY DEF Account, GenesisCredit, GenesisDebit
<1>17. Len(G) = 2 * n
  BY <1>14 DEF P
<1>18. ASSUME NEW i \in 1..(2 * n)
       PROVE  \E l \in Ls : \E id \in {GenesisCredit(l), GenesisDebit(l)} :
                 G[i] = Account(id, l, "none", i, 0, 0, 0, 0)
  <2>1. PICK k \in 1..n : G[i] = C(q[k], i) \/ G[i] = D(q[k], i)
    BY <1>15
  <2>2. q[k] \in Ls
    BY <1>5, ListParts
  <2> QED
    BY <2>1, <2>2
<1>19. ASSUME NEW l \in Ls PROVE \A id \in {GenesisCredit(l), GenesisDebit(l)} : \E i \in 1..(2 * n) : G[i].id = id
  <2>1. PICK k \in 1..n : l = q[k]
    BY <1>5, ListParts
  <2>2. G[2 * k - 1] = C(l, 2 * k - 1) /\ G[2 * k] = D(l, 2 * k)
    BY <1>14, <2>1 DEF P
  <2>3. 2 * k - 1 \in 1..(2 * n) /\ 2 * k \in 1..(2 * n)
    BY <1>5
  <2>4. G[2 * k - 1].id = GenesisCredit(l) /\ G[2 * k].id = GenesisDebit(l)
    BY <1>16, <2>2
  <2> QED
    BY <2>3, <2>4
<1>20. ASSUME NEW i \in 1..(2 * n), NEW j \in 1..(2 * n), G[i].id = G[j].id PROVE i = j
  <2>1. PICK k \in 1..n : \/ i = 2 * k - 1 /\ G[i] = C(q[k], i)
                          \/ i = 2 * k /\ G[i] = D(q[k], i)
    BY <1>15
  <2>2. PICK m \in 1..n : \/ j = 2 * m - 1 /\ G[j] = C(q[m], j)
                          \/ j = 2 * m /\ G[j] = D(q[m], j)
    BY <1>15
  <2> HIDE DEF C, D
  <2>3. G[i].id = IF i = 2 * k THEN GenesisDebit(q[k]) ELSE GenesisCredit(q[k])
    BY <1>16, <2>1
  <2>4. G[j].id = IF j = 2 * m THEN GenesisDebit(q[m]) ELSE GenesisCredit(q[m])
    BY <1>16, <2>2
  <2>5. q[k] = q[m] /\ (i = 2 * k <=> j = 2 * m)
    <3>1. PICK x, y : x = q[k] /\ y = q[m]
      OBVIOUS
    <3>2. CASE i = 2 * k /\ j = 2 * m
      <4>1. GenesisDebit(x) = GenesisDebit(y)
        BY <1>20, <2>3, <2>4, <3>1, <3>2
      <4> QED
        BY <1>16, <3>1, <3>2, <4>1
    <3>3. CASE i = 2 * k /\ j # 2 * m
      <4>1. GenesisDebit(x) = GenesisCredit(y)
        BY <1>20, <2>3, <2>4, <3>1, <3>3
      <4> QED
        BY <1>16, <4>1
    <3>4. CASE i # 2 * k /\ j = 2 * m
      <4>1. GenesisCredit(x) = GenesisDebit(y)
        BY <1>20, <2>3, <2>4, <3>1, <3>4
      <4> QED
        BY <1>16, <4>1
    <3>5. CASE i # 2 * k /\ j # 2 * m
      <4>1. GenesisCredit(x) = GenesisCredit(y)
        BY <1>20, <2>3, <2>4, <3>1, <3>5
      <4> QED
        BY <1>16, <3>1, <3>5, <4>1
    <3> QED
      BY <3>2, <3>3, <3>4, <3>5
  <2>6. k = m
    BY <1>5, <2>5
  <2> QED
    BY <2>1, <2>2, <2>5, <2>6
<1> HIDE DEF C, D
<1> QED
  BY <1>0, <1>1, <1>3, <1>14, <1>17, <1>18, <1>19, <1>20 DEF IsGenesis

\* As many as there are elements, if each gives another value.
LEMMA OneToOne ==
  ASSUME NEW S, IsFiniteSet(S), NEW f, f = [x \in S |-> f[x]],
         \A x \in S : \A y \in S : f[x] = f[y] => x = y, NEW T, T = {f[x] : x \in S}
  PROVE  IsFiniteSet(T) /\ Cardinality(T) = Cardinality(S)
<1>1. f \in [S -> T]
  OBVIOUS
<1>2. f \in Injection(S, T)
  BY <1>1 DEF Injection, IsInjective
<1>3. f \in Surjection(S, T)
  BY <1>1 DEF Surjection
<1> QED
  BY <1>2, <1>3, FS_Surjection

\* Accounts that a plan can be made of.
Plannable(A) ==
  /\ IsFiniteSet(A)
  /\ \A a \in A :
        /\ a = Account(a.id, a.ledger, a.limit, a.ts, a.dr, a.cr, a.drp, a.crp)
        /\ a.ledger \in Nat /\ a.ts \in Nat /\ a.dr \in Nat /\ a.cr \in Nat
        /\ a.limit # "credits"
        /\ 2 * Cardinality(LedgersOf(A)) < a.ts
        /\ \A l \in LedgersOf(A) : a.id # GenesisCredit(l) /\ a.id # GenesisDebit(l)
  /\ \A a \in A : \A b \in A : a.ts = b.ts \/ a.id = b.id => a = b

\* And imported: no account has debited more than its limit.
Covered(A) == \A a \in A : a.limit = "debits" => a.dr <= a.cr

\* Its regular accounts: those of A, by age.
IsRegular(q, A) ==
  /\ IsList(q) /\ InTime(q) /\ Range(q) = A /\ Len(q) = Cardinality(A)
  /\ \A i \in 1..Len(q) : q[i] \in A
  /\ \A i \in 1..Len(q) : \A j \in 1..Len(q) : q[i] = q[j] \/ q[i].id = q[j].id => i = j
  /\ LedgersIn(q) = LedgersOf(A)

LEMMA RegularParts ==
  ASSUME NEW A, Plannable(A), NEW floor \in Nat, floor = 2 * Cardinality(LedgersOf(A)),
         NEW q, q = RegularAccounts(A, floor)
  PROVE  IsRegular(q, A)
<1>1. PICK s : s = InOrder(A, LAMBDA a : a.ts) /\ q = DedupeTimestamps(s, floor)
  BY DEF RegularAccounts
<1>2. Aged(A)
  <2>1. ASSUME NEW a \in A PROVE DOMAIN a = AccountFields /\ a.ts \in Nat
    <3>1. /\ a = Account(a.id, a.ledger, a.limit, a.ts, a.dr, a.cr, a.drp, a.crp)
          /\ a.ts \in Nat
      BY DEF Plannable
    <3>2. DOMAIN a = AccountFields
      BY <3>1, AccountHas
    <3> QED
      BY <3>1, <3>2
  <2> QED
    BY <2>1 DEF Aged, Plannable
<1>3. /\ IsList(s) /\ Range(s) = A /\ Len(s) = Cardinality(A)
      /\ \A i \in 1..Len(s) : \A j \in 1..Len(s) : i < j => s[i].ts < s[j].ts
  BY <1>1, <1>2, ByAge
<1>4. ASSUME NEW i \in 1..Len(s)
      PROVE  /\ s[i] \in A /\ s[i].ts \in Nat /\ floor < s[i].ts /\ IsRecord(s[i])
             /\ s[i].ledger \in LedgersOf(A)
  <2>1. s[i] \in A
    BY <1>3, ListParts
  <2>2. PICK a : a = s[i] /\ a \in A
    BY <2>1
  <2>3. /\ a.ts \in Nat /\ floor < a.ts
        /\ a = Account(a.id, a.ledger, a.limit, a.ts, a.dr, a.cr, a.drp, a.crp)
    BY <2>2 DEF Plannable
  <2>4. IsRecord(a)
    BY <2>3, AccountHas
  <2> QED
    BY <2>2, <2>3, <2>4 DEF LedgersOf
<1>5. InTime(s)
  BY <1>3, <1>4 DEF InTime
<1>6. q = s
  BY <1>1, <1>3, <1>4, <1>5, NothingToDeduplicate
<1>7. ASSUME NEW i \in 1..Len(s), NEW j \in 1..Len(s), s[i] = s[j] \/ s[i].id = s[j].id PROVE i = j
  <2>1. s[i] = s[j]
    BY <1>4, <1>7 DEF Plannable
  <2>2. ~(s[i].ts < s[j].ts) /\ ~(s[j].ts < s[i].ts)
    BY <1>4, <2>1
  <2>3. ~(i < j) /\ ~(j < i)
    BY <1>3, <2>2
  <2> QED
    BY <2>3
<1>8. LedgersIn(s) = LedgersOf(A)
  <2>1. LedgersIn(s) \subseteq LedgersOf(A)
    BY <1>4 DEF LedgersIn
  <2>2. ASSUME NEW a \in A PROVE a.ledger \in LedgersIn(s)
    <3>1. PICK i \in 1..Len(s) : a = s[i]
      BY <1>3, ListParts
    <3> QED
      BY <3>1 DEF LedgersIn
  <2> QED
    BY <2>1, <2>2 DEF LedgersOf
<1> QED
  BY <1>3, <1>4, <1>5, <1>6, <1>7, <1>8 DEF IsRegular

\* Where synthetic transfers start: after the genesis accounts, and after the
\* accounts they touch, but not later.
LEMMA Floors ==
  ASSUME NEW A, Plannable(A), NEW q, IsRegular(q, A), NEW m \in Nat, m = 2 * Cardinality(LedgersOf(A)),
         NEW windowed \in BOOLEAN, NEW floor, floor = TransferTsFloor(q, m, windowed)
  PROVE  /\ floor \in Nat /\ m <= floor
         /\ \A a \in A : (windowed => HasBalance(a)) => a.ts <= floor
         /\ floor = m \/ \E a \in A : (windowed => HasBalance(a)) /\ floor = a.ts
<1>1. PICK active : active = {a \in A : windowed => HasBalance(a)}
  OBVIOUS
<1>2. floor = Max({m} \cup Timestamps(active))
  BY <1>1 DEF TransferTsFloor, IsRegular
<1>3. PICK S : S = {m} \cup Timestamps(active)
  OBVIOUS
<1>4. \A a \in active : a \in A /\ a.ts \in Nat /\ m < a.ts
  BY <1>1 DEF Plannable
<1>5. \E x \in S : \A y \in S : x >= y
  <2>1. CASE active = {}
    <3>1. S = {m}
      BY <1>3, <2>1 DEF Timestamps
    <3> QED
      BY <3>1
  <2>2. CASE active # {}
    <3>1. PICK J : J = {j \in 1..Len(q) : q[j] \in active}
      OBVIOUS
    <3>2. Len(q) \in Nat /\ \A a \in active : \E j \in J : a = q[j]
      BY <1>4, <3>1, ListParts DEF IsRegular
    <3>3. J \subseteq 1..Len(q) /\ J # {}
      BY <2>2, <3>1, <3>2
    <3>4. PICK n \in J : \A j \in J : j <= n
      BY <3>2, <3>3, Greatest
    <3>5. q[n] \in active /\ n \in 1..Len(q)
      BY <3>1
    <3>6. ASSUME NEW a \in active PROVE a.ts <= q[n].ts
      <4>1. PICK j \in J : a = q[j] /\ j <= n /\ j \in 1..Len(q)
        BY <3>1, <3>2, <3>4
      <4>2. j < n => q[j].ts < q[n].ts
        BY <3>5, <4>1 DEF IsRegular, InTime
      <4>3. a.ts \in Nat /\ q[n].ts \in Nat
        BY <1>4, <3>5
      <4>4. CASE j = n
        BY <4>1, <4>3, <4>4
      <4>5. CASE j < n
        BY <4>1, <4>2, <4>3, <4>5
      <4>6. j = n \/ j < n
        <5>1. j \in Nat /\ n \in Nat
          BY <3>2, <3>5, <4>1
        <5> QED
          BY <4>1, <5>1
      <4> QED
        BY <4>4, <4>5, <4>6
    <3>7. q[n].ts \in S
      BY <1>3, <3>5 DEF Timestamps
    <3>8. m < q[n].ts /\ q[n].ts \in Nat
      BY <1>4, <3>5
    <3>9. \A y \in S : q[n].ts >= y
      <4>1. \A y \in S : y = m \/ \E a \in active : y = a.ts
        BY <1>3 DEF Timestamps
      <4> QED
        BY <1>4, <3>6, <3>8, <4>1
    <3> QED
      BY <3>7, <3>9
  <2> QED
    BY <2>1, <2>2
<1>6. floor \in S /\ \A y \in S : floor >= y
  BY <1>2, <1>3, <1>5 DEF Max
<1>7. m \in S /\ \A a \in active : a.ts \in S
  BY <1>3 DEF Timestamps
<1>8. floor = m \/ \E a \in active : floor = a.ts
  BY <1>3, <1>6 DEF Timestamps
<1>9. floor \in Nat
  BY <1>4, <1>8
<1>10. m <= floor /\ \A a \in active : a.ts <= floor
  BY <1>4, <1>6, <1>7, <1>9
<1> QED
  BY <1>1, <1>8, <1>9, <1>10

\* What has been opened when all accounts of a plan are there.
OpenedAll(base, G, q, Ls) ==
  /\ IsBase(base) /\ CreateAccounts(EmptyLedger, G \o q) = Start(base)
  /\ Cardinality(DOMAIN base) = Len(G \o q)
  /\ \A i \in 1..Len(q) :
        /\ q[i].id \in DOMAIN base
        /\ base[q[i].id] = Account(q[i].id, q[i].ledger, q[i].limit, q[i].ts, 0, 0, 0, 0)
  /\ \A l \in Ls : \A id \in {GenesisCredit(l), GenesisDebit(l)} : \E ts \in 1..(2 * Cardinality(Ls)) :
        id \in DOMAIN base /\ base[id] = Account(id, l, "none", ts, 0, 0, 0, 0)

LEMMA PlanOpened ==
  ASSUME NEW A, Plannable(A), NEW Ls, Ls \subseteq LedgersOf(A), IsFiniteSet(LedgersOf(A)),
         NEW G, IsGenesis(G, Ls), NEW q, IsRegular(q, A)
  PROVE  \E base : OpenedAll(base, G, q, Ls)
<1>1. PICK s : s = G \o q
  OBVIOUS
<1>2. PICK m, n : m = Len(G) /\ n = Len(q)
  OBVIOUS
<1>3. IsList(G) /\ IsList(q) /\ m \in Nat /\ n \in Nat /\ m = 2 * Cardinality(Ls)
  BY <1>2, ListParts DEF IsGenesis, IsRegular
<1>4. IsList(s) /\ Len(s) = m + n
  BY <1>1, <1>2, <1>3, Joined
<1>5. /\ \A i \in 1..m : s[i] = G[i]
      /\ \A i \in 1..n : s[m + i] = q[i]
  <2>1. PICK U : G \in Seq(U) /\ q \in Seq(U)
    <3>1. G \in Seq(Range(G) \cup Range(q)) /\ q \in Seq(Range(G) \cup Range(q))
      BY <1>3 DEF IsList
    <3> QED
      BY <3>1
  <2> QED
    BY <1>1, <1>2, <2>1
<1>6. \A i \in 1..(m + n) : i \in 1..m \/ \E j \in 1..n : i = m + j
  <2> TAKE i \in 1..(m + n)
  <2>1. i > m => i - m \in 1..n /\ i = m + (i - m)
    BY <1>3
  <2> QED
    BY <1>3, <2>1
<1>7. ASSUME NEW i \in 1..m
      PROVE  /\ s[i].ts = i /\ s[i].limit = "none" /\ s[i].ledger \in Ls
             /\ s[i].id \in {GenesisCredit(s[i].ledger), GenesisDebit(s[i].ledger)}
             /\ Opened(s[i]) = Account(s[i].id, s[i].ledger, "none", i, 0, 0, 0, 0)
  <2>1. PICK l, id : /\ l \in Ls /\ id \in {GenesisCredit(l), GenesisDebit(l)}
                     /\ s[i] = Account(id, l, "none", i, 0, 0, 0, 0)
    <3>1. \E l \in Ls : \E id \in {GenesisCredit(l), GenesisDebit(l)} :
             G[i] = Account(id, l, "none", i, 0, 0, 0, 0)
      BY <1>2 DEF IsGenesis
    <3>2. s[i] = G[i]
      BY <1>5
    <3> QED
      BY <3>1, <3>2
  <2>2. s[i].ts = i /\ s[i].limit = "none" /\ s[i].ledger = l /\ s[i].id = id
    BY <2>1 DEF Account
  <2>3. Opened(s[i]) = Account(s[i].id, s[i].ledger, "none", i, 0, 0, 0, 0)
    BY <2>2 DEF Opened, Account
  <2> QED
    BY <2>1, <2>2, <2>3
<1>8. ASSUME NEW i \in 1..n
      PROVE  /\ q[i] \in A /\ s[m + i] = q[i] /\ q[i].ts \in Nat /\ m < q[i].ts /\ q[i].limit # "credits"
             /\ \A l \in Ls : q[i].id # GenesisCredit(l) /\ q[i].id # GenesisDebit(l)
             /\ Opened(q[i]) = Account(q[i].id, q[i].ledger, q[i].limit, q[i].ts, 0, 0, 0, 0)
  <2>0. PICK N : N = Cardinality(LedgersOf(A)) /\ N \in Nat /\ Cardinality(Ls) <= N /\ Cardinality(Ls) \in Nat
    BY FS_Subset, FS_CardinalityType
  <2>1. q[i] \in A
    BY <1>2 DEF IsRegular
  <2>2. Opened(q[i]) = Account(q[i].id, q[i].ledger, q[i].limit, q[i].ts, 0, 0, 0, 0)
    BY DEF Opened, Account
  <2> QED
    BY <1>3, <1>5, <2>0, <2>1, <2>2 DEF Plannable
<1>9. InTime(s)
  <2>1. ASSUME NEW i \in 1..(m + n) PROVE s[i].ts \in Nat
    BY <1>3, <1>6, <1>7, <1>8
  <2>2. ASSUME NEW i \in 1..(m + n), NEW j \in 1..(m + n), i < j PROVE s[i].ts < s[j].ts
    <3>1. CASE j \in 1..m
      <4>1. i \in 1..m
        BY <1>3, <2>2, <3>1
      <4> QED
        BY <1>7, <2>2, <3>1, <4>1
    <3>2. CASE i \in 1..m /\ \E k \in 1..n : j = m + k
      <4>1. PICK k \in 1..n : j = m + k
        BY <3>2
      <4>2. s[i].ts = i /\ s[j] = q[k] /\ m < q[k].ts /\ q[k].ts \in Nat
        BY <1>7, <1>8, <3>2, <4>1
      <4> QED
        BY <1>3, <3>2, <4>2
    <3>3. CASE (\E k \in 1..n : i = m + k) /\ \E k \in 1..n : j = m + k
      <4>1. PICK h \in 1..n, k \in 1..n : i = m + h /\ j = m + k
        BY <3>3
      <4>2. s[i] = q[h] /\ s[j] = q[k] /\ h < k
        BY <1>3, <1>8, <2>2, <4>1
      <4>3. q[h].ts < q[k].ts
        BY <1>2, <4>2 DEF IsRegular, InTime
      <4> QED
        BY <4>2, <4>3
    <3>4. CASE (\E k \in 1..n : i = m + k) /\ j \in 1..m
      BY <1>3, <2>2, <3>4
    <3> QED
      BY <1>6, <3>1, <3>2, <3>3, <3>4
  <2> QED
    BY <1>4, <2>1, <2>2 DEF InTime
<1>10. ASSUME NEW i \in 1..(m + n) PROVE s[i].ts > 0
  BY <1>3, <1>6, <1>7, <1>8
<1>11. ASSUME NEW i \in 1..(m + n), NEW j \in 1..(m + n), s[i].id = s[j].id PROVE i = j
  <2>1. CASE i \in 1..m /\ j \in 1..m
    BY <1>2, <1>5, <1>11, <2>1 DEF IsGenesis
  <2>2. CASE (\E k \in 1..n : i = m + k) /\ \E k \in 1..n : j = m + k
    <3>1. PICK h \in 1..n, k \in 1..n : i = m + h /\ j = m + k
      BY <2>2
    <3>2. q[h].id = q[k].id
      BY <1>8, <1>11, <3>1
    <3>3. h = k
      BY <1>2, <3>2 DEF IsRegular
    <3> QED
      BY <3>1, <3>3
  <2>3. CASE i \in 1..m /\ \E k \in 1..n : j = m + k
    <3>1. PICK k \in 1..n : j = m + k
      BY <2>3
    <3>2. s[i].ledger \in Ls /\ s[i].id \in {GenesisCredit(s[i].ledger), GenesisDebit(s[i].ledger)}
      BY <1>7, <2>3
    <3>3. s[j].id = q[k].id
      BY <1>8, <3>1
    <3> QED
      BY <1>8, <1>11, <3>2, <3>3
  <2>4. CASE j \in 1..m /\ \E k \in 1..n : i = m + k
    <3>1. PICK k \in 1..n : i = m + k
      BY <2>4
    <3>2. s[j].ledger \in Ls /\ s[j].id \in {GenesisCredit(s[j].ledger), GenesisDebit(s[j].ledger)}
      BY <1>7, <2>4
    <3>3. s[i].id = q[k].id
      BY <1>8, <3>1
    <3> QED
      BY <1>8, <1>11, <3>2, <3>3
  <2> QED
    BY <1>6, <2>1, <2>2, <2>3, <2>4
<1>12. PICK R, base : R = CreateAccounts(EmptyLedger, s) /\ base = R.accounts
  OBVIOUS
<1>13. /\ R = [accounts |-> base, transfers |-> <<>>]
       /\ base = [id \in DOMAIN base |-> base[id]]
       /\ DOMAIN base = {s[i].id : i \in 1..(m + n)}
       /\ \A i \in 1..(m + n) : base[s[i].id] = Opened(s[i])
  <2>1. PICK k : k = Len(s)
    OBVIOUS
  <2>2. /\ R = [accounts |-> R.accounts, transfers |-> <<>>]
        /\ R.accounts = [id \in DOMAIN R.accounts |-> R.accounts[id]]
        /\ DOMAIN R.accounts = {s[i].id : i \in 1..k}
        /\ \A i \in 1..k : R.accounts[s[i].id] = Opened(s[i])
    BY <1>4, <1>9, <1>10, <1>11, <1>12, <2>1, AllOpened
  <2> QED
    BY <1>4, <1>12, <2>1, <2>2
<1>14. ASSUME NEW i \in 1..m
       PROVE  /\ s[i].id \in DOMAIN base
              /\ base[s[i].id] = Account(s[i].id, s[i].ledger, "none", i, 0, 0, 0, 0)
  <2>1. i \in 1..(m + n)
    BY <1>3
  <2> QED
    BY <1>7, <1>13, <2>1
<1>15. ASSUME NEW i \in 1..n
       PROVE  /\ q[i].id \in DOMAIN base
              /\ base[q[i].id] = Account(q[i].id, q[i].ledger, q[i].limit, q[i].ts, 0, 0, 0, 0)
  <2>1. m + i \in 1..(m + n)
    BY <1>3
  <2> QED
    BY <1>8, <1>13, <2>1
<1>16. IsBase(base)
  <2>1. ASSUME NEW id \in DOMAIN base
        PROVE  /\ base[id] = Account(id, base[id].ledger, base[id].limit, base[id].ts, 0, 0, 0, 0)
               /\ base[id].ts \in Nat /\ base[id].limit # "credits"
    <3>1. PICK i \in 1..(m + n) : id = s[i].id
      BY <1>13
    <3>2. CASE i \in 1..m
      <4>1. PICK l : base[id] = Account(id, l, "none", i, 0, 0, 0, 0)
        BY <1>14, <3>1, <3>2
      <4>2. base[id].ledger = l /\ base[id].limit = "none" /\ base[id].ts = i
        BY <4>1, AccountHas
      <4> QED
        BY <3>2, <4>1, <4>2
    <3>3. CASE \E j \in 1..n : i = m + j
      <4>1. PICK j \in 1..n : i = m + j
        BY <3>3
      <4>2. PICK l, x, ts : /\ base[id] = Account(id, l, x, ts, 0, 0, 0, 0)
                            /\ x = q[j].limit /\ ts = q[j].ts
        BY <1>8, <1>15, <3>1, <4>1
      <4>3. base[id].ledger = l /\ base[id].limit = x /\ base[id].ts = ts
        BY <4>2, AccountHas
      <4> QED
        BY <1>8, <4>2, <4>3
    <3> QED
      BY <1>6, <3>2, <3>3
  <2> QED
    BY <1>13, <2>1 DEF IsBase
<1>17. R = Start(base)
  <2>1. ASSUME NEW id \in DOMAIN base PROVE base[id] = Holding(base[id], 0, 0)
    <3>1. PICK l, x, ts : base[id] = Account(id, l, x, ts, 0, 0, 0, 0)
      BY <1>16 DEF IsBase
    <3> QED
      BY <3>1, AccountWith
  <2>2. \A id \in DOMAIN base : Nothing(base)[id] = 0
    BY DEF Nothing
  <2>3. base = [id \in DOMAIN base |-> Holding(base[id], Nothing(base)[id], Nothing(base)[id])]
    BY <1>13, <2>1, <2>2
  <2> QED
    BY <1>13, <2>3 DEF Start, LedgerAt
<1>18. Cardinality(DOMAIN base) = m + n
  <2>0. PICK k \in Nat : k = m + n
    BY <1>3
  <2>1. PICK f, B : f = [i \in 1..k |-> s[i].id] /\ k = m + n /\ k \in Nat /\ B = 1..k
    BY <2>0
  <2>2. f = [i \in 1..k |-> f[i]] /\ \A i \in 1..k : f[i] = s[i].id
    BY <2>1
  <2>3. DOMAIN base = {f[i] : i \in 1..k}
    BY <1>13, <2>1, <2>2
  <2>4. IsFiniteSet(B) /\ Cardinality(B) = k
    BY <2>1, FS_Interval
  <2>5. \A i \in B : \A j \in B : f[i] = f[j] => i = j
    BY <1>11, <2>1, <2>2
  <2>6. f = [i \in B |-> f[i]]
    BY <2>1
  <2>7. PICK D : D = DOMAIN base /\ D = {f[i] : i \in B}
    BY <2>1, <2>3
  <2>8. Cardinality(D) = Cardinality(B)
    BY <2>4, <2>5, <2>6, <2>7, OneToOne
  <2> QED
    BY <2>1, <2>4, <2>7, <2>8
<1>19. ASSUME NEW l \in Ls, NEW id \in {GenesisCredit(l), GenesisDebit(l)}
       PROVE  \E ts \in 1..(2 * Cardinality(Ls)) :
                 id \in DOMAIN base /\ base[id] = Account(id, l, "none", ts, 0, 0, 0, 0)
  <2>1. PICK i \in 1..m : s[i].id = id
    <3>1. \E i \in 1..m : G[i].id = id
      BY <1>2 DEF IsGenesis
    <3> QED
      BY <1>5, <3>1
  <2>2. s[i].id \in {GenesisCredit(s[i].ledger), GenesisDebit(s[i].ledger)}
    BY <1>7
  <2>3. s[i].ledger = l
    BY <2>1, <2>2 DEF GenesisCredit, GenesisDebit
  <2> QED
    BY <1>3, <1>14, <2>1, <2>3
<1> QED
  BY <1>1, <1>2, <1>4, <1>12, <1>15, <1>16, <1>17, <1>18, <1>19, SMTT(30) DEF OpenedAll

WithBalance(A) == {a \in A : HasBalance(a)}

\* Importing a plan of accounts A, without a window, opens base and moves dr
\* and cr.
Takes(plan, A, base, dr, cr) ==
  /\ IsList(plan.synthetic) /\ IsRegular(plan.regular, A)
  /\ IsBase(base) /\ CreateAccounts(EmptyLedger, plan.genesis \o plan.regular) = Start(base)
  /\ Cardinality(DOMAIN base) = Len(plan.genesis \o plan.regular)
  /\ CreateTransfers(Start(base), plan.synthetic) = LedgerAt(base, dr, cr, plan.synthetic)
  /\ Rebuilt(base, plan.regular, Len(plan.regular), Len(plan.regular), dr, cr)
  /\ \A a \in A : /\ a.id \in DOMAIN base /\ dr[a.id] = a.dr /\ cr[a.id] = a.cr
                  /\ base[a.id] = Account(a.id, a.ledger, a.limit, a.ts, 0, 0, 0, 0)
  /\ \A l \in LedgersOf(A) : \A id \in {GenesisCredit(l), GenesisDebit(l)} : id \in DOMAIN base

\* Where its synthetic transfers are.
Starts(plan, A, windowed, floor) ==
  /\ floor \in Nat /\ Len(plan.synthetic) \in Nat
  /\ Len(plan.synthetic) <= 2 * Cardinality(WithBalance(A))
  /\ \A i \in 1..Len(plan.synthetic) :
        plan.synthetic[i].id = i /\ plan.synthetic[i].ts = floor + i
  /\ \/ floor = 2 * Cardinality(LedgersOf(A))
     \/ \E a \in A : (windowed => HasBalance(a)) /\ floor = a.ts

LEMMA SnapshotTaken ==
  ASSUME NEW A, Plannable(A), NEW windowed \in BOOLEAN, NEW plan, plan = BuildSnapshot(A, windowed)
  PROVE  /\ Covered(A) => \E base, dr, cr : Takes(plan, A, base, dr, cr)
         /\ \E floor : Starts(plan, A, windowed, floor)
         /\ plan = [genesis |-> plan.genesis, regular |-> plan.regular,
                    synthetic |-> plan.synthetic, windowed |-> <<>>]
<1>1. PICK G, Ls, m : G = GenesisAccounts(A) /\ Ls = LedgersOf(A) /\ m = 2 * Cardinality(Ls)
  OBVIOUS
<1>2. /\ IsFiniteSet(A) /\ \A a \in A : a.ledger \in Nat
  BY DEF Plannable
<1>3. IsGenesis(G, Ls) /\ IsFiniteSet(Ls)
  BY <1>1, <1>2, GenesisParts
<1>4. m \in Nat /\ m = Len(G)
  <2>1. Cardinality(Ls) \in Nat
    BY <1>3, FS_CardinalityType
  <2> QED
    BY <1>1, <1>3, <2>1 DEF IsGenesis
<1>5. PICK q, floor, S : /\ q = RegularAccounts(A, m) /\ floor = TransferTsFloor(q, m, windowed)
                         /\ S = SyntheticTransfers(q, floor)
  OBVIOUS
<1>6. /\ plan = [genesis |-> G, regular |-> q, synthetic |-> S, windowed |-> <<>>]
      /\ plan.genesis = G /\ plan.regular = q /\ plan.synthetic = S
  BY <1>1, <1>4, <1>5 DEF BuildSnapshot
<1>7. IsRegular(q, A)
  BY <1>1, <1>4, <1>5, RegularParts
<1>8. /\ floor \in Nat /\ m <= floor
      /\ \A a \in A : (windowed => HasBalance(a)) => a.ts <= floor
      /\ floor = m \/ \E a \in A : (windowed => HasBalance(a)) /\ floor = a.ts
  BY <1>1, <1>4, <1>5, <1>7, Floors
<1>9. PICK base : OpenedAll(base, G, q, Ls)
  BY <1>1, <1>3, <1>7, PlanOpened
<1>10. PICK N : N = Len(q) /\ N \in Nat
  BY <1>7, ListParts DEF IsRegular
<1>11. /\ IsList(q) /\ LedgersIn(q) = Ls /\ \A j \in 1..N : q[j] \in A
       /\ \A a \in A : \E j \in 1..N : a = q[j]
       /\ \A j \in 1..N : \A k \in 1..N : q[j] = q[k] \/ q[j].id = q[k].id => j = k
  BY <1>1, <1>7, <1>10, ListParts DEF IsRegular
<1>12. ASSUME NEW a \in A
       PROVE  /\ a.dr \in Nat /\ a.cr \in Nat
              /\ \A l \in Ls : a.id # GenesisCredit(l) /\ a.id # GenesisDebit(l)
              /\ a.id \in DOMAIN base
              /\ base[a.id] = Account(a.id, a.ledger, a.limit, a.ts, 0, 0, 0, 0)
              /\ base[a.id].ledger = a.ledger /\ base[a.id].limit = a.limit /\ base[a.id].ts = a.ts
  <2>1. /\ a.dr \in Nat /\ a.cr \in Nat
        /\ \A l \in Ls : a.id # GenesisCredit(l) /\ a.id # GenesisDebit(l)
    BY <1>1 DEF Plannable
  <2>2. PICK j \in 1..N : a = q[j]
    BY <1>11
  <2>3. /\ a.id \in DOMAIN base
        /\ base[a.id] = Account(a.id, a.ledger, a.limit, a.ts, 0, 0, 0, 0)
    BY <1>9, <1>10, <2>2 DEF OpenedAll
  <2>4. base[a.id].ledger = a.ledger /\ base[a.id].limit = a.limit /\ base[a.id].ts = a.ts
    <3>1. PICK i, l, x, ts : /\ i = a.id /\ l = a.ledger /\ x = a.limit /\ ts = a.ts
                             /\ base[i] = Account(i, l, x, ts, 0, 0, 0, 0)
      BY <2>3
    <3> QED
      BY <3>1, AccountHas
  <2> QED
    BY <2>1, <2>3, <2>4
<1>13. ASSUME NEW l \in Ls, NEW g \in {GenesisCredit(l), GenesisDebit(l)}
       PROVE  g \in DOMAIN base /\ base[g].ledger = l /\ base[g].limit = "none" /\ base[g].ts <= floor
  <2>1. PICK ts \in 1..(2 * Cardinality(Ls)) :
           g \in DOMAIN base /\ base[g] = Account(g, l, "none", ts, 0, 0, 0, 0)
    BY <1>9 DEF OpenedAll
  <2>2. base[g].ledger = l /\ base[g].limit = "none" /\ base[g].ts = ts
    BY <2>1, AccountHas
  <2>3. ts <= floor
    BY <1>1, <1>4, <1>8
  <2> QED
    BY <2>1, <2>2, <2>3
<1>14. ASSUME Covered(A) PROVE Prepares(base, q, floor)
  <2>1. ASSUME NEW j \in 1..N
        PROVE  /\ q[j].dr \in Nat /\ q[j].cr \in Nat
               /\ q[j].id \in DOMAIN base /\ base[q[j].id].ledger = q[j].ledger
               /\ q[j].cr > 0 => base[q[j].id].ts <= floor
               /\ q[j].dr > 0 => base[q[j].id].ts <= floor
               /\ base[q[j].id].limit = "debits" => q[j].dr <= q[j].cr
               /\ \A l \in Ls : q[j].id # GenesisCredit(l) /\ q[j].id # GenesisDebit(l)
    <3>1. PICK a \in A : a = q[j]
      BY <1>11
    <3>2. a.cr > 0 \/ a.dr > 0 => a.ts <= floor
      BY <1>8 DEF HasBalance
    <3>3. a.limit = "debits" => a.dr <= a.cr
      BY <1>14 DEF Covered
    <3> QED
      BY <1>12, <3>1, <3>2, <3>3
  <2> QED
    BY <1>8, <1>9, <1>10, <1>11, <1>13, <2>1 DEF Prepares, OpenedAll
<1>15. /\ IsList(S) /\ \A i \in 1..Len(S) : S[i].id = i /\ S[i].ts = floor + i
       /\ Len(S) <= 2 * Cardinality(Balanced(q, N))
  <2>1. \A i \in 1..N : q[i].cr \in Nat /\ q[i].dr \in Nat
    BY <1>11, <1>12
  <2> QED
    BY <1>5, <1>8, <1>10, <1>11, <2>1, SyntheticPlaces, SMTT(30)
<1>18. ASSUME Covered(A) PROVE \E dr, cr : Takes(plan, A, base, dr, cr)
  <2>2. PICK dr, cr : /\ CreateTransfers(Start(base), S) = LedgerAt(base, dr, cr, S)
                      /\ Rebuilt(base, q, N, N, dr, cr)
    BY <1>5, <1>8, <1>10, <1>14, <1>18, SyntheticTaken
  <2>3. ASSUME NEW a \in A PROVE dr[a.id] = a.dr /\ cr[a.id] = a.cr
    <3>1. PICK j \in 1..N : a = q[j]
      BY <1>11
    <3>2. j <= N
      BY <1>10
    <3> QED
      BY <1>10, <2>2, <3>1, <3>2 DEF Rebuilt
  <2>1. CreateAccounts(EmptyLedger, G \o q) = Start(base) /\ IsBase(base) /\ Cardinality(DOMAIN base) = Len(G \o q)
    BY <1>9 DEF OpenedAll
  <2> QED
    BY <1>1, <1>6, <1>7, <1>10, <1>12, <1>13, <1>15, <2>1, <2>2, <2>3 DEF Takes
<1>19. Cardinality(Balanced(q, N)) = Cardinality(WithBalance(A))
  <2>1. PICK B, C, f : B = Balanced(q, N) /\ C = WithBalance(A) /\ f = [j \in B |-> q[j]]
    OBVIOUS
  <2>2. B \subseteq 1..N /\ \A j \in 1..N : j \in B <=> HasBalance(q[j])
    BY <2>1 DEF Balanced
  <2>3. IsFiniteSet(1..N) /\ IsFiniteSet(B)
    <3>1. IsFiniteSet(1..N)
      BY <1>10, FS_Interval
    <3> QED
      BY <2>2, <3>1, FS_Subset
  <2>4. f = [j \in B |-> f[j]] /\ \A j \in B : f[j] = q[j]
    BY <2>1
  <2>5. \A j \in B : \A k \in B : f[j] = f[k] => j = k
    BY <1>11, <2>2, <2>4
  <2>6. C = {f[j] : j \in B}
    <3>1. \A j \in B : f[j] \in C
      BY <1>11, <2>1, <2>2, <2>4 DEF WithBalance
    <3>2. ASSUME NEW a \in C PROVE \E j \in B : a = f[j]
      <4>1. a \in A /\ HasBalance(a)
        BY <2>1 DEF WithBalance
      <4>2. PICK j \in 1..N : a = q[j]
        BY <1>11, <4>1
      <4> QED
        BY <2>2, <2>4, <4>1, <4>2
    <3> QED
      BY <3>1, <3>2
  <2> QED
    BY <2>1, <2>3, <2>4, <2>5, <2>6, OneToOne
<1>20. Starts(plan, A, windowed, floor)
  <2>1. Len(S) \in Nat
    BY <1>15, ListParts
  <2> QED
    BY <1>1, <1>6, <1>8, <1>15, <1>19, <2>1 DEF Starts
<1> QED
  BY <1>6, <1>18, <1>20

-----------------------------------------------------------------------------
(***************************************************************************)
(* The history of a source: what its balances are at any time.             *)
(***************************************************************************)

\* The history of a source: its transfers, numbered as they came.  A transfer
\* names a pending one that is older.
IsHistory(s) ==
  /\ IsList(s)
  /\ \A i \in 1..Len(s) :
        /\ s[i].id = FirstAppId + i - 1 /\ s[i].kind \in Kinds /\ s[i].amount \in Nat
        /\ s[i].pending \in Nat /\ s[i].pending < s[i].id

OnSide(t, side, id) == IF side = "debit" THEN t.debit = id ELSE t.credit = id

\* What its transfers post on one side of an account, and what they hold there.
Postings(s, side, id) == [i \in 1..Len(s) |-> IF OnSide(s[i], side, id) THEN Posts(s[i]) ELSE 0]
Posted(s, side, id, k) == SumTo(Postings(s, side, id), k)

IsOpen(s, i) == s[i].kind = "pending" /\ \A j \in 1..Len(s) : s[j].pending # s[i].id
Reservations(s, side, id) ==
  [i \in 1..Len(s) |-> IF OnSide(s[i], side, id) /\ IsOpen(s, i) THEN s[i].amount ELSE 0]
Held(s, side, id) == SumTo(Reservations(s, side, id), Len(s))

\* A transfer that may come next.
MayFollow(s, t) ==
  /\ t.id = FirstAppId + Len(s) /\ t.kind \in Kinds /\ t.amount \in Nat
  /\ t.kind \in {"single", "pending"} => t.pending = NoPending
  /\ t.kind \in {"post", "void"} =>
        \E i \in 1..Len(s) : /\ s[i].id = t.pending /\ IsOpen(s, i) /\ t.amount <= s[i].amount
                             /\ t.debit = s[i].debit /\ t.credit = s[i].credit

LEMMA PostedNumbers ==
  ASSUME NEW s, IsHistory(s), NEW side, NEW id
  PROVE  /\ Len(s) \in Nat /\ Amounted(Postings(s, side, id), Len(s)) /\ Numbers(Postings(s, side, id), Len(s))
         /\ \A k \in 0..Len(s) : Posted(s, side, id, k) \in Nat
         /\ Posted(s, side, id, 0) = 0
         /\ \A k \in 1..Len(s) : Posted(s, side, id, k) = Posted(s, side, id, k - 1)
                                    + (IF OnSide(s[k], side, id) THEN Posts(s[k]) ELSE 0)
<1>1. Len(s) \in Nat
  BY ListParts DEF IsHistory
<1>2. ASSUME NEW i \in 1..Len(s) PROVE Posts(s[i]) \in Nat
  BY DEF IsHistory, Posts
<1>3. PICK f : f = Postings(s, side, id)
  OBVIOUS
<1>4. \A i \in 1..Len(s) : f[i] = IF OnSide(s[i], side, id) THEN Posts(s[i]) ELSE 0
  BY <1>3 DEF Postings
<1>5. Amounted(f, Len(s)) /\ Numbers(f, Len(s))
  BY <1>2, <1>4 DEF Amounted, Numbers
<1>6. \A k \in 0..Len(s) : SumTo(f, k) \in Nat
  BY <1>1, <1>5, SumGrows
<1>7. SumTo(f, 0) = 0 /\ \A k \in 1..Len(s) : SumTo(f, k) = SumTo(f, k - 1) + f[k]
  BY <1>1, <1>5, SumSteps
<1> QED
  BY <1>1, <1>3, <1>4, <1>5, <1>6, <1>7 DEF Posted

LEMMA HeldNumbers ==
  ASSUME NEW s, IsHistory(s), NEW side, NEW id
  PROVE  /\ Len(s) \in Nat /\ Amounted(Reservations(s, side, id), Len(s)) /\ Numbers(Reservations(s, side, id), Len(s))
         /\ Held(s, side, id) \in Nat
<1>1. Len(s) \in Nat
  BY ListParts DEF IsHistory
<1>2. PICK f : f = Reservations(s, side, id)
  OBVIOUS
<1>3. \A i \in 1..Len(s) : f[i] = IF OnSide(s[i], side, id) /\ IsOpen(s, i) THEN s[i].amount ELSE 0
  BY <1>2 DEF Reservations
<1>4. Amounted(f, Len(s)) /\ Numbers(f, Len(s))
  <2>1. \A i \in 1..Len(s) : s[i].amount \in Nat
    BY DEF IsHistory
  <2>2. \A i \in 1..Len(s) : f[i] \in Nat
    BY <1>3, <2>1
  <2> QED
    BY <2>2 DEF Amounted, Numbers
<1>5. Len(s) \in 0..Len(s)
  BY <1>1
<1>6. SumTo(f, Len(s)) \in Nat
  BY <1>1, <1>4, <1>5, SumGrows
<1> QED
  BY <1>1, <1>2, <1>4, <1>6 DEF Held

\* u is s and one more.
Extends(u, s, t, n) ==
  /\ IsHistory(u) /\ Len(u) = n + 1 /\ n \in Nat
  /\ \A i \in 1..n : u[i] = s[i]
  /\ u[n + 1] = t

LEMMA HistoryGrows ==
  ASSUME NEW s, IsHistory(s), NEW t, MayFollow(s, t), NEW n, n = Len(s), NEW u, u = Append(s, t)
  PROVE  Extends(u, s, t, n)
<1>1. IsList(s) /\ n \in Nat
  BY ListParts DEF IsHistory
<1>2. /\ IsList(u) /\ Len(u) = n + 1
      /\ \A i \in 1..n : u[i] = s[i]
      /\ u[n + 1] = t
  BY <1>1, Appended
<1>3. \A i : i \in 1..(n + 1) <=> i \in 1..n \/ i = n + 1
  BY <1>1
<1>4. FirstAppId \in Nat /\ FirstAppId > 0
  <2>1. Cardinality(AccountIds) \in Nat
    BY AccountsAssumption, FS_CardinalityType
  <2> QED
    BY <2>1, IdAssumption
<1>5. t.pending \in Nat /\ t.pending < t.id
  <2>1. CASE t.kind \in {"single", "pending"}
    BY <1>1, <1>4, <2>1 DEF MayFollow, NoPending
  <2>2. CASE t.kind \in {"post", "void"}
    <3>1. PICK i \in 1..n : s[i].id = t.pending
      BY <2>2 DEF MayFollow
    <3>2. s[i].id = FirstAppId + i - 1
      BY DEF IsHistory
    <3> QED
      BY <1>1, <1>4, <3>1, <3>2 DEF MayFollow
  <2> QED
    BY <2>1, <2>2 DEF MayFollow, Kinds
<1>6. t.id = FirstAppId + (n + 1) - 1
  BY <1>1, <1>4 DEF MayFollow
<1>7. IsHistory(u)
  BY <1>2, <1>3, <1>5, <1>6 DEF IsHistory, MayFollow
<1> QED
  BY <1>1, <1>2, <1>7 DEF Extends

PostsMore(u, s, t, side, id, n) ==
  /\ \A k \in 0..n : Posted(u, side, id, k) = Posted(s, side, id, k)
  /\ Posted(u, side, id, n + 1) = Posted(s, side, id, n) + (IF OnSide(t, side, id) THEN Posts(t) ELSE 0)

LEMMA PostedMore ==
  ASSUME NEW s, IsHistory(s), NEW t, MayFollow(s, t), NEW n, n = Len(s), NEW u, u = Append(s, t),
         NEW side, NEW id
  PROVE  PostsMore(u, s, t, side, id, n)
<1>1. /\ IsHistory(u) /\ Len(u) = n + 1 /\ n \in Nat
      /\ \A i \in 1..n : u[i] = s[i]
      /\ u[n + 1] = t
  <2>1. Extends(u, s, t, n)
    BY HistoryGrows
  <2> QED
    BY <2>1 DEF Extends
<1>2. PICK f, g : f = Postings(s, side, id) /\ g = Postings(u, side, id)
  OBVIOUS
<1>3. \A i \in 1..n : g[i] = f[i]
  BY <1>1, <1>2 DEF Postings
<1>4. Numbers(f, n)
  BY <1>2, PostedNumbers
<1>5. \A k \in 0..n : SumTo(g, k) = SumTo(f, k)
  BY <1>1, <1>3, <1>4, SumSame
<1>6. n + 1 \in 1..(n + 1) /\ n \in 0..n /\ (n + 1) - 1 = n
  BY <1>1
<1>7. Posted(u, side, id, n + 1) = Posted(u, side, id, (n + 1) - 1)
                                    + (IF OnSide(u[n + 1], side, id) THEN Posts(u[n + 1]) ELSE 0)
  <2>1. \A k \in 1..Len(u) : Posted(u, side, id, k) = Posted(u, side, id, k - 1)
                                    + (IF OnSide(u[k], side, id) THEN Posts(u[k]) ELSE 0)
    BY <1>1, PostedNumbers
  <2> QED
    BY <1>1, <1>6, <2>1
<1>8. \A k \in 0..n : Posted(u, side, id, k) = Posted(s, side, id, k)
  BY <1>2, <1>5 DEF Posted
<1> QED
  BY <1>1, <1>6, <1>7, <1>8 DEF PostsMore

\* What is held changes by what the transfer reserves.
HoldsMore(u, s, t, side, id, y) ==
  /\ y \in Int
  /\ Held(u, side, id) = Held(s, side, id) + (IF OnSide(t, side, id) THEN y ELSE 0)

LEMMA HeldMore ==
  ASSUME NEW s, IsHistory(s), NEW t, MayFollow(s, t), NEW n, n = Len(s), NEW u, u = Append(s, t),
         NEW side, NEW id, NEW L, L.transfers = s, NEW y, y = Reserves(L, t)
  PROVE  HoldsMore(u, s, t, side, id, y)
<1>1. /\ IsHistory(u) /\ Len(u) = n + 1 /\ n \in Nat
      /\ \A i \in 1..n : u[i] = s[i]
      /\ u[n + 1] = t
  <2>1. Extends(u, s, t, n)
    BY HistoryGrows
  <2> QED
    BY <2>1 DEF Extends
<1>2. PICK f, g : f = Reservations(s, side, id) /\ g = Reservations(u, side, id)
  OBVIOUS
<1>3. Numbers(f, n) /\ Numbers(g, n + 1) /\ Numbers(g, n)
  <2>1. Numbers(f, n) /\ Numbers(g, n + 1)
    BY <1>1, <1>2, HeldNumbers
  <2>2. \A i \in 1..n : i \in 1..(n + 1)
    BY <1>1
  <2> QED
    BY <2>1, <2>2 DEF Numbers
<1>4. /\ \A i \in 1..n : f[i] = IF OnSide(s[i], side, id) /\ IsOpen(s, i) THEN s[i].amount ELSE 0
      /\ \A i \in 1..n : g[i] = IF OnSide(s[i], side, id) /\ IsOpen(u, i) THEN s[i].amount ELSE 0
      /\ g[n + 1] = IF OnSide(t, side, id) /\ IsOpen(u, n + 1) THEN t.amount ELSE 0
  <2>1. n + 1 \in 1..(n + 1) /\ \A i \in 1..n : i \in 1..(n + 1)
    BY <1>1
  <2>2. \A i \in 1..(n + 1) : g[i] = IF OnSide(u[i], side, id) /\ IsOpen(u, i) THEN u[i].amount ELSE 0
    BY <1>1, <1>2 DEF Reservations
  <2>3. \A i \in 1..n : f[i] = IF OnSide(s[i], side, id) /\ IsOpen(s, i) THEN s[i].amount ELSE 0
    BY <1>2 DEF Reservations
  <2> QED
    BY <1>1, <2>1, <2>2, <2>3
<1>5. SumTo(g, n + 1) = SumTo(g, n) + g[n + 1] /\ SumTo(f, n) \in Int /\ SumTo(g, n) \in Int
  <2>1. /\ \A k \in 1..(n + 1) : SumTo(g, k) = SumTo(g, k - 1) + g[k]
        /\ \A k \in 0..(n + 1) : SumTo(g, k) \in Int
    BY <1>1, <1>3, SumSteps
  <2>2. \A k \in 0..n : SumTo(f, k) \in Int
    BY <1>1, <1>3, SumSteps
  <2>3. n + 1 \in 1..(n + 1) /\ n \in 0..n /\ n \in 0..(n + 1) /\ (n + 1) - 1 = n
    BY <1>1
  <2> QED
    BY <2>1, <2>2, <2>3
<1>6. Held(s, side, id) = SumTo(f, n) /\ Held(u, side, id) = SumTo(g, n + 1)
  BY <1>1, <1>2 DEF Held
<1>7. ASSUME NEW i \in 1..n
      PROVE  IsOpen(u, i) <=> IsOpen(s, i) /\ t.pending # s[i].id
  <2>1. \A j : j \in 1..(n + 1) <=> j \in 1..n \/ j = n + 1
    BY <1>1
  <2> QED
    BY <1>1, <2>1 DEF IsOpen
<1>8. \A i \in 1..n : s[i].id # 0 /\ s[i].id # t.id
  <2>1. Cardinality(AccountIds) \in Nat
    BY AccountsAssumption, FS_CardinalityType
  <2>2. FirstAppId \in Nat /\ FirstAppId > 0
    BY <2>1, IdAssumption
  <2> QED
    BY <1>1, <2>2 DEF IsHistory, MayFollow
<1>9. CASE t.kind \in {"single", "pending"}
  <2>1. \A i \in 1..n : g[i] = f[i]
    BY <1>4, <1>7, <1>8, <1>9 DEF MayFollow, NoPending
  <2>2. SumTo(g, n) = SumTo(f, n)
    <3>1. \A k \in 0..n : SumTo(g, k) = SumTo(f, k)
      BY <1>1, <1>3, <2>1, SumSame
    <3> QED
      BY <1>1, <3>1
  <2>3. y = IF t.kind = "pending" THEN t.amount ELSE 0
    BY <1>9 DEF Reserves
  <2>4. IsOpen(u, n + 1) <=> t.kind = "pending"
    <3>1. \A j \in 1..(n + 1) : u[j].pending # t.id
      <4>1. \A j \in 1..n : s[j].pending < s[j].id /\ s[j].id < t.id /\ s[j].pending \in Nat /\ s[j].id \in Nat
        BY <1>1, IdAssumption DEF IsHistory, MayFollow
      <4>2. t.pending # t.id
        BY <1>1, IdAssumption DEF IsHistory
      <4>3. \A j : j \in 1..(n + 1) <=> j \in 1..n \/ j = n + 1
        BY <1>1
      <4>4. t.id \in Nat
        BY <1>1, IdAssumption DEF MayFollow
      <4> QED
        BY <1>1, <4>1, <4>2, <4>3, <4>4
    <3> QED
      BY <1>1, <3>1 DEF IsOpen
  <2> QED
    BY <1>4, <1>5, <1>6, <1>9, <2>2, <2>3, <2>4 DEF MayFollow, HoldsMore
<1>10. CASE t.kind \in {"post", "void"}
  <2>1. PICK p \in 1..n : /\ s[p].id = t.pending /\ IsOpen(s, p)
                          /\ t.debit = s[p].debit /\ t.credit = s[p].credit
    BY <1>10 DEF MayFollow
  <2>2. ASSUME NEW i \in 1..n PROVE i = p <=> s[i].id = t.pending
    BY <1>1, <2>1, IdAssumption DEF IsHistory
  <2>3. \A i \in 1..n : i # p => g[i] = f[i]
    BY <1>4, <1>7, <2>2
  <2>4. g[p] = 0 /\ f[p] = IF OnSide(t, side, id) THEN s[p].amount ELSE 0
    BY <1>4, <1>7, <2>1 DEF OnSide
  <2>5. SumTo(g, n) = SumTo(f, n) + (g[p] - f[p])
    BY <1>1, <1>3, <2>3, SumChanged
  <2>6. y = -(s[p].amount) /\ s[p].amount \in Nat
    <3>1. PendingOf(L, t) = {s[p]}
      <4>1. \A x : x \in Range(s) <=> \E i \in 1..n : x = s[i]
        BY ListParts DEF IsHistory
      <4>2. s[p].kind = "pending"
        BY <2>1 DEF IsOpen
      <4> QED
        BY <2>2, <4>1, <4>2 DEF PendingOf
    <3>2. (CHOOSE x \in {s[p]} : TRUE) = s[p]
      OBVIOUS
    <3>3. y = -((CHOOSE x \in PendingOf(L, t) : TRUE).amount)
      BY <1>10 DEF Reserves
    <3> QED
      BY <3>1, <3>2, <3>3 DEF IsHistory
  <2>7. g[n + 1] = 0
    BY <1>1, <1>4, <1>10 DEF IsOpen
  <2> QED
    BY <1>5, <1>6, <2>4, <2>5, <2>6, <2>7 DEF HoldsMore
<1> QED
  BY <1>9, <1>10 DEF MayFollow, Kinds

\* The balances of an account are what the history has posted and holds.
Tallied(A, s) ==
  \A id \in DOMAIN A :
     A[id] = Account(id, LedgerOf[id], LimitOf[id], A[id].ts,
                     Posted(s, "debit", id, Len(s)), Posted(s, "credit", id, Len(s)),
                     Held(s, "debit", id), Held(s, "credit", id))

\* An account with a limit has at all times debited no more than credited, and
\* what it holds keeps to that.
Solvent(A, s) ==
  \A id \in DOMAIN A : LimitOf[id] = "debits" =>
     /\ \A k \in 0..Len(s) : Posted(s, "debit", id, k) <= Posted(s, "credit", id, k)
     /\ Posted(s, "debit", id, Len(s)) + Held(s, "debit", id) <= Posted(s, "credit", id, Len(s))

\* Objects are younger than the epoch, and not younger than now.
Timely(A, s, now) ==
  /\ \A id \in DOMAIN A : A[id].ts \in Nat /\ Epoch < A[id].ts /\ A[id].ts <= now
  /\ \A x \in DOMAIN A : \A y \in DOMAIN A : A[x].ts = A[y].ts => x = y
  /\ InTime(s) /\ \A i \in 1..Len(s) : s[i].ts <= now

\* The two sides of a transfer had been opened when it came.
Opposite(A, t) ==
  /\ t.debit # t.credit
  /\ \A id \in {t.debit, t.credit} :
        id \in DOMAIN A /\ LedgerOf[id] = t.ledger /\ A[id].ts < t.ts

\* What a source is at any time.
IsSource(L, now) ==
  /\ L = [accounts |-> L.accounts, transfers |-> L.transfers]
  /\ DOMAIN L.accounts \subseteq AccountIds
  /\ L.accounts = [id \in DOMAIN L.accounts |-> L.accounts[id]]
  /\ now \in Nat /\ Epoch <= now /\ IsHistory(L.transfers)
  /\ Tallied(L.accounts, L.transfers) /\ Solvent(L.accounts, L.transfers)
  /\ Timely(L.accounts, L.transfers, now)
  /\ \A i \in 1..Len(L.transfers) : Opposite(L.accounts, L.transfers[i])

LEMMA FirstSource == IsSource(EmptyLedger, Epoch)
<1>1. IsList(<<>>) /\ Len(<<>>) = 0 /\ 1..0 = {}
  BY NoList
<1>2. IsHistory(<<>>) /\ InTime(<<>>)
  BY <1>1 DEF IsHistory, InTime
<1>3. /\ EmptyLedger = [accounts |-> EmptyLedger.accounts, transfers |-> <<>>]
      /\ EmptyLedger.transfers = <<>> /\ DOMAIN EmptyLedger.accounts = {}
      /\ EmptyLedger.accounts = [id \in DOMAIN EmptyLedger.accounts |-> EmptyLedger.accounts[id]]
  BY DEF EmptyLedger
<1> QED
  BY <1>1, <1>2, <1>3, ClockAssumption DEF IsSource, Tallied, Solvent, Timely

\* An account that no transfer has touched has no balances.
LEMMA NeverTouched ==
  ASSUME NEW s, IsHistory(s), NEW side \in {"debit", "credit"}, NEW id,
         \A i \in 1..Len(s) : s[i].debit # id /\ s[i].credit # id
  PROVE  Held(s, side, id) = 0 /\ \A k \in 0..Len(s) : Posted(s, side, id, k) = 0
<1>1. PICK n \in Nat : n = Len(s)
  BY ListParts DEF IsHistory
<1>2. PICK f, g : f = Postings(s, side, id) /\ g = Reservations(s, side, id)
  OBVIOUS
<1>3. \A i \in 1..n : ~OnSide(s[i], side, id)
  BY <1>1 DEF OnSide
<1>4. \A i \in 1..n : f[i] = 0
  BY <1>1, <1>2, <1>3 DEF Postings
<1>5. \A i \in 1..n : g[i] = 0
  BY <1>1, <1>2, <1>3 DEF Reservations
<1>6. (\A k \in 0..n : SumTo(f, k) = 0) /\ \A k \in 0..n : SumTo(g, k) = 0
  BY <1>4, <1>5, SumNothing
<1>7. n \in 0..n
  OBVIOUS
<1> QED
  BY <1>1, <1>2, <1>6, <1>7 DEF Posted, Held

LEMMA SourceOpens ==
  ASSUME NEW L, NEW now, IsSource(L, now), NEW later, later \in Nat, now < later,
         NEW id \in AccountIds, id \notin DOMAIN L.accounts,
         NEW M, M = WithAccount(L, [id |-> id, ledger |-> LedgerOf[id], limit |-> LimitOf[id], ts |-> later])
  PROVE  IsSource(M, later)
<1>1. PICK A, s : A = L.accounts /\ s = L.transfers
  OBVIOUS
<1>2. /\ L = [accounts |-> A, transfers |-> s] /\ DOMAIN A \subseteq AccountIds
      /\ A = [x \in DOMAIN A |-> A[x]] /\ now \in Nat /\ Epoch <= now /\ Epoch \in Nat
      /\ IsHistory(s) /\ Tallied(A, s) /\ Solvent(A, s) /\ Timely(A, s, now)
      /\ \A i \in 1..Len(s) : Opposite(A, s[i])
  BY <1>1, ClockAssumption DEF IsSource
<1>3. PICK new : new = Account(id, LedgerOf[id], LimitOf[id], later, 0, 0, 0, 0)
  OBVIOUS
<1>4. PICK B : B = [x \in DOMAIN A \cup {id} |-> IF x = id THEN new ELSE A[x]]
  OBVIOUS
<1>5. M = [accounts |-> B, transfers |-> s]
  <2>1. Opened([id |-> id, ledger |-> LedgerOf[id], limit |-> LimitOf[id], ts |-> later]) = new
    BY <1>3 DEF Opened, Account
  <2>2. M = [L EXCEPT !.accounts = B]
    BY <1>1, <1>4, <2>1 DEF WithAccount
  <2> QED
    BY <1>2, <2>2
<1>6. /\ DOMAIN B = DOMAIN A \cup {id} /\ B = [x \in DOMAIN B |-> B[x]]
      /\ B[id] = new /\ \A x \in DOMAIN A : B[x] = A[x]
  BY <1>1, <1>4
<1>7. M.accounts = B /\ M.transfers = s
  BY <1>5
<1>8. \A i \in 1..Len(s) : s[i].debit # id /\ s[i].credit # id
  BY <1>1, <1>2 DEF Opposite
<1>9. /\ \A k \in 0..Len(s) : Posted(s, "debit", id, k) = 0
      /\ \A k \in 0..Len(s) : Posted(s, "credit", id, k) = 0
      /\ Held(s, "debit", id) = 0 /\ Held(s, "credit", id) = 0
  BY <1>2, <1>8, NeverTouched
<1>10. Len(s) \in 0..Len(s)
  BY <1>2, ListParts DEF IsHistory
<1>11. new.ts = later
  BY <1>3, AccountHas
<1>12. Tallied(B, s)
  BY <1>2, <1>3, <1>6, <1>9, <1>10, <1>11 DEF Tallied
<1>13. Solvent(B, s)
  BY <1>2, <1>6, <1>9, <1>10 DEF Solvent
<1>14. Timely(B, s, later)
  <2>1. ASSUME NEW x \in DOMAIN B
        PROVE  B[x].ts \in Nat /\ Epoch < B[x].ts /\ B[x].ts <= later /\ (x # id => B[x].ts <= now)
    BY <1>2, <1>6, <1>11 DEF Timely
  <2>2. ASSUME NEW x \in DOMAIN B, NEW y \in DOMAIN B, B[x].ts = B[y].ts PROVE x = y
    <3>1. CASE x # id /\ y # id
      BY <1>2, <1>6, <2>2, <3>1 DEF Timely
    <3>2. CASE x = id /\ y # id
      BY <1>2, <1>6, <1>11, <2>1, <2>2, <3>2
    <3>3. CASE x # id /\ y = id
      BY <1>2, <1>6, <1>11, <2>1, <2>2, <3>3
    <3> QED
      BY <3>1, <3>2, <3>3
  <2>3. \A i \in 1..Len(s) : s[i].ts <= later
    BY <1>2 DEF Timely, InTime
  <2> QED
    BY <1>2, <2>1, <2>2, <2>3 DEF Timely
<1>15. \A i \in 1..Len(s) : Opposite(B, s[i])
  BY <1>2, <1>6 DEF Opposite
<1> QED
  BY <1>2, <1>5, <1>6, <1>7, <1>12, <1>13, <1>14, <1>15 DEF IsSource

\* What the limit of an account leaves.
Leaves(A, s, t, y) ==
  LimitOf[t.debit] = "debits" =>
     Posted(s, "debit", t.debit, Len(s)) + Held(s, "debit", t.debit) + (Posts(t) + y)
        <= Posted(s, "credit", t.debit, Len(s))

LEMMA SourceMoves ==
  ASSUME NEW L, NEW now, IsSource(L, now), NEW later, later \in Nat, now < later,
         NEW A, A = L.accounts, NEW s, s = L.transfers, NEW t, MayFollow(s, t), Opposite(A, t), t.ts = later,
         NEW y, y = Reserves(L, t), Leaves(A, s, t, y),
         NEW M, M = WithTransfer(L, t)
  PROVE  IsSource(M, later)
<1>1. /\ L = [accounts |-> A, transfers |-> s] /\ DOMAIN A \subseteq AccountIds
      /\ A = [x \in DOMAIN A |-> A[x]] /\ now \in Nat /\ Epoch <= now /\ Epoch \in Nat
      /\ IsHistory(s) /\ Tallied(A, s) /\ Solvent(A, s) /\ Timely(A, s, now)
      /\ \A i \in 1..Len(s) : Opposite(A, s[i])
  BY ClockAssumption DEF IsSource
<1>2. PICK x, n, u, B : x = Posts(t) /\ n = Len(s) /\ u = Append(s, t) /\ B = M.accounts
  OBVIOUS
<1>3. /\ IsHistory(u) /\ Len(u) = n + 1 /\ n \in Nat
      /\ \A i \in 1..n : u[i] = s[i]
      /\ u[n + 1] = t
  <2>1. Extends(u, s, t, n)
    BY <1>1, <1>2, HistoryGrows
  <2> QED
    BY <2>1 DEF Extends
<1>4. M = [accounts |-> B, transfers |-> u] /\ M.transfers = u /\ TwoSides(A, B, t, x, y)
  <2>1. t.debit # t.credit /\ t.debit \in DOMAIN A /\ t.credit \in DOMAIN A
    BY DEF Opposite
  <2>2. /\ M = [accounts |-> M.accounts, transfers |-> M.transfers]
        /\ M.transfers = Append(L.transfers, t)
        /\ TwoSides(A, M.accounts, t, x, y)
    BY <1>2, <2>1, TransferMoves
  <2> QED
    BY <1>2, <2>2
<1>5. /\ DOMAIN B = DOMAIN A /\ B = [id \in DOMAIN A |-> B[id]]
      /\ B[t.debit] = Debited(A[t.debit], x, y) /\ B[t.credit] = Credited(A[t.credit], x, y)
      /\ \A id \in DOMAIN A \ {t.debit, t.credit} : B[id] = A[id]
      /\ t.debit # t.credit /\ t.debit \in DOMAIN A /\ t.credit \in DOMAIN A
  BY <1>4 DEF TwoSides, Opposite
<1>6. \A id : OnSide(t, "debit", id) <=> t.debit = id
  BY DEF OnSide
<1>7. \A id : OnSide(t, "credit", id) <=> t.credit = id
  BY DEF OnSide
<1>8. x \in Nat
  BY <1>2 DEF Posts, MayFollow
<1>9. ASSUME NEW id
      PROVE  /\ \A k \in 0..n : Posted(u, "debit", id, k) = Posted(s, "debit", id, k)
             /\ \A k \in 0..n : Posted(u, "credit", id, k) = Posted(s, "credit", id, k)
             /\ Posted(u, "debit", id, n + 1) = Posted(s, "debit", id, n) + (IF t.debit = id THEN x ELSE 0)
             /\ Posted(u, "credit", id, n + 1) = Posted(s, "credit", id, n) + (IF t.credit = id THEN x ELSE 0)
             /\ y \in Int
             /\ Held(u, "debit", id) = Held(s, "debit", id) + (IF t.debit = id THEN y ELSE 0)
             /\ Held(u, "credit", id) = Held(s, "credit", id) + (IF t.credit = id THEN y ELSE 0)
             /\ Posted(s, "debit", id, n) \in Nat /\ Posted(s, "credit", id, n) \in Nat
             /\ Held(s, "debit", id) \in Nat /\ Held(s, "credit", id) \in Nat
             /\ Held(u, "debit", id) \in Nat
  <2>1. PostsMore(u, s, t, "debit", id, n)
    BY <1>1, <1>2, PostedMore
  <2>2. PostsMore(u, s, t, "credit", id, n)
    BY <1>1, <1>2, PostedMore
  <2>3. HoldsMore(u, s, t, "debit", id, y)
    BY <1>1, <1>2, HeldMore
  <2>4. HoldsMore(u, s, t, "credit", id, y)
    BY <1>1, <1>2, HeldMore
  <2>5. n \in 0..n
    BY <1>3
  <2>6. Posted(s, "debit", id, n) \in Nat /\ Posted(s, "credit", id, n) \in Nat
    BY <1>1, <1>2, <2>5, PostedNumbers
  <2>7. Held(s, "debit", id) \in Nat /\ Held(s, "credit", id) \in Nat /\ Held(u, "debit", id) \in Nat
    BY <1>1, <1>3, HeldNumbers
  <2> QED
    BY <1>2, <1>6, <1>7, <2>1, <2>2, <2>3, <2>4, <2>6, <2>7 DEF PostsMore, HoldsMore
<1>10. ASSUME NEW id \in DOMAIN A
       PROVE  /\ B[id] = Account(id, LedgerOf[id], LimitOf[id], A[id].ts,
                          Posted(u, "debit", id, n + 1), Posted(u, "credit", id, n + 1),
                          Held(u, "debit", id), Held(u, "credit", id))
              /\ B[id].ts = A[id].ts
  <2>1. PICK l, m, ts, d, c, h, j, a :
           /\ l = LedgerOf[id] /\ m = LimitOf[id] /\ ts = A[id].ts /\ d = Posted(s, "debit", id, n)
           /\ c = Posted(s, "credit", id, n) /\ h = Held(s, "debit", id) /\ j = Held(s, "credit", id)
           /\ a = A[id] /\ a = Account(id, l, m, ts, d, c, h, j)
    BY <1>1, <1>2 DEF Tallied
  <2>2. d \in Nat /\ c \in Nat /\ h \in Nat /\ j \in Nat
    BY <1>9, <2>1
  <2>3. d + 0 = d /\ c + 0 = c /\ h + 0 = h /\ j + 0 = j
    BY <2>2
  <2>4. CASE id = t.debit
    <3>1. B[id] = Debited(a, x, y) /\ t.credit # id
      BY <1>5, <2>1, <2>4
    <3>2. B[id] = Account(id, l, m, ts, d + x, c, h + y, j)
      BY <2>1, <3>1, AccountWith
    <3>3. /\ Posted(u, "debit", id, n + 1) = d + x /\ Posted(u, "credit", id, n + 1) = c
          /\ Held(u, "debit", id) = h + y /\ Held(u, "credit", id) = j
      BY <1>9, <2>1, <2>3, <2>4, <3>1
    <3>4. B[id].ts = ts
      BY <3>2, AccountHas
    <3> QED
      BY <2>1, <3>2, <3>3, <3>4
  <2>5. CASE id = t.credit
    <3>1. B[id] = Credited(a, x, y) /\ t.debit # id
      BY <1>5, <2>1, <2>5
    <3>2. B[id] = Account(id, l, m, ts, d, c + x, h, j + y)
      BY <2>1, <3>1, AccountWith
    <3>3. /\ Posted(u, "debit", id, n + 1) = d /\ Posted(u, "credit", id, n + 1) = c + x
          /\ Held(u, "debit", id) = h /\ Held(u, "credit", id) = j + y
      BY <1>9, <2>1, <2>3, <2>5, <3>1
    <3>4. B[id].ts = ts
      BY <3>2, AccountHas
    <3> QED
      BY <2>1, <3>2, <3>3, <3>4
  <2>6. CASE id # t.debit /\ id # t.credit
    <3>1. B[id] = a
      BY <1>5, <2>1, <2>6
    <3>2. /\ Posted(u, "debit", id, n + 1) = d /\ Posted(u, "credit", id, n + 1) = c
          /\ Held(u, "debit", id) = h /\ Held(u, "credit", id) = j
      BY <1>9, <2>1, <2>3, <2>6
    <3> QED
      BY <2>1, <3>1, <3>2
  <2> QED
    BY <2>4, <2>5, <2>6
<1>16. DOMAIN B = DOMAIN A /\ \A id \in DOMAIN A : B[id].ts = A[id].ts
  BY <1>5, <1>10
<1>11. Tallied(B, u)
  BY <1>3, <1>5, <1>10 DEF Tallied
<1>12. Solvent(B, u)
  <2>1. ASSUME NEW id \in DOMAIN A, LimitOf[id] = "debits"
        PROVE  /\ \A k \in 0..(n + 1) : Posted(u, "debit", id, k) <= Posted(u, "credit", id, k)
               /\ Posted(u, "debit", id, n + 1) + Held(u, "debit", id) <= Posted(u, "credit", id, n + 1)
    <3>1. /\ \A k \in 0..n : Posted(s, "debit", id, k) <= Posted(s, "credit", id, k)
          /\ Posted(s, "debit", id, n) + Held(s, "debit", id) <= Posted(s, "credit", id, n)
      BY <1>1, <1>2, <2>1 DEF Solvent
    <3>2. PICK d, c, h, d2, c2, h2 :
             /\ d = Posted(s, "debit", id, n) /\ c = Posted(s, "credit", id, n) /\ h = Held(s, "debit", id)
             /\ d2 = Posted(u, "debit", id, n + 1) /\ c2 = Posted(u, "credit", id, n + 1)
             /\ h2 = Held(u, "debit", id)
      OBVIOUS
    <3>3. /\ d \in Nat /\ c \in Nat /\ h \in Nat /\ h2 \in Nat /\ y \in Int
          /\ d2 = d + (IF t.debit = id THEN x ELSE 0) /\ c2 = c + (IF t.credit = id THEN x ELSE 0)
          /\ h2 = h + (IF t.debit = id THEN y ELSE 0) /\ d + h <= c
      BY <1>9, <3>1, <3>2
    <3>4. t.debit = id => d + h + (x + y) <= c
      BY <1>2, <2>1, <3>2 DEF Leaves
    <3>5. d2 + h2 <= c2 /\ d2 \in Nat /\ c2 \in Nat
      <4>1. CASE t.debit = id
        <5>1. d2 = d + x /\ h2 = h + y /\ c2 = c + 0
          BY <1>5, <3>3, <4>1
        <5> QED
          BY <1>8, <3>3, <3>4, <4>1, <5>1
      <4>2. CASE t.debit # id
        <5>1. d2 = d + 0 /\ h2 = h + 0 /\ (c2 = c + x \/ c2 = c + 0)
          BY <3>3, <4>2
        <5> QED
          BY <1>8, <3>3, <5>1
      <4> QED
        BY <4>1, <4>2
    <3>6. d2 <= c2
      BY <3>3, <3>5
    <3>7. ASSUME NEW k \in 0..(n + 1) PROVE Posted(u, "debit", id, k) <= Posted(u, "credit", id, k)
      <4>1. CASE k = n + 1
        BY <3>2, <3>6, <4>1
      <4>2. CASE k \in 0..n
        BY <1>9, <3>1, <4>2
      <4> QED
        BY <1>3, <4>1, <4>2
    <3> QED
      BY <3>2, <3>5, <3>7
  <2> QED
    BY <1>3, <1>5, <2>1 DEF Solvent
<1>13. \A i : i \in 1..(n + 1) <=> i \in 1..n \/ i = n + 1
  BY <1>3
<1>14. Timely(B, u, later)
  <2>1. \A id \in DOMAIN B : B[id].ts \in Nat /\ Epoch < B[id].ts /\ B[id].ts <= later
    BY <1>1, <1>16 DEF Timely
  <2>2. \A a \in DOMAIN B : \A b \in DOMAIN B : B[a].ts = B[b].ts => a = b
    BY <1>1, <1>16 DEF Timely
  <2>3. \A i \in 1..n : u[i].ts \in Nat /\ u[i].ts <= now /\ u[i].ts < later
    BY <1>1, <1>2, <1>3 DEF Timely, InTime
  <2>4. u[n + 1].ts = later
    BY <1>3
  <2>5. \A i \in 1..(n + 1) : u[i].ts \in Nat /\ u[i].ts <= later
    BY <1>13, <2>3, <2>4
  <2>6. ASSUME NEW i \in 1..(n + 1), NEW j \in 1..(n + 1), i < j PROVE u[i].ts < u[j].ts
    <3>1. i \in 1..n
      BY <1>3, <2>6
    <3>2. CASE j = n + 1
      BY <2>3, <2>4, <3>1, <3>2
    <3>3. CASE j \in 1..n
      BY <1>1, <1>2, <1>3, <2>6, <3>1, <3>3 DEF Timely, InTime
    <3> QED
      BY <1>13, <3>2, <3>3
  <2> QED
    BY <1>3, <2>1, <2>2, <2>5, <2>6 DEF Timely, InTime
<1>15. \A i \in 1..(n + 1) : Opposite(B, u[i])
  <2>1. \A i \in 1..n : Opposite(B, u[i])
    <3> TAKE i \in 1..n
    <3>1. Opposite(A, s[i]) /\ u[i] = s[i]
      BY <1>1, <1>2, <1>3
    <3> QED
      BY <1>16, <3>1 DEF Opposite
  <2>2. Opposite(B, u[n + 1])
    BY <1>3, <1>16 DEF Opposite
  <2> QED
    BY <1>13, <2>1, <2>2
<1> QED
  <2>1. DOMAIN B \subseteq AccountIds /\ B = [id \in DOMAIN B |-> B[id]]
    BY <1>1, <1>5
  <2>2. later \in Nat /\ Epoch <= later
    BY <1>1
  <2> QED
    BY <1>2, <1>3, <1>4, <1>11, <1>12, <1>14, <1>15, <2>1, <2>2 DEF IsSource

\* What the source makes of the fields of a transfer.
IsNext(s, t, later) ==
  /\ t.id = FirstAppId + Len(s) /\ t.kind \in Kinds /\ t.amount \in Nat /\ t.ts = later
  /\ t.kind \in {"single", "pending"} => t.pending = NoPending
  /\ t.kind \in {"post", "void"} =>
        \E p \in Range(s) : /\ p.id = t.pending /\ p.kind = "pending"
                            /\ t.debit = p.debit /\ t.credit = p.credit

LEMMA SourceTakes ==
  ASSUME NEW L, NEW now, IsSource(L, now), NEW later, later \in Nat, now < later,
         NEW s, s = L.transfers, NEW t, IsNext(s, t, later), ~TransferRefused(L, t),
         NEW M, M = WithTransfer(L, t)
  PROVE  IsSource(M, later)
<1>1. PICK A, y : A = L.accounts /\ y = Reserves(L, t)
  OBVIOUS
<1>2. /\ IsHistory(s) /\ Tallied(A, s) /\ IsList(s)
  BY <1>1 DEF IsSource, IsHistory
<1>3. SidesFit(L, t)
  BY DEF TransferRefused
<1>4. ASSUME NEW id \in DOMAIN A
      PROVE  /\ A[id].ledger = LedgerOf[id] /\ A[id].limit = LimitOf[id] /\ A[id].id = id
             /\ A[id].dr = Posted(s, "debit", id, Len(s)) /\ A[id].drp = Held(s, "debit", id)
             /\ A[id].cr = Posted(s, "credit", id, Len(s))
  <2>1. PICK l, m, ts, d, c, h, j, a :
           /\ l = LedgerOf[id] /\ m = LimitOf[id] /\ ts = A[id].ts /\ d = Posted(s, "debit", id, Len(s))
           /\ c = Posted(s, "credit", id, Len(s)) /\ h = Held(s, "debit", id) /\ j = Held(s, "credit", id)
           /\ a = A[id] /\ a = Account(id, l, m, ts, d, c, h, j)
    BY <1>2 DEF Tallied
  <2>2. a.ledger = l /\ a.limit = m /\ a.id = id /\ a.dr = d /\ a.drp = h /\ a.cr = c
    BY <2>1, AccountHas
  <2> QED
    BY <2>1, <2>2
<1>5. Opposite(A, t)
  BY <1>1, <1>3, <1>4 DEF SidesFit, Opposite
<1>6. t.debit \in DOMAIN A
  BY <1>5 DEF Opposite
<1>7. /\ Posted(s, "debit", t.debit, Len(s)) \in Nat /\ Posted(s, "credit", t.debit, Len(s)) \in Nat
      /\ Held(s, "debit", t.debit) \in Nat
  <2>1. Len(s) \in 0..Len(s)
    BY <1>2, ListParts
  <2> QED
    BY <1>2, <2>1, PostedNumbers, HeldNumbers
<1>8. CASE t.kind \in {"single", "pending"}
  <2>1. MayFollow(s, t)
    BY <1>8 DEF MayFollow, IsNext
  <2>2. Posts(t) + y = t.amount /\ t.amount \in Nat
    BY <1>1, <1>8 DEF Posts, Reserves, IsNext
  <2>3. ~LimitExceeded(A[t.debit], t)
    BY <1>1, <1>8 DEF TransferRefused, WithinLimits
  <2>4. Leaves(A, s, t, y)
    <3>1. PICK d, c, h, a : /\ d = Posted(s, "debit", t.debit, Len(s)) /\ h = Held(s, "debit", t.debit)
                            /\ c = Posted(s, "credit", t.debit, Len(s)) /\ a = A[t.debit]
      OBVIOUS
    <3>2. a.dr = d /\ a.drp = h /\ a.cr = c /\ a.limit = LimitOf[t.debit] /\ a.id = t.debit
      BY <1>4, <1>6, <3>1
    <3>3. a.limit = "debits" => ~(d + h + t.amount > c)
      BY <2>3, <3>1, <3>2 DEF LimitExceeded
    <3>4. LimitOf[t.debit] = "debits" => d + h + t.amount <= c
      BY <1>7, <2>2, <3>1, <3>2, <3>3
    <3> QED
      BY <2>2, <3>1, <3>4 DEF Leaves
  <2> QED
    BY <1>1, <1>5, <2>1, <2>4, SourceMoves DEF IsNext
<1>9. CASE t.kind \in {"post", "void"}
  <2>1. PICK p \in Range(s) : /\ p.id = t.pending /\ p.kind = "pending"
                              /\ t.debit = p.debit /\ t.credit = p.credit
    BY <1>9 DEF IsNext
  <2>2. PICK i \in 1..Len(s) : p = s[i]
    BY <1>2, ListParts
  <2>3. PICK q \in PendingOf(L, t) : t.amount <= q.amount /\ ~Resolved(L, q.id)
    BY <1>9 DEF TransferRefused, Resolves
  <2>4. q \in Range(s) /\ q.id = p.id
    BY <2>1, <2>3 DEF PendingOf
  <2>5. q = p
    <3>1. PICK j \in 1..Len(s) : q = s[j]
      BY <1>2, <2>4, ListParts
    <3>2. s[i].id = FirstAppId + i - 1 /\ s[j].id = FirstAppId + j - 1
      BY <1>2 DEF IsHistory
    <3>3. i = j
      BY <2>2, <2>4, <3>1, <3>2, IdAssumption
    <3> QED
      BY <2>2, <3>1, <3>3
  <2>6. IsOpen(s, i)
    <3>1. \A j \in 1..Len(s) : s[j] \in Range(s)
      BY <1>2, ListParts
    <3> QED
      BY <2>1, <2>2, <2>3, <2>5, <3>1 DEF IsOpen, Resolved
  <2>7. MayFollow(s, t)
    BY <1>9, <2>1, <2>2, <2>3, <2>5, <2>6 DEF MayFollow, IsNext
  <2>8. PendingOf(L, t) = {p}
    <3>1. ASSUME NEW x \in PendingOf(L, t) PROVE x = p
      <4>1. x \in Range(s) /\ x.id = p.id
        BY <2>1, <3>1 DEF PendingOf
      <4>2. PICK j \in 1..Len(s) : x = s[j]
        BY <1>2, <4>1, ListParts
      <4>3. s[i].id = FirstAppId + i - 1 /\ s[j].id = FirstAppId + j - 1
        BY <1>2 DEF IsHistory
      <4>4. i = j
        BY <2>2, <4>1, <4>2, <4>3, IdAssumption
      <4> QED
        BY <2>2, <4>2, <4>4
    <3> QED
      BY <2>3, <2>5, <3>1
  <2>9. y = -(p.amount) /\ p.amount \in Nat
    <3>1. (CHOOSE x \in {p} : TRUE) = p
      OBVIOUS
    <3>2. y = -((CHOOSE x \in PendingOf(L, t) : TRUE).amount)
      BY <1>1, <1>9 DEF Reserves
    <3>3. s[i].amount \in Nat
      BY <1>2 DEF IsHistory
    <3> QED
      BY <2>2, <2>8, <3>1, <3>2, <3>3
  <2>10. Posts(t) + y <= 0 /\ Posts(t) + y \in Int
    <3>1. Posts(t) \in {0, t.amount} /\ t.amount \in Nat /\ t.amount <= p.amount
      BY <2>3, <2>5 DEF Posts, IsNext
    <3> QED
      BY <2>9, <3>1
  <2>11. Leaves(A, s, t, y)
    <3>1. PICK d, c, h, z : /\ d = Posted(s, "debit", t.debit, Len(s)) /\ h = Held(s, "debit", t.debit)
                            /\ c = Posted(s, "credit", t.debit, Len(s)) /\ z = Posts(t) + y
      OBVIOUS
    <3>2. LimitOf[t.debit] = "debits" => d + h <= c
      BY <1>1, <1>6, <3>1 DEF IsSource, Solvent
    <3>3. LimitOf[t.debit] = "debits" => d + h + z <= c
      BY <1>7, <2>10, <3>1, <3>2
    <3> QED
      BY <3>1, <3>3 DEF Leaves
  <2> QED
    BY <1>1, <1>5, <2>7, <2>11, SourceMoves DEF IsNext
<1> QED
  BY <1>8, <1>9 DEF IsNext, Kinds

\* The source keeps to it, whatever it does.
THEOREM SourcesGrow == LedgerSpec => []IsSource(ledger, clock)
<1>1. LedgerInit => IsSource(ledger, clock)
  BY FirstSource DEF LedgerInit
<1>2. IsSource(ledger, clock) /\ [LedgerNext]_ledgerVars => IsSource(ledger, clock)'
  <2> SUFFICES ASSUME IsSource(ledger, clock), [LedgerNext]_ledgerVars
               PROVE  IsSource(ledger', clock')
    BY DEF IsSource, Tallied, Solvent, Timely, Opposite, IsHistory, Posted, Postings, Held, Reservations, IsOpen
  <2>1. PICK L, now, M, later, s : /\ L = ledger /\ now = clock /\ M = ledger' /\ later = clock'
                                   /\ s = L.transfers
    OBVIOUS
  <2>2. IsSource(L, now) /\ now \in Nat
    BY <2>1 DEF IsSource
  <2>3. CASE UNCHANGED ledgerVars
    BY <2>1, <2>3 DEF ledgerVars
  <2>4. Tick => later \in Nat /\ now < later
    BY <2>1, <2>2, ClockAssumption DEF Tick
  <2>5. ASSUME NEW id \in AccountIds, OpenAccount(id) PROVE IsSource(M, later)
    <3>1. /\ id \notin DOMAIN L.accounts /\ Tick
          /\ M = WithAccount(L, [id |-> id, ledger |-> LedgerOf[id], limit |-> LimitOf[id], ts |-> later])
      BY <2>1, <2>5 DEF OpenAccount
    <3> QED
      BY <2>2, <2>4, <3>1, SourceOpens
  <2>6. ASSUME NEW t, Tick, Create(t), IsNext(s, t, later) PROVE IsSource(M, later)
    <3>1. ~TransferRefused(L, t) /\ M = WithTransfer(L, t)
      BY <2>1, <2>6 DEF Create
    <3> QED
      BY <2>1, <2>2, <2>4, <2>6, <3>1, SourceTakes
  <2>7. ASSUME NEW debit, NEW credit, NEW amount \in Amounts,
               Transfer(debit, credit, amount) \/ Reserve(debit, credit, amount)
        PROVE  IsSource(M, later)
    <3>1. PICK kind, t : /\ kind \in {"single", "pending"} /\ Tick /\ Create(t)
                         /\ t = Fields(kind, debit, credit, amount, NoPending)
      BY <2>7 DEF Transfer, Reserve
    <3>2. IsNext(s, t, later)
      BY <2>1, <3>1, BoundAssumption DEF IsNext, Fields, Kinds
    <3> QED
      BY <2>6, <3>1, <3>2
  <2>8. ASSUME NEW p \in Range(s), p.kind = "pending", NEW kind, NEW amount, amount \in Nat, NEW t,
               kind \in {"post", "void"}, Tick, Create(t),
               t = Fields(kind, p.debit, p.credit, amount, p.id)
        PROVE  IsSource(M, later)
    <3>1. /\ t.id = FirstAppId + Len(s) /\ t.kind = kind /\ t.amount = amount /\ t.ts = later
          /\ t.pending = p.id /\ t.debit = p.debit /\ t.credit = p.credit
      BY <2>1, <2>8 DEF Fields
    <3>2. IsNext(s, t, later)
      BY <2>8, <3>1 DEF IsNext, Kinds
    <3> QED
      BY <2>6, <2>8, <3>2
  <2>9. ASSUME NEW p \in {t \in Range(ledger.transfers) : t.kind = "pending"},
               Void(p) \/ \E amount \in Amounts : Post(p, amount)
        PROVE  IsSource(M, later)
    <3>1. p \in Range(s) /\ p.kind = "pending"
      BY <2>1
    <3>2. p.amount \in Nat
      <4>1. IsHistory(s) /\ IsList(s)
        BY <2>1, <2>2 DEF IsSource, IsHistory
      <4>2. PICK i \in 1..Len(s) : p = s[i]
        BY <3>1, <4>1, ListParts
      <4> QED
        BY <4>1, <4>2 DEF IsHistory
    <3>3. CASE Void(p)
      <4>1. PICK t : Tick /\ Create(t) /\ t = Fields("void", p.debit, p.credit, p.amount, p.id)
        BY <3>3 DEF Void
      <4> QED
        BY <2>8, <3>1, <3>2, <4>1
    <3>4. CASE \E amount \in Amounts : Post(p, amount)
      <4>1. PICK amount \in Amounts : Post(p, amount)
        BY <3>4
      <4>2. PICK t : Tick /\ Create(t) /\ t = Fields("post", p.debit, p.credit, amount, p.id)
        BY <4>1 DEF Post
      <4>3. amount \in Nat
        BY BoundAssumption
      <4> QED
        BY <2>8, <3>1, <4>2, <4>3
    <3> QED
      BY <2>9, <3>3, <3>4
  <2> QED
    BY <2>1, <2>3, <2>5, <2>7, <2>9 DEF LedgerNext
<1> QED
  BY <1>1, <1>2, PTL DEF LedgerSpec

-----------------------------------------------------------------------------
(***************************************************************************)
(* Cutoffs: what the accounts of a plan had posted then.                   *)
(***************************************************************************)

MovedIn(w, side, id) == IF side = "debit" THEN DebitsIn(w, id) ELSE CreditsIn(w, id)

Splits(f, e, k, n) == \A j \in 0..(n - k) : SumTo(f, k + j) = SumTo(f, k) + SumTo(e, j)

LEMMA SumSplitAt ==
  ASSUME NEW n \in Nat, NEW f, Numbers(f, n), NEW k \in 0..n, NEW e,
         \A i \in 1..(n - k) : e[i] = f[k + i]
  PROVE  Splits(f, e, k, n)
<1>1. \A j \in 0..(n - k) : SumTo(f, k + j) = SumTo(f, k) + SumTo(e, j)
  BY SumSplit
<1> QED
  BY <1>1 DEF Splits

\* What the transfers after place k post is part of what they move.
LEMMA WindowSums ==
  ASSUME NEW s, IsHistory(s), NEW n \in Nat, n = Len(s), NEW k \in 0..n, NEW w, IsPiece(w, s, k, n),
         NEW side \in {"debit", "credit"}, NEW id, NEW x, x = MovedIn(w, side, id)
  PROVE  /\ x \in Nat /\ Posted(s, side, id, n) <= Posted(s, side, id, k) + x
         /\ SinglePhase(w) => Posted(s, side, id, n) = Posted(s, side, id, k) + x
<1>0. n - k \in Nat
  OBVIOUS
<1>1. PICK m \in Nat : m = n - k
  BY <1>0
<1>2. /\ IsList(w) /\ Len(w) = m /\ DOMAIN w = 1..m
      /\ \A i \in 1..m : w[i] = s[k + i] /\ k + i \in 1..n
  <2>1. \A i \in 1..m : k + i \in 1..n
    BY <1>1
  <2> QED
    BY <1>1, <2>1, ListParts DEF IsPiece
<1>3. PICK f, p, q : /\ f = Postings(s, side, id)
                     /\ p = [i \in 1..m |-> IF OnSide(w[i], side, id) THEN Posts(w[i]) ELSE 0]
                     /\ q = [i \in 1..m |-> IF OnSide(w[i], side, id) THEN w[i].amount ELSE 0]
  OBVIOUS
<1>4. Numbers(f, n) /\ Posted(s, side, id, n) = SumTo(f, n) /\ Posted(s, side, id, k) = SumTo(f, k)
  BY <1>3, PostedNumbers DEF Posted
<1>5. ASSUME NEW i \in 1..m PROVE p[i] = f[k + i] /\ p[i] <= q[i] /\ p[i] \in Nat /\ q[i] \in Nat
  <2>1. w[i].amount \in Nat /\ Posts(w[i]) \in Nat /\ Posts(w[i]) <= w[i].amount
    BY <1>2 DEF IsHistory, Posts
  <2>2. f[k + i] = IF OnSide(w[i], side, id) THEN Posts(w[i]) ELSE 0
    BY <1>2, <1>3 DEF Postings
  <2> QED
    BY <1>3, <2>1, <2>2
<1>6. Numbers(p, m) /\ Numbers(q, m) /\ Amounted(p, m) /\ Amounted(q, m)
  BY <1>5 DEF Numbers, Amounted
<1>7. SumTo(f, k + m) = SumTo(f, k) + SumTo(p, m) /\ k + m = n
  <2>1. \A i \in 1..(n - k) : p[i] = f[k + i]
    BY <1>1, <1>5
  <2>2. Splits(f, p, k, n)
    BY <1>4, <2>1, SumSplitAt
  <2>3. \A j \in 0..(n - k) : SumTo(f, k + j) = SumTo(f, k) + SumTo(p, j)
    BY <2>2 DEF Splits
  <2> QED
    BY <1>1, <2>3
<1>8. SumTo(p, m) <= SumTo(q, m) /\ SumTo(p, m) \in Nat /\ SumTo(q, m) \in Nat /\ SumTo(f, k) \in Nat
  <2>1. \A j \in 0..m : SumTo(p, j) <= SumTo(q, j)
    BY <1>5, <1>6, SumLesser
  <2>2. \A j \in 0..m : SumTo(p, j) \in Nat
    BY <1>6, SumGrows
  <2>3. \A j \in 0..m : SumTo(q, j) \in Nat
    BY <1>6, SumGrows
  <2>4. Posted(s, side, id, k) \in Nat
    BY PostedNumbers
  <2> QED
    BY <1>4, <2>1, <2>2, <2>3, <2>4
<1>9. x = SumTo(q, m)
  <2>1. q = [i \in 1..m |-> q[i]]
    BY <1>3
  <2>2. IsList(q) /\ Len(q) = m
    BY <2>1, ListOf
  <2>3. Total(q) = SumTo(q, m)
    BY <1>6, <2>2, TotalIsSum
  <2>4. CASE side = "debit"
    <3>1. q = [i \in DOMAIN w |-> IF w[i].debit = id THEN w[i].amount ELSE 0]
      BY <1>2, <1>3, <2>4 DEF OnSide
    <3> QED
      BY <2>3, <2>4, <3>1 DEF MovedIn, DebitsIn
  <2>5. CASE side = "credit"
    <3>1. q = [i \in DOMAIN w |-> IF w[i].credit = id THEN w[i].amount ELSE 0]
      BY <1>2, <1>3, <2>5 DEF OnSide
    <3> QED
      BY <2>3, <2>5, <3>1 DEF MovedIn, CreditsIn
  <2> QED
    BY <2>4, <2>5
<1>10. ASSUME SinglePhase(w) PROVE SumTo(p, m) = SumTo(q, m)
  <2>1. \A i \in 1..m : w[i].kind = "single"
    BY <1>2, <1>10, ListParts DEF SinglePhase
  <2>2. \A i \in 1..m : p[i] = q[i]
    BY <1>3, <2>1 DEF Posts
  <2>3. \A j \in 0..m : SumTo(p, j) = SumTo(q, j)
    BY <1>6, <2>2, SumSame
  <2> QED
    BY <2>3
<1> QED
  BY <1>4, <1>7, <1>8, <1>9, <1>10

\* Accounts S of a source L, with balances as of the first k transfers, or less.
Standing(L, S, k) ==
  /\ \A id \in DOMAIN L.accounts : \E a \in S : a.id = id
  /\ \A a \in S :
        /\ a.id \in DOMAIN L.accounts /\ a.dr \in Nat /\ a.cr \in Nat
        /\ a = Account(a.id, LedgerOf[a.id], LimitOf[a.id], L.accounts[a.id].ts, a.dr, a.cr, a.drp, a.crp)
        /\ a.dr <= Posted(L.transfers, "debit", a.id, k)
        /\ a.cr <= Posted(L.transfers, "credit", a.id, k)
  /\ \A a \in S : \A b \in S : a.id = b.id => a = b

\* Exactly as of then.
StandingAt(S, s, k) ==
  \A a \in S : a.dr = Posted(s, "debit", a.id, k) /\ a.cr = Posted(s, "credit", a.id, k)

LEMMA StandingPlannable ==
  ASSUME NEW L, NEW now, IsSource(L, now), NEW S, NEW k \in 0..Len(L.transfers), Standing(L, S, k)
  PROVE  /\ Plannable(S) /\ (StandingAt(S, L.transfers, k) => Covered(S))
         /\ \A a \in S : a.ledger = LedgerOf[a.id] /\ a.limit = LimitOf[a.id] /\ a.ts = L.accounts[a.id].ts
         /\ Cardinality(S) <= Cardinality(AccountIds)
<1>1. PICK A, s : A = L.accounts /\ s = L.transfers
  OBVIOUS
<1>2. DOMAIN A \subseteq AccountIds /\ Solvent(A, s) /\ Timely(A, s, now) /\ IsHistory(s)
  BY <1>1 DEF IsSource
<1>3. ASSUME NEW a \in S
      PROVE  /\ a.id \in DOMAIN A /\ a.dr \in Nat /\ a.cr \in Nat
             /\ a.ledger = LedgerOf[a.id] /\ a.limit = LimitOf[a.id] /\ a.ts = A[a.id].ts
             /\ a = Account(a.id, a.ledger, a.limit, a.ts, a.dr, a.cr, a.drp, a.crp)
  <2>1. /\ a.id \in DOMAIN A /\ a.dr \in Nat /\ a.cr \in Nat
        /\ a = Account(a.id, LedgerOf[a.id], LimitOf[a.id], A[a.id].ts, a.dr, a.cr, a.drp, a.crp)
    BY <1>1 DEF Standing
  <2>2. PICK i, l, m, ts, d, c, p, q : /\ i = a.id /\ l = LedgerOf[i] /\ m = LimitOf[i] /\ ts = A[i].ts
                                       /\ d = a.dr /\ c = a.cr /\ p = a.drp /\ q = a.crp
    OBVIOUS
  <2>3. a = Account(i, l, m, ts, d, c, p, q)
    BY <2>1, <2>2
  <2>4. a.ledger = l /\ a.limit = m /\ a.ts = ts
    BY <2>3, AccountHas
  <2> QED
    BY <2>1, <2>2, <2>3, <2>4
<1>4. IsFiniteSet(S) /\ Cardinality(S) <= Cardinality(AccountIds)
  <2>1. PICK f : f = [a \in S |-> a.id]
    OBVIOUS
  <2>2. f \in [S -> AccountIds]
    BY <1>2, <1>3, <2>1
  <2>3. \A a \in S : \A b \in S : f[a] = f[b] => a = b
    BY <2>1 DEF Standing
  <2>4. f \in Injection(S, AccountIds)
    BY <2>2, <2>3 DEF Injection, IsInjective
  <2> QED
    BY <2>4, AccountsAssumption, FS_Injection
<1>5. 2 * Cardinality(LedgersOf(S)) <= Epoch
  <2>1. LedgersOf(S) \subseteq Ledgers
    BY <1>2, <1>3 DEF LedgersOf, Ledgers
  <2>2. IsFiniteSet(Ledgers)
    <3>1. PICK f : f = [id \in AccountIds |-> LedgerOf[id]]
      OBVIOUS
    <3>2. f = [id \in AccountIds |-> f[id]] /\ Range(f) = Ledgers
      BY <3>1 DEF Range, Ledgers
    <3>3. IsFiniteSet(Range(f))
      BY <3>2, AccountsAssumption, FiniteImage
    <3> QED
      BY <3>2, <3>3
  <2>3. Cardinality(LedgersOf(S)) <= Cardinality(Ledgers) /\ IsFiniteSet(LedgersOf(S))
    BY <2>1, <2>2, FS_Subset
  <2>4. Cardinality(LedgersOf(S)) \in Nat /\ Cardinality(Ledgers) \in Nat
    BY <2>2, <2>3, FS_CardinalityType
  <2> QED
    BY <2>3, <2>4, ClockAssumption
<1>6. ASSUME NEW a \in S
      PROVE  /\ a.ledger \in Nat /\ a.ts \in Nat /\ a.limit # "credits" /\ 2 * Cardinality(LedgersOf(S)) < a.ts
             /\ \A l \in LedgersOf(S) : a.id # GenesisCredit(l) /\ a.id # GenesisDebit(l)
  <2>1. a.id \in AccountIds
    BY <1>2, <1>3
  <2>2. a.ledger \in Nat /\ a.limit # "credits"
    BY <1>3, <2>1, AccountsAssumption
  <2>3. a.ts \in Nat /\ Epoch < a.ts
    BY <1>2, <1>3 DEF Timely
  <2>4. \A l \in LedgersOf(S) : l \in Ledgers
    BY <1>2, <1>3 DEF LedgersOf, Ledgers
  <2>5. \A l \in LedgersOf(S) : a.id # GenesisCredit(l) /\ a.id # GenesisDebit(l)
    BY <2>1, <2>4, IdAssumption
  <2>6. IsFiniteSet(LedgersOf(S)) /\ Cardinality(LedgersOf(S)) \in Nat
    <3>1. \A b \in S : b.ledger \in Nat
      BY <1>2, <1>3, AccountsAssumption
    <3>2. IsFiniteSet(LedgersOf(S))
      BY <1>4, <3>1, GenesisParts
    <3> QED
      BY <3>2, FS_CardinalityType
  <2>7. 2 * Cardinality(LedgersOf(S)) < a.ts
    BY <1>5, <2>3, <2>6, ClockAssumption
  <2> QED
    BY <2>2, <2>3, <2>5, <2>7
<1>7. ASSUME NEW a \in S, NEW b \in S, a.ts = b.ts \/ a.id = b.id PROVE a = b
  <2>1. a.ts = b.ts => a.id = b.id
    BY <1>2, <1>3 DEF Timely
  <2> QED
    BY <1>7, <2>1 DEF Standing
<1>8. Plannable(S)
  BY <1>3, <1>4, <1>6, <1>7 DEF Plannable
<1>9. ASSUME StandingAt(S, s, k) PROVE Covered(S)
  <2>1. ASSUME NEW a \in S, a.limit = "debits" PROVE a.dr <= a.cr
    <3>1. LimitOf[a.id] = "debits" /\ a.id \in DOMAIN A
      BY <1>3, <2>1
    <3>2. Posted(s, "debit", a.id, k) <= Posted(s, "credit", a.id, k)
      BY <1>1, <1>2, <3>1 DEF Solvent
    <3> QED
      BY <1>9, <3>2 DEF StandingAt
  <2> QED
    BY <2>1 DEF Covered
<1> QED
  BY <1>1, <1>3, <1>4, <1>8, <1>9

\* What a plan of L with a cutoff is made of: the window W comes after place k,
\* and the accounts are S.
Divides(L, c, k, W) ==
  /\ k \in 0..Len(L.transfers)
  /\ c > 0 => \A i \in 1..Len(L.transfers) : L.transfers[i].ts < c <=> i <= k
  /\ IsPiece(IF c > 0 THEN Until(L.transfers, c) ELSE L.transfers, L.transfers, 0, k)
  /\ IsPiece(W, L.transfers, k, Len(L.transfers))
PlannedOf(L, c, W) ==
  IF c > 0 THEN {AtCutoff(a, W, c) : a \in AccountsOf(L)} ELSE AccountsOf(L)

LEMMA CutoffDivides ==
  ASSUME NEW L, NEW now, IsSource(L, now), NEW c \in Nat, NEW W, W = WindowOf(L, c)
  PROVE  \E k : Divides(L, c, k, W)
<1>1. PICK s, n : s = L.transfers /\ n = Len(s)
  OBVIOUS
<1>2. IsList(s) /\ InTime(s) /\ n \in Nat
  BY <1>1, ListParts DEF IsSource, IsHistory, Timely
<1>3. CASE c > 0
  <2>1. PICK k \in 0..n :
            /\ \A i \in 1..n : s[i].ts < c <=> i <= k
            /\ IsPiece(Until(s, c), s, 0, k) /\ IsPiece(Since(s, c), s, k, n)
    BY <1>1, <1>2, Cut
  <2>2. W = Since(s, c)
    BY <1>1, <1>3 DEF WindowOf
  <2> QED
    BY <1>1, <1>3, <2>1, <2>2 DEF Divides
<1>4. CASE ~(c > 0)
  <2>1. W = <<>>
    BY <1>4 DEF WindowOf
  <2>2. IsPiece(W, s, n, n)
    BY <1>2, <2>1, NoList DEF IsPiece
  <2>3. IsPiece(s, s, 0, n)
    BY <1>1, <1>2 DEF IsPiece
  <2> QED
    BY <1>1, <1>2, <1>4, <2>2, <2>3 DEF Divides
<1> QED
  BY <1>3, <1>4

\* An account that is not older than the cutoff had posted nothing then.
LEMMA NothingPostedYet ==
  ASSUME NEW L, NEW now, IsSource(L, now), NEW c \in Nat, c > 0, NEW k, NEW W, Divides(L, c, k, W),
         NEW id \in DOMAIN L.accounts, L.accounts[id].ts >= c, NEW side \in {"debit", "credit"}
  PROVE  Posted(L.transfers, side, id, k) = 0
<1>1. PICK s, n, f, A : s = L.transfers /\ n = Len(s) /\ f = Postings(s, side, id) /\ A = L.accounts
  OBVIOUS
<1>2. /\ IsHistory(s) /\ InTime(s) /\ n \in Nat /\ k \in 0..n /\ \A i \in 1..n : Opposite(A, s[i])
      /\ \A i \in 1..n : s[i].ts < c <=> i <= k
      /\ A[id].ts \in Nat
  BY <1>1, PostedNumbers DEF IsSource, Timely, Divides
<1>3. ASSUME NEW i \in 1..k PROVE f[i] = 0
  <2>1. i \in 1..n /\ s[i].ts < c /\ s[i].ts \in Nat /\ A[id].ts \in Nat
    BY <1>1, <1>2 DEF InTime
  <2>2. ~(A[id].ts < s[i].ts)
    BY <1>1, <2>1
  <2>3. s[i].debit # id /\ s[i].credit # id
    BY <1>2, <2>1, <2>2 DEF Opposite
  <2> QED
    BY <1>1, <2>1, <2>3 DEF Postings, OnSide
<1>4. k \in Nat
  BY <1>2
<1>5. \A j \in 0..k : SumTo(f, j) = 0
  BY <1>3, <1>4, SumNothing
<1> QED
  BY <1>1, <1>4, <1>5 DEF Posted

LEMMA CutoffAccounts ==
  ASSUME NEW L, NEW now, IsSource(L, now), NEW c \in Nat, NEW k, NEW W, Divides(L, c, k, W),
         NEW S, S = PlannedOf(L, c, W)
  PROVE  Standing(L, S, k) /\ (SinglePhase(W) => StandingAt(S, L.transfers, k))
<1>1. PICK s, n, A : s = L.transfers /\ n = Len(s) /\ A = L.accounts
  OBVIOUS
<1>2. /\ IsHistory(s) /\ n \in Nat /\ k \in 0..n /\ Tallied(A, s) /\ A = [id \in DOMAIN A |-> A[id]]
      /\ AccountsOf(L) = {A[id] : id \in DOMAIN A} /\ IsPiece(W, s, k, n)
      /\ \A id \in DOMAIN A : A[id].ts \in Nat
  BY <1>1, ListParts DEF IsSource, IsHistory, Divides, AccountsOf, Range, Timely
<1>3. ASSUME NEW id \in DOMAIN A
      PROVE  /\ A[id] = Account(id, LedgerOf[id], LimitOf[id], A[id].ts,
                                A[id].dr, A[id].cr, A[id].drp, A[id].crp)
             /\ A[id].id = id
             /\ A[id].dr = Posted(s, "debit", id, n) /\ A[id].cr = Posted(s, "credit", id, n)
  <2>1. PICK l, m, ts, d, e, p, q :
            /\ l = LedgerOf[id] /\ m = LimitOf[id] /\ ts = A[id].ts /\ d = Posted(s, "debit", id, Len(s))
            /\ e = Posted(s, "credit", id, Len(s)) /\ p = Held(s, "debit", id) /\ q = Held(s, "credit", id)
    OBVIOUS
  <2>2. A[id] = Account(id, l, m, ts, d, e, p, q)
    BY <1>2, <2>1 DEF Tallied
  <2>3. /\ A[id].id = id /\ A[id].dr = d /\ A[id].cr = e /\ A[id].drp = p /\ A[id].crp = q
    BY <2>2, AccountHas
  <2> QED
    BY <1>1, <2>1, <2>2, <2>3
<1>4. ASSUME NEW id \in DOMAIN A, NEW a, a = IF c > 0 THEN AtCutoff(A[id], W, c) ELSE A[id]
      PROVE  /\ a.id = id /\ a.dr \in Nat /\ a.cr \in Nat
             /\ a = Account(id, LedgerOf[id], LimitOf[id], A[id].ts, a.dr, a.cr, a.drp, a.crp)
             /\ a.dr <= Posted(s, "debit", id, k) /\ a.cr <= Posted(s, "credit", id, k)
             /\ SinglePhase(W) => a.dr = Posted(s, "debit", id, k) /\ a.cr = Posted(s, "credit", id, k)
  <2>0. PICK x, y, ts : x = DebitsIn(W, id) /\ y = CreditsIn(W, id) /\ ts = A[id].ts
    OBVIOUS
  <2>1. PICK d, e, p, q : d = Posted(s, "debit", id, k) /\ e = Posted(s, "credit", id, k)
                          /\ p = Posted(s, "debit", id, n) /\ q = Posted(s, "credit", id, n)
    OBVIOUS
  <2>2. /\ x \in Nat /\ p <= d + x /\ (SinglePhase(W) => p = d + x)
    <3>1. x = MovedIn(W, "debit", id)
      BY <2>0 DEF MovedIn
    <3> QED
      BY <1>1, <1>2, <2>1, <3>1, WindowSums
  <2>3. /\ y \in Nat /\ q <= e + y /\ (SinglePhase(W) => q = e + y)
    <3>1. y = MovedIn(W, "credit", id)
      BY <2>0 DEF MovedIn
    <3> QED
      BY <1>1, <1>2, <2>1, <3>1, WindowSums
  <2>4. d \in Nat /\ e \in Nat /\ p \in Nat /\ q \in Nat
    <3>1. k \in 0..Len(s) /\ n \in 0..Len(s)
      BY <1>1, <1>2
    <3>2. \A j \in 0..Len(s) : Posted(s, "debit", id, j) \in Nat
      BY <1>2, PostedNumbers
    <3>3. \A j \in 0..Len(s) : Posted(s, "credit", id, j) \in Nat
      BY <1>2, PostedNumbers
    <3> QED
      BY <2>1, <3>1, <3>2, <3>3
  <2>5. ASSUME NEW X, NEW Y, a = Holding(A[id], X, Y)
        PROVE  /\ a = Account(id, LedgerOf[id], LimitOf[id], ts, X, Y, a.drp, a.crp)
               /\ a.id = id /\ a.dr = X /\ a.cr = Y
    <3>1. PICK l, m, d1, e1, p1, q1 :
            /\ l = LedgerOf[id] /\ m = LimitOf[id] /\ d1 = A[id].dr
            /\ e1 = A[id].cr /\ p1 = A[id].drp /\ q1 = A[id].crp
      OBVIOUS
    <3>2. A[id] = Account(id, l, m, ts, d1, e1, p1, q1)
      BY <1>3, <2>0, <3>1
    <3>3. Holding(A[id], X, Y) = Account(id, l, m, ts, X, Y, p1, q1)
      BY <3>2, AccountWith
    <3>4. a = Account(id, l, m, ts, X, Y, p1, q1)
      BY <2>5, <3>3
    <3>5. a.drp = p1 /\ a.crp = q1 /\ a.id = id /\ a.dr = X /\ a.cr = Y
      BY <3>4, AccountHas
    <3> QED
      BY <3>1, <3>4, <3>5
  <2>6. CASE c > 0 /\ ts >= c
    <3>1. a = Holding(A[id], 0, 0)
      BY <1>3, <1>4, <2>0, <2>6 DEF AtCutoff, Holding
    <3>2. d = 0 /\ e = 0
      BY <1>1, <2>0, <2>1, <2>6, NothingPostedYet
    <3>3. /\ a = Account(id, LedgerOf[id], LimitOf[id], ts, 0, 0, a.drp, a.crp)
          /\ a.id = id /\ a.dr = 0 /\ a.cr = 0
      BY <2>5, <3>1
    <3> QED
      BY <2>0, <2>1, <3>2, <3>3
  <2>7. CASE c > 0 /\ ~(ts >= c)
    <3>1. PICK X, Y : X = Minus(p, x) /\ Y = Minus(q, y)
      OBVIOUS
    <3>2. a = Holding(A[id], X, Y)
      <4>1. A[id].dr = p /\ A[id].cr = q /\ A[id].id = id
        BY <1>3, <2>1
      <4> QED
        BY <1>4, <2>0, <2>7, <3>1, <4>1 DEF AtCutoff, Holding
    <3>3. X \in Nat /\ Y \in Nat /\ X <= d /\ Y <= e /\ (SinglePhase(W) => X = d /\ Y = e)
      BY <2>2, <2>3, <2>4, <3>1 DEF Minus
    <3>4. /\ a = Account(id, LedgerOf[id], LimitOf[id], ts, X, Y, a.drp, a.crp)
          /\ a.id = id /\ a.dr = X /\ a.cr = Y
      BY <2>5, <3>2
    <3> QED
      BY <2>0, <2>1, <3>3, <3>4
  <2>8. CASE ~(c > 0)
    <3>1. a = A[id] /\ a.dr = p /\ a.cr = q
      BY <1>3, <1>4, <2>1, <2>8
    <3>2. k = n /\ d = p /\ e = q
      <4>1. k = n
        BY <1>1, <1>2, <2>8 DEF Divides, IsPiece
      <4> QED
        BY <2>1, <4>1
    <3>3. p <= d /\ q <= e
      BY <2>4, <3>2
    <3> QED
      BY <1>3, <2>1, <2>4, <3>1, <3>2, <3>3
  <2> QED
    BY <2>6, <2>7, <2>8
<1>5. ASSUME NEW a \in S PROVE \E id \in DOMAIN A : a = IF c > 0 THEN AtCutoff(A[id], W, c) ELSE A[id]
  BY <1>2, <1>5 DEF PlannedOf
<1>6. ASSUME NEW id \in DOMAIN A PROVE \E a \in S : a = IF c > 0 THEN AtCutoff(A[id], W, c) ELSE A[id]
  BY <1>2, <1>6 DEF PlannedOf
<1>7. ASSUME NEW a \in S
      PROVE  /\ a.id \in DOMAIN A /\ a.dr \in Nat /\ a.cr \in Nat
             /\ a = IF c > 0 THEN AtCutoff(A[a.id], W, c) ELSE A[a.id]
             /\ a = Account(a.id, LedgerOf[a.id], LimitOf[a.id], A[a.id].ts, a.dr, a.cr, a.drp, a.crp)
             /\ a.dr <= Posted(s, "debit", a.id, k) /\ a.cr <= Posted(s, "credit", a.id, k)
             /\ SinglePhase(W) => a.dr = Posted(s, "debit", a.id, k) /\ a.cr = Posted(s, "credit", a.id, k)
  <2>1. PICK id \in DOMAIN A : a = IF c > 0 THEN AtCutoff(A[id], W, c) ELSE A[id]
    BY <1>5
  <2>2. a.id = id
    BY <1>4, <2>1
  <2> QED
    BY <1>4, <2>1, <2>2
<1>8. \A id \in DOMAIN A : \E a \in S : a.id = id
  BY <1>4, <1>6
<1>9. \A a \in S : \A b \in S : a.id = b.id => a = b
  BY <1>7
<1> QED
  BY <1>1, <1>7, <1>8, <1>9 DEF Standing, StandingAt

SnapshotOf(S, c) == IF c > 0 THEN BuildSnapshot(S, TRUE) ELSE BuildSnapshot(S, FALSE)

HasWindow(plan, p, W) ==
  /\ plan.genesis = p.genesis /\ plan.regular = p.regular
  /\ plan.synthetic = p.synthetic /\ plan.windowed = W
  /\ [plan EXCEPT !.windowed = <<>>] = p

\* The parts of a plan.
LEMMA PlanParts ==
  ASSUME NEW L, NEW c \in Nat, NEW W, W = WindowOf(L, c), NEW S, S = PlannedOf(L, c, W), Plannable(S),
         NEW p, p = SnapshotOf(S, c), NEW plan, plan = PlanOf(L, c)
  PROVE  HasWindow(plan, p, W)
<1>1. PICK g, r, t : p = [genesis |-> g, regular |-> r, synthetic |-> t, windowed |-> <<>>]
  <2>1. TRUE \in BOOLEAN /\ FALSE \in BOOLEAN
    OBVIOUS
  <2>2. p = [genesis |-> p.genesis, regular |-> p.regular, synthetic |-> p.synthetic, windowed |-> <<>>]
    BY <2>1, SnapshotTaken DEF SnapshotOf
  <2> QED
    BY <2>2
<1>2. plan = [p EXCEPT !.windowed = W]
  <2>1. CASE c > 0
    BY <2>1 DEF PlanOf, BuildWindowed, PlannedOf, SnapshotOf
  <2>2. CASE ~(c > 0)
    <3>1. plan = BuildSnapshot(S, FALSE) /\ W = <<>>
      BY <2>2 DEF PlanOf, Build, PlannedOf, WindowOf
    <3>2. plan = p
      BY <2>2, <3>1 DEF SnapshotOf
    <3>3. p = [p EXCEPT !.windowed = <<>>]
      BY <1>1
    <3> QED
      BY <3>1, <3>2, <3>3
  <2> QED
    BY <2>1, <2>2
<1>3. plan = [genesis |-> g, regular |-> r, synthetic |-> t, windowed |-> W]
  BY <1>1, <1>2
<1>4. [plan EXCEPT !.windowed = <<>>] = p
  BY <1>1, <1>3
<1> QED
  BY <1>1, <1>3, <1>4 DEF HasWindow

\* The accounts of L that have moved in the first k transfers.
MovedBy(L, k) ==
  {a \in AccountsOf(L) : Posted(L.transfers, "debit", a.id, k) + Posted(L.transfers, "credit", a.id, k) > 0}

\* An account of the plan that has balances has moved, and each is another one.
LEMMA BalancesMoved ==
  ASSUME NEW L, NEW now, IsSource(L, now), NEW S, NEW k \in 0..Len(L.transfers), Standing(L, S, k),
         NEW B, B = WithBalance(S), NEW M, M = MovedBy(L, k)
  PROVE  /\ IsFiniteSet(B) /\ IsFiniteSet(M) /\ Cardinality(B) <= Cardinality(M)
         /\ \A a \in B : \E m \in M : m.ts = a.ts
<1>1. PICK s, A : s = L.transfers /\ A = L.accounts
  OBVIOUS
<1>2. /\ IsHistory(s) /\ k \in 0..Len(s) /\ DOMAIN A \subseteq AccountIds
      /\ AccountsOf(L) = {A[id] : id \in DOMAIN A} /\ Tallied(A, s)
      /\ \A a \in S : a.id \in DOMAIN A /\ a.ts = A[a.id].ts
  <2>1. /\ IsHistory(s) /\ k \in 0..Len(s) /\ DOMAIN A \subseteq AccountIds
        /\ AccountsOf(L) = {A[id] : id \in DOMAIN A} /\ Tallied(A, s)
    BY <1>1 DEF IsSource, AccountsOf, Range
  <2>2. \A a \in S : a.ts = L.accounts[a.id].ts
    BY StandingPlannable
  <2>3. \A a \in S : a.id \in DOMAIN A
    BY <1>1 DEF Standing
  <2> QED
    BY <1>1, <2>1, <2>2, <2>3
<1>3. ASSUME NEW id \in DOMAIN A PROVE A[id].id = id
  BY <1>3, <1>2 DEF Tallied, Account
<1>4. ASSUME NEW a \in B PROVE A[a.id] \in M /\ a \in S
  <2>1. a \in S /\ (a.cr > 0 \/ a.dr > 0)
    BY DEF WithBalance, HasBalance
  <2>2. /\ a.id \in DOMAIN A /\ a.dr \in Nat /\ a.cr \in Nat
        /\ a.dr <= Posted(s, "debit", a.id, k) /\ a.cr <= Posted(s, "credit", a.id, k)
    BY <1>1, <2>1 DEF Standing
  <2>3. Posted(s, "debit", a.id, k) \in Nat /\ Posted(s, "credit", a.id, k) \in Nat
    BY <1>2, PostedNumbers
  <2>4. Posted(s, "debit", a.id, k) + Posted(s, "credit", a.id, k) > 0
    BY <2>1, <2>2, <2>3
  <2>5. A[a.id] \in AccountsOf(L) /\ A[a.id].id = a.id
    BY <1>2, <1>3, <2>2
  <2> QED
    BY <1>1, <2>1, <2>4, <2>5 DEF MovedBy
<1>5. IsFiniteSet(B) /\ IsFiniteSet(M)
  <2>1. IsFiniteSet(S)
    BY StandingPlannable DEF Plannable
  <2>2. IsFiniteSet(DOMAIN A)
    BY <1>2, AccountsAssumption, FS_Subset
  <2>3. PICK f : f = [id \in DOMAIN A |-> A[id]]
    OBVIOUS
  <2>4. f = [id \in DOMAIN A |-> f[id]] /\ Range(f) = AccountsOf(L)
    BY <1>2, <2>3 DEF Range
  <2>5. IsFiniteSet(AccountsOf(L))
    <3>1. IsFiniteSet(Range(f))
      BY <2>2, <2>3, <2>4, FiniteImage
    <3> QED
      BY <2>4, <3>1
  <2>6. B \subseteq S /\ M \subseteq AccountsOf(L)
    BY DEF WithBalance, MovedBy
  <2>7. IsFiniteSet(B)
    BY <2>1, <2>6, FS_Subset
  <2>8. IsFiniteSet(M)
    BY <2>5, <2>6, FS_Subset
  <2> QED
    BY <2>7, <2>8
<1>6. Cardinality(B) <= Cardinality(M)
  <2>1. PICK f : f = [a \in B |-> A[a.id]]
    OBVIOUS
  <2>2. f \in [B -> M]
    BY <1>4, <2>1
  <2>3. \A a \in B : \A b \in B : f[a] = f[b] => a = b
    <3>1. ASSUME NEW a \in B, NEW b \in B, f[a] = f[b] PROVE a = b
      <4>1. a.id \in DOMAIN A /\ b.id \in DOMAIN A /\ a \in S /\ b \in S
        BY <1>2, <1>4
      <4>2. a.id = b.id
        BY <1>3, <2>1, <3>1, <4>1
      <4> QED
        BY <4>1, <4>2 DEF Standing
    <3> QED
      BY <3>1
  <2>4. f \in Injection(B, M)
    BY <2>2, <2>3 DEF Injection, IsInjective
  <2> QED
    BY <1>5, <2>4, FS_Injection
<1>7. \A a \in B : \E m \in M : m.ts = a.ts
  BY <1>2, <1>4
<1> QED
  BY <1>5, <1>6, <1>7

\* If there is room before the cutoff, synthetic transfers stay in it.
LEMMA SyntheticEarly ==
  ASSUME NEW L, NEW now, IsSource(L, now), NEW S, NEW k \in 0..Len(L.transfers), Standing(L, S, k),
         NEW plan, plan = BuildSnapshot(S, TRUE), NEW M, M = MovedBy(L, k),
         NEW c \in Nat, After(c - 2 * Cardinality(M), Timestamps(M))
  PROVE  IsList(plan.synthetic) /\ \A i \in 1..Len(plan.synthetic) : plan.synthetic[i].ts < c
<1>1. PICK B, b, m, n : B = WithBalance(S) /\ b = Cardinality(B) /\ m = Cardinality(M) /\ n = Len(plan.synthetic)
  OBVIOUS
<1>2. /\ IsFiniteSet(B) /\ b \in Nat /\ m \in Nat /\ b <= m
      /\ \A a \in B : \E x \in M : x.ts = a.ts
  <2>1. /\ IsFiniteSet(B) /\ IsFiniteSet(M) /\ b <= m
        /\ \A a \in B : \E x \in M : x.ts = a.ts
    BY <1>1, BalancesMoved
  <2>2. b \in Nat
    BY <1>1, <2>1, FS_CardinalityType
  <2>3. m \in Nat
    BY <1>1, <2>1, FS_CardinalityType
  <2> QED
    BY <2>1, <2>2, <2>3
<1>3. Plannable(S)
  BY StandingPlannable
<1>4. PICK floor : Starts(plan, S, TRUE, floor)
  <2>1. TRUE \in BOOLEAN
    OBVIOUS
  <2> QED
    BY <1>3, <2>1, SnapshotTaken
<1>5. /\ floor \in Nat /\ n \in Nat /\ n <= 2 * b
      /\ \A i \in 1..n : plan.synthetic[i].ts = floor + i
      /\ floor = 2 * Cardinality(LedgersOf(S)) \/ \E a \in B : floor = a.ts
  BY <1>1, <1>4 DEF Starts, WithBalance
<1>6. ASSUME NEW a \in B PROVE a.ts < c - 2 * m /\ a.ts \in Nat /\ 2 * Cardinality(LedgersOf(S)) < a.ts
  <2>1. PICK x \in M : x.ts = a.ts
    BY <1>2
  <2>2. a.ts < c - 2 * m
    BY <1>1, <2>1 DEF After, Timestamps
  <2>3. a \in S
    BY <1>1 DEF WithBalance
  <2> QED
    BY <1>3, <2>2, <2>3 DEF Plannable
<1>7. Cardinality(LedgersOf(S)) \in Nat
  <2>1. IsFiniteSet(S) /\ \A a \in S : a.ledger \in Nat
    BY <1>3 DEF Plannable
  <2>2. IsFiniteSet(LedgersOf(S))
    BY <2>1, GenesisParts
  <2> QED
    BY <2>2, FS_CardinalityType
<1>8. ASSUME NEW i \in 1..n PROVE floor + i < c
  <2>1. b # 0
    BY <1>2, <1>5
  <2>2. B # {}
    BY <1>1, <2>1, FS_EmptySet
  <2>3. PICK a \in B : TRUE
    BY <2>2
  <2>4. floor < c - 2 * m
    <3>1. PICK ts \in Nat : ts = a.ts /\ ts < c - 2 * m
      BY <1>6
    <3>2. PICK l \in Nat : l = Cardinality(LedgersOf(S))
      BY <1>7
    <3>3. floor = 2 * l => floor < ts
      BY <1>6, <3>1, <3>2
    <3>4. \A x \in B : floor = x.ts => floor < c - 2 * m
      BY <1>6
    <3>5. floor = 2 * l => floor < c - 2 * m
      BY <1>2, <1>5, <3>1, <3>3
    <3> QED
      BY <1>5, <3>2, <3>4, <3>5
  <2> QED
    BY <1>2, <1>5, <2>4
<1>9. IsList(plan.synthetic)
  <2>1. Aged(S)
    BY <1>3 DEF Plannable, Aged, Account, AccountFields
  <2>2. PlanLists(plan)
    BY <2>1, Snapshots
  <2> QED
    BY <2>2 DEF PlanLists
<1> QED
  BY <1>1, <1>5, <1>8, <1>9

LEMMA SameTotals ==
  ASSUME NEW k \in Nat, NEW q, IsList(q), Len(q) = k, NEW f, Numbers(f, k), \A i \in 1..k : q[i] = f[i]
  PROVE  Total(q) = SumTo(f, k)
<1>1. Numbers(q, k)
  BY DEF Numbers
<1>2. Total(q) = SumTo(q, k)
  BY <1>1, TotalIsSum
<1>3. \A j \in 0..k : SumTo(q, j) = SumTo(f, j)
  BY SumSame
<1> QED
  BY <1>2, <1>3

\* What the properties call posted before a cutoff.
LEMMA PostedSums ==
  ASSUME NEW s, IsHistory(s), NEW k \in 0..Len(s), NEW B, IsPiece(B, s, 0, k), NEW side \in {"debit", "credit"},
         NEW id, NEW q, q = [i \in DOMAIN B |-> IF OnSide(B[i], side, id) THEN Posts(B[i]) ELSE 0]
  PROVE  Total(q) = Posted(s, side, id, k)
<1>1. PICK f, n : f = Postings(s, side, id) /\ n = Len(s)
  OBVIOUS
<1>2. n \in Nat /\ k \in 0..n /\ Numbers(f, n) /\ k \in Nat
  BY <1>1, PostedNumbers
<1>3. IsList(B) /\ Len(B) = k /\ \A i \in 1..k : B[i] = s[i]
  BY <1>2 DEF IsPiece
<1>4. DOMAIN B = 1..k
  BY <1>3, ListParts
<1>5. IsList(q) /\ Len(q) = k
  <2>1. q = [i \in 1..k |-> q[i]]
    BY <1>4
  <2> QED
    BY <1>2, <2>1, ListOf
<1>6. ASSUME NEW i \in 1..k PROVE q[i] = f[i] /\ f[i] \in Int
  BY <1>1, <1>2, <1>3, <1>4 DEF Postings, Numbers
<1>7. Numbers(f, k)
  BY <1>6 DEF Numbers
<1>8. Total(q) = SumTo(f, k)
  BY <1>2, <1>5, <1>6, <1>7, SameTotals
<1> QED
  BY <1>1, <1>8 DEF Posted

LEMMA PostedBefore ==
  ASSUME NEW now, IsSource(ledger, now), NEW c \in Nat, NEW k, NEW W, Divides(ledger, c, k, W), NEW id
  PROVE  /\ PostedDebits(id, c) = Posted(ledger.transfers, "debit", id, k)
         /\ PostedCredits(id, c) = Posted(ledger.transfers, "credit", id, k)
<1>1. PICK s, B : s = ledger.transfers /\ B = Before(c)
  OBVIOUS
<1>2. IsHistory(s) /\ k \in 0..Len(s) /\ IsPiece(B, s, 0, k)
  BY <1>1 DEF IsSource, Divides, Before
<1>3. PICK p : p = [i \in DOMAIN B |-> IF OnSide(B[i], "debit", id) THEN Posts(B[i]) ELSE 0]
  OBVIOUS
<1>4. PICK q : q = [i \in DOMAIN B |-> IF OnSide(B[i], "credit", id) THEN Posts(B[i]) ELSE 0]
  OBVIOUS
<1>5. Total(p) = Posted(s, "debit", id, k)
  BY <1>2, <1>3, PostedSums
<1>6. Total(q) = Posted(s, "credit", id, k)
  BY <1>2, <1>4, PostedSums
<1>7. PostedDebits(id, c) = Total(p)
  BY <1>1, <1>3 DEF PostedDebits, OnSide
<1>8. PostedCredits(id, c) = Total(q)
  BY <1>1, <1>4 DEF PostedCredits, OnSide
<1> QED
  BY <1>1, <1>5, <1>6, <1>7, <1>8

\* Cutoffs are timestamps.
LEMMA CutoffsAreTimes ==
  ASSUME NEW now, now = clock, IsSource(ledger, now), NEW c \in EveryCutoff
  PROVE  c \in Nat
<1>1. now \in Nat /\ Timely(ledger.accounts, ledger.transfers, now) /\ IsList(ledger.transfers)
  BY DEF IsSource, IsHistory
<1>2. ASSUME c \in AccountTs(ledger) PROVE c \in Nat
  BY <1>1, <1>2 DEF Timely, AccountTs, Timestamps, Range
<1>3. ASSUME c \in TransferTs(ledger) PROVE c \in Nat
  <2>1. PICK t \in Range(ledger.transfers) : c = t.ts
    BY <1>3 DEF TransferTs, Timestamps
  <2>2. PICK i \in 1..Len(ledger.transfers) : t = ledger.transfers[i]
    BY <1>1, <2>1, ListParts
  <2> QED
    BY <1>1, <2>1, <2>2 DEF Timely, InTime
<1> QED
  BY <1>1, <1>2, <1>3 DEF EveryCutoff

LEMMA SlotMeans ==
  ASSUME NEW now, IsSource(ledger, now), NEW c \in Nat, c > 0, NEW k, NEW W, Divides(ledger, c, k, W),
         SlotIsWideEnough(c), NEW M, M = MovedBy(ledger, k)
  PROVE  After(c - 2 * Cardinality(M), Timestamps(M))
<1>1. M = {a \in Accounts : PostedDebits(a.id, c) + PostedCredits(a.id, c) > 0}
  BY PostedBefore DEF MovedBy, Accounts
<1> QED
  BY <1>1 DEF SlotIsWideEnough

LEMMA SourcesLeaveRoom ==
  ASSUME NEW now, now = clock, IsSource(ledger, now)
  PROVE  SyntheticBeforeCutoff
<1>1. ASSUME NEW c \in EveryCutoff \ {0}, SlotIsWideEnough(c), NEW t \in Range(Plan(c).synthetic)
      PROVE  t.ts < c
  <2>1. c \in Nat /\ c > 0
    BY <1>1, CutoffsAreTimes
  <2>2. PICK L, W, S, p : /\ L = ledger /\ W = WindowOf(L, c) /\ S = PlannedOf(L, c, W)
                             /\ p = BuildSnapshot(S, TRUE)
    OBVIOUS
  <2>3. PICK k : Divides(L, c, k, W)
    BY <2>1, <2>2, CutoffDivides
  <2>4. Standing(L, S, k) /\ k \in 0..Len(L.transfers)
    BY <2>1, <2>2, <2>3, CutoffAccounts DEF Divides
  <2>5. PICK M1 : M1 = MovedBy(L, k)
    OBVIOUS
  <2>6. After(c - 2 * Cardinality(M1), Timestamps(M1))
    BY <1>1, <2>1, <2>2, <2>3, <2>5, SlotMeans
  <2>7. IsList(p.synthetic) /\ \A i \in 1..Len(p.synthetic) : p.synthetic[i].ts < c
    BY <2>1, <2>2, <2>4, <2>5, <2>6, SyntheticEarly
  <2>8. Plan(c).synthetic = p.synthetic
    <3>1. Plannable(S)
      BY <2>2, <2>4, StandingPlannable
    <3>2. p = SnapshotOf(S, c)
      BY <2>1, <2>2 DEF SnapshotOf
    <3>3. PICK plan : plan = PlanOf(L, c)
      OBVIOUS
    <3>4. HasWindow(plan, p, W)
      BY <2>1, <2>2, <3>1, <3>2, <3>3, PlanParts
    <3> QED
      BY <2>2, <3>3, <3>4 DEF Plan, HasWindow
  <2>9. PICK i \in 1..Len(p.synthetic) : t = p.synthetic[i]
    BY <1>1, <2>7, <2>8, ListParts
  <2> QED
    BY <2>7, <2>9
<1> QED
  BY <1>1 DEF SyntheticBeforeCutoff

\* Synthetic transfers come before the cutoff, if there is room for them.
THEOREM SyntheticComesFirst == LedgerSpec => []SyntheticBeforeCutoff
<1>1. IsSource(ledger, clock) => SyntheticBeforeCutoff
  BY SourcesLeaveRoom
<1> QED
  BY <1>1, SourcesGrow, PTL

\* An account of a ledger that has moved dr and cr.
LEMMA AccountAt ==
  ASSUME NEW base, IsBase(base), NEW dr, NEW cr, NEW s, NEW T, T = LedgerAt(base, dr, cr, s),
         NEW id \in DOMAIN base
  PROVE  T.accounts[id].dr = dr[id] /\ T.accounts[id].cr = cr[id]
<1>1. PICK a, l, m, ts, x, y : /\ a = base[id] /\ l = a.ledger /\ m = a.limit /\ ts = a.ts
                               /\ x = dr[id] /\ y = cr[id]
  OBVIOUS
<1>2. a = Account(id, l, m, ts, 0, 0, 0, 0)
  BY <1>1 DEF IsBase
<1>3. Holding(a, x, y) = Account(id, l, m, ts, x, y, 0, 0)
  BY <1>2, AccountWith
<1>4. T.accounts[id] = Account(id, l, m, ts, x, y, 0, 0)
  BY <1>1, <1>3 DEF LedgerAt
<1> QED
  BY <1>1, <1>4, AccountHas

\* Importing a plan is importing what comes before the window, and then that.
LEMMA ImportParts ==
  ASSUME NEW plan, NEW p, NEW W, HasWindow(plan, p, W), IsList(p.synthetic), IsList(W),
         NEW base, CreateAccounts(EmptyLedger, p.genesis \o p.regular) = Start(base)
  PROVE  /\ Imported(EmptyLedger, plan) = CreateTransfers(CreateTransfers(Start(base), p.synthetic), W)
         /\ p.windowed = <<>> =>
               Imported(EmptyLedger, p) = CreateTransfers(Start(base), p.synthetic)
<1>1. Imported(EmptyLedger, plan) = CreateTransfers(Start(base), p.synthetic \o W)
  BY DEF Imported, HasWindow
<1>2. CreateTransfers(Start(base), p.synthetic \o W)
        = CreateTransfers(CreateTransfers(Start(base), p.synthetic), W)
  BY TransfersJoin
<1>3. ASSUME p.windowed = <<>>
      PROVE  Imported(EmptyLedger, p) = CreateTransfers(Start(base), p.synthetic)
  <2>1. Imported(EmptyLedger, p) = CreateTransfers(Start(base), p.synthetic \o <<>>)
    BY <1>3 DEF Imported
  <2>2. PICK s : s = p.synthetic /\ s \in Seq(Range(s))
    BY DEF IsList
  <2>3. s \o <<>> = s
    BY <2>2
  <2> QED
    BY <2>1, <2>2, <2>3
<1> QED
  BY <1>1, <1>2, <1>3

\* Everything about the plan of a source, for a cutoff after place k.
Planned(L, c, k, W, S, p) ==
  /\ Divides(L, c, k, W) /\ Standing(L, S, k) /\ Plannable(S) /\ S = PlannedOf(L, c, W)
  /\ HasWindow(PlanOf(L, c), p, W) /\ p = SnapshotOf(S, c) /\ p.windowed = <<>>
  /\ W = WindowOf(L, c)

LEMMA SourcePlanned ==
  ASSUME NEW L, NEW now, IsSource(L, now), NEW c \in Nat
  PROVE  \E k, W, S, p : Planned(L, c, k, W, S, p)
<1>1. PICK W, S, p, plan : /\ W = WindowOf(L, c) /\ S = PlannedOf(L, c, W) /\ p = SnapshotOf(S, c)
                           /\ plan = PlanOf(L, c)
  OBVIOUS
<1>2. PICK k : Divides(L, c, k, W)
  BY <1>1, CutoffDivides
<1>3. Standing(L, S, k) /\ k \in 0..Len(L.transfers)
  BY <1>1, <1>2, CutoffAccounts DEF Divides
<1>4. Plannable(S)
  BY <1>3, StandingPlannable
<1>5. HasWindow(plan, p, W)
  BY <1>1, <1>4, PlanParts
<1>6. p.windowed = <<>>
  <2>1. TRUE \in BOOLEAN /\ FALSE \in BOOLEAN
    OBVIOUS
  <2>2. p = [genesis |-> p.genesis, regular |-> p.regular, synthetic |-> p.synthetic, windowed |-> <<>>]
    BY <1>1, <1>4, <2>1, SnapshotTaken DEF SnapshotOf
  <2> QED
    BY <2>2
<1> QED
  BY <1>1, <1>2, <1>3, <1>4, <1>5, <1>6 DEF Planned

LEMMA PlannedTakes ==
  ASSUME NEW L, NEW now, IsSource(L, now), NEW c \in Nat, NEW k, NEW W, SinglePhase(W), NEW S, NEW p,
         Planned(L, c, k, W, S, p)
  PROVE  /\ StandingAt(S, L.transfers, k) /\ \E base, dr, cr : Takes(p, S, base, dr, cr)
<1>1. Divides(L, c, k, W) /\ S = PlannedOf(L, c, W) /\ Standing(L, S, k) /\ k \in 0..Len(L.transfers)
      /\ Plannable(S) /\ p = SnapshotOf(S, c)
  BY DEF Planned, Divides
<1>2. StandingAt(S, L.transfers, k)
  BY <1>1, CutoffAccounts
<1>3. Covered(S)
  BY <1>1, <1>2, StandingPlannable
<1>4. CASE c > 0
  <2>1. TRUE \in BOOLEAN /\ p = BuildSnapshot(S, TRUE)
    BY <1>1, <1>4 DEF SnapshotOf
  <2> QED
    BY <1>1, <1>2, <1>3, <2>1, SnapshotTaken
<1>5. CASE ~(c > 0)
  <2>1. FALSE \in BOOLEAN /\ p = BuildSnapshot(S, FALSE)
    BY <1>1, <1>5 DEF SnapshotOf
  <2> QED
    BY <1>1, <1>2, <1>3, <2>1, SnapshotTaken
<1> QED
  BY <1>4, <1>5

\* Each account of the source has one in the plan.
LEMMA PlanHasAccount ==
  ASSUME NEW L, NEW now, IsSource(L, now), NEW S, NEW k, Standing(L, S, k), NEW a \in AccountsOf(L)
  PROVE  /\ a.id \in DOMAIN L.accounts /\ \E b \in S : b.id = a.id
         /\ a.dr = Posted(L.transfers, "debit", a.id, Len(L.transfers))
         /\ a.cr = Posted(L.transfers, "credit", a.id, Len(L.transfers))
<1>1. PICK id \in DOMAIN L.accounts : a = L.accounts[id]
  BY DEF AccountsOf, Range
<1>2. PICK s, l, m, ts, d, e, p, q :
          /\ s = L.transfers /\ l = LedgerOf[id] /\ m = LimitOf[id] /\ ts = L.accounts[id].ts
          /\ d = Posted(s, "debit", id, Len(s)) /\ e = Posted(s, "credit", id, Len(s))
          /\ p = Held(s, "debit", id) /\ q = Held(s, "credit", id)
  OBVIOUS
<1>3. a = Account(id, l, m, ts, d, e, p, q)
  BY <1>1, <1>2 DEF IsSource, Tallied
<1>4. a.id = id /\ a.dr = d /\ a.cr = e
  BY <1>3, AccountHas
<1> QED
  BY <1>1, <1>2, <1>4 DEF Standing

LEMMA SourcesRebuild ==
  ASSUME NEW now, now = clock, IsSource(ledger, now)
  PROVE  CutoffBalancesAreRebuilt
<1>1. ASSUME NEW c \in EveryCutoff, SinglePhase(Window(c)), NEW T,
             T = Imported(EmptyLedger, [Plan(c) EXCEPT !.windowed = <<>>]), NEW a \in Accounts
      PROVE  /\ T.accounts[a.id].dr = PostedDebits(a.id, c)
             /\ T.accounts[a.id].cr = PostedCredits(a.id, c)
  <2>1. c \in Nat
    BY CutoffsAreTimes
  <2>2. PICK k, W, S, p : Planned(ledger, c, k, W, S, p)
    BY <2>1, SourcePlanned
  <2>3. /\ Divides(ledger, c, k, W) /\ Standing(ledger, S, k) /\ W = Window(c)
        /\ HasWindow(Plan(c), p, W) /\ p.windowed = <<>>
    BY <2>2 DEF Planned, Window, Plan
  <2>4. PICK base, dr, cr : Takes(p, S, base, dr, cr)
    BY <1>1, <2>1, <2>2, <2>3, PlannedTakes
  <2>5. StandingAt(S, ledger.transfers, k)
    BY <1>1, <2>1, <2>2, <2>3, PlannedTakes
  <2>6. IsList(p.synthetic) /\ IsList(W) /\ CreateAccounts(EmptyLedger, p.genesis \o p.regular) = Start(base)
        /\ IsBase(base) /\ CreateTransfers(Start(base), p.synthetic) = LedgerAt(base, dr, cr, p.synthetic)
    BY <2>3, <2>4 DEF Takes, Divides, IsPiece
  <2>7. T = Imported(EmptyLedger, p)
    BY <1>1, <2>3 DEF HasWindow
  <2>8. PICK plan : plan = Plan(c)
    OBVIOUS
  <2>9. Imported(EmptyLedger, p) = CreateTransfers(Start(base), p.synthetic)
    BY <2>3, <2>6, <2>8, ImportParts
  <2>10. PICK s : s = p.synthetic /\ T = LedgerAt(base, dr, cr, s)
    BY <2>6, <2>7, <2>9
  <2>11. PICK b \in S : b.id = a.id
    BY <2>3, PlanHasAccount DEF Accounts
  <2>12. a.id \in DOMAIN base /\ dr[a.id] = b.dr /\ cr[a.id] = b.cr
    BY <2>4, <2>11 DEF Takes
  <2>13. T.accounts[a.id].dr = dr[a.id] /\ T.accounts[a.id].cr = cr[a.id]
    BY <2>6, <2>10, <2>12, AccountAt
  <2>14. /\ PostedDebits(a.id, c) = Posted(ledger.transfers, "debit", a.id, k)
         /\ PostedCredits(a.id, c) = Posted(ledger.transfers, "credit", a.id, k)
    BY <2>1, <2>3, PostedBefore
  <2> QED
    BY <2>5, <2>11, <2>12, <2>13, <2>14 DEF StandingAt
<1> QED
  BY <1>1 DEF CutoffBalancesAreRebuilt

\* Synthetic transfers alone give each account what it had posted.
THEOREM BalancesAreRebuilt == LedgerSpec => []CutoffBalancesAreRebuilt
<1>1. IsSource(ledger, clock) => CutoffBalancesAreRebuilt
  BY SourcesRebuild
<1> QED
  BY <1>1, SourcesGrow, PTL

-----------------------------------------------------------------------------
(***************************************************************************)
(* The window, replayed: what the source took, the target takes.           *)
(***************************************************************************)

\* The accounts of a source, opened again.
Reopened(base, L) ==
  /\ IsBase(base)
  /\ \A id \in DOMAIN L.accounts :
        /\ id \in DOMAIN base
        /\ base[id].ledger = LedgerOf[id] /\ base[id].limit = LimitOf[id]
        /\ base[id].ts = L.accounts[id].ts
\* They have moved what the first x transfers of the source have posted, and
\* the next one may come: e more transfers than x are there.
Follows(base, L, x, e, dr, cr, S) ==
  /\ Moves(base, dr) /\ Moves(base, cr) /\ IsList(S) /\ Len(S) = e + x
  /\ \A id \in DOMAIN L.accounts : /\ dr[id] = Posted(L.transfers, "debit", id, x)
                                   /\ cr[id] = Posted(L.transfers, "credit", id, x)
  /\ \A i \in 1..Len(S) : /\ S[i].id \in Nat /\ S[i].id < FirstAppId + x
                          /\ \A z \in (x + 1)..Len(L.transfers) : S[i].ts < L.transfers[z].ts
Reaches(base, L, r, x, e) ==
  \E dr, cr, S : r = LedgerAt(base, dr, cr, S) /\ Follows(base, L, x, e, dr, cr, S)

\* What is posted after one more transfer.
LEMMA PostedNext ==
  ASSUME NEW s, IsHistory(s), NEW y \in 1..Len(s), NEW x, x = y - 1, NEW side, NEW id
  PROVE  /\ Posted(s, side, id, x) \in Nat /\ Posted(s, side, id, y) \in Nat
         /\ Posted(s, side, id, y) = Posted(s, side, id, x) + (IF OnSide(s[y], side, id) THEN Posts(s[y]) ELSE 0)
<1>1. Len(s) \in Nat /\ x \in 0..Len(s) /\ y \in 0..Len(s)
  BY PostedNumbers
<1>2. \A k \in 0..Len(s) : Posted(s, side, id, k) \in Nat
  BY PostedNumbers
<1>3. \A k \in 1..Len(s) : Posted(s, side, id, k) = Posted(s, side, id, k - 1)
                              + (IF OnSide(s[k], side, id) THEN Posts(s[k]) ELSE 0)
  BY PostedNumbers
<1> QED
  BY <1>1, <1>2, <1>3

LEMMA ReplayFits ==
  ASSUME NEW L, NEW now, IsSource(L, now), NEW base, Reopened(base, L), NEW s, s = L.transfers,
         NEW y \in 1..Len(s), NEW x, x = y - 1, NEW e \in Int, NEW dr, NEW cr, NEW S,
         Follows(base, L, x, e, dr, cr, S), NEW t, t = s[y], t.kind = "single"
  PROVE  Fits(base, dr, cr, S, t)
<1>1. PICK A : A = L.accounts
  OBVIOUS
<1>2. /\ IsHistory(s) /\ InTime(s) /\ Opposite(A, t) /\ Solvent(A, s) /\ DOMAIN A \subseteq AccountIds
      /\ Len(s) \in Nat /\ t.amount \in Nat /\ t.id = FirstAppId + x /\ FirstAppId \in Nat
  BY <1>1, IdAssumption, PostedNumbers DEF IsSource, Timely, IsHistory
<1>3. \A i \in 1..Len(S) : S[i].id # t.id /\ S[i].ts < t.ts
  BY <1>2, SMTT(30) DEF Follows
<1>4. t.debit # t.credit /\ t.debit \in DOMAIN A /\ t.credit \in DOMAIN A
  BY <1>2 DEF Opposite
<1>5. ASSUME NEW id \in {t.debit, t.credit} PROVE id \in DOMAIN base /\ base[id].ledger = t.ledger /\ base[id].ts < t.ts
  BY <1>1, <1>2 DEF Opposite, Reopened
<1>6. ASSUME base[t.debit].limit = "debits" PROVE dr[t.debit] + t.amount <= cr[t.debit]
  <2>1. PICK id, d, c, d1, c1 : /\ id = t.debit /\ d = Posted(s, "debit", id, x) /\ c = Posted(s, "credit", id, x)
                                /\ d1 = Posted(s, "debit", id, y) /\ c1 = Posted(s, "credit", id, y)
    OBVIOUS
  <2>2. id \in DOMAIN A /\ LimitOf[id] = "debits"
    BY <1>1, <1>4, <1>6, <2>1 DEF Reopened
  <2>3. d1 <= c1
    <3>1. y \in 0..Len(s)
      BY <1>2
    <3> QED
      BY <1>2, <2>1, <2>2, <3>1 DEF Solvent
  <2>4. d \in Nat /\ d1 \in Nat /\ d1 = d + t.amount
    <3>1. OnSide(s[y], "debit", id) /\ Posts(s[y]) = t.amount
      BY <2>1 DEF OnSide, Posts
    <3> QED
      BY <1>2, <2>1, <3>1, PostedNext
  <2>5. c \in Nat /\ c1 = c
    <3>1. ~OnSide(s[y], "credit", id)
      BY <1>4, <2>1 DEF OnSide
    <3>2. c \in Nat /\ c1 = c + 0
      BY <1>2, <2>1, <3>1, PostedNext
    <3> QED
      BY <3>2
  <2>6. dr[id] = d /\ cr[id] = c
    BY <1>1, <2>1, <2>2 DEF Follows
  <2> QED
    BY <2>1, <2>3, <2>4, <2>5, <2>6
<1> QED
  BY <1>2, <1>3, <1>4, <1>5, <1>6 DEF Fits

LEMMA ReplayOne ==
  ASSUME NEW L, NEW now, IsSource(L, now), NEW base, Reopened(base, L), NEW s, s = L.transfers,
         NEW y \in 1..Len(s), NEW x, x = y - 1, NEW e \in Int, NEW r, Reaches(base, L, r, x, e),
         NEW t, t = s[y], t.kind = "single"
  PROVE  Reaches(base, L, CreateTransfer(r, t), y, e)
<1>1. PICK A : A = L.accounts
  OBVIOUS
<1>2. /\ IsHistory(s) /\ InTime(s) /\ Opposite(A, t)
      /\ Len(s) \in Nat /\ t.amount \in Nat /\ t.id = FirstAppId + x /\ FirstAppId \in Nat
  BY <1>1, IdAssumption, PostedNumbers DEF IsSource, Timely, IsHistory
<1>3. PICK dr, cr, S : r = LedgerAt(base, dr, cr, S) /\ Follows(base, L, x, e, dr, cr, S)
  BY DEF Reaches
<1>4. Fits(base, dr, cr, S, t)
  BY <1>3, ReplayFits
<1>5. PICK dr1, cr1, S1 : /\ dr1 = Plus(dr, t.debit, t.amount) /\ cr1 = Plus(cr, t.credit, t.amount)
                          /\ S1 = Append(S, t)
  OBVIOUS
<1>6. /\ CreateTransfer(r, t) = LedgerAt(base, dr1, cr1, S1) /\ Moves(base, dr1) /\ Moves(base, cr1)
  <2>1. IsBase(base) /\ Moves(base, dr) /\ Moves(base, cr) /\ IsList(S)
    BY <1>3 DEF Reopened, Follows
  <2> QED
    BY <1>3, <1>4, <1>5, <2>1, OneTaken
<1>7. ASSUME NEW id \in DOMAIN A
      PROVE  dr1[id] = Posted(s, "debit", id, y) /\ cr1[id] = Posted(s, "credit", id, y)
  <2>1. PICK d, c : d = Posted(s, "debit", id, x) /\ c = Posted(s, "credit", id, x)
    OBVIOUS
  <2>2. /\ dr[id] = d /\ cr[id] = c /\ dr \in [DOMAIN base -> Int] /\ cr \in [DOMAIN base -> Int]
        /\ id \in DOMAIN base
    BY <1>1, <1>3, <2>1 DEF Follows, Moves, Reopened
  <2>3. Posts(s[y]) = t.amount
    BY DEF Posts
  <2>4. d \in Nat /\ Posted(s, "debit", id, y) = d + (IF t.debit = id THEN t.amount ELSE 0)
    <3>1. OnSide(s[y], "debit", id) <=> t.debit = id
      BY DEF OnSide
    <3> QED
      BY <1>2, <2>1, <2>3, <3>1, PostedNext
  <2>5. c \in Nat /\ Posted(s, "credit", id, y) = c + (IF t.credit = id THEN t.amount ELSE 0)
    <3>1. OnSide(s[y], "credit", id) <=> t.credit = id
      BY DEF OnSide
    <3> QED
      BY <1>2, <2>1, <2>3, <3>1, PostedNext
  <2>6. dr1[id] = d + (IF t.debit = id THEN t.amount ELSE 0)
    BY <1>2, <1>5, <2>2, <2>4 DEF Plus
  <2>7. cr1[id] = c + (IF t.credit = id THEN t.amount ELSE 0)
    BY <1>2, <1>5, <2>2, <2>5 DEF Plus
  <2> QED
    BY <2>4, <2>5, <2>6, <2>7
<1>8. /\ IsList(S) /\ Len(S) = e + x /\ Len(S) \in Nat
      /\ \A i \in 1..Len(S) : /\ S[i].id \in Nat /\ S[i].id < FirstAppId + x
                              /\ \A z \in (x + 1)..Len(s) : S[i].ts < s[z].ts
  BY <1>3, ListParts DEF Follows
<1>9. /\ IsList(S1) /\ Len(S1) = Len(S) + 1 /\ \A i \in 1..Len(S) : S1[i] = S[i]
      /\ S1[Len(S) + 1] = t
  BY <1>5, <1>8, Appended
<1>10. ASSUME NEW i \in 1..Len(S1)
       PROVE  /\ S1[i].id \in Nat /\ S1[i].id < FirstAppId + y
              /\ \A z \in (y + 1)..Len(s) : S1[i].ts < s[z].ts
  <2>1. CASE i \in 1..Len(S)
    <3>1. S1[i] = S[i]
      BY <1>9, <2>1
    <3>2. \A z \in (y + 1)..Len(s) : z \in (x + 1)..Len(s)
      BY <1>2
    <3>3. PICK o \in Nat : o = S[i].id /\ o < FirstAppId + x
      BY <1>8, <2>1
    <3>4. o < FirstAppId + y
      BY <1>2, <3>3
    <3>5. \A z \in (y + 1)..Len(s) : S[i].ts < s[z].ts
      BY <1>8, <2>1, <3>2
    <3> QED
      BY <3>1, <3>3, <3>4, <3>5
  <2>2. CASE i = Len(S) + 1
    <3>1. S1[i] = t /\ t = s[y]
      BY <1>9, <2>2
    <3>2. \A z \in (y + 1)..Len(s) : s[y].ts < s[z].ts
      <4>1. \A z \in (y + 1)..Len(s) : z \in 1..Len(s) /\ y < z
        BY <1>2
      <4> QED
        BY <1>2, <4>1 DEF InTime
    <3>3. t.id \in Nat /\ t.id < FirstAppId + y
      BY <1>2
    <3> QED
      BY <3>1, <3>2, <3>3
  <2> QED
    BY <1>8, <1>9, <2>1, <2>2
<1>11. Len(S1) = e + y
  BY <1>2, <1>8, <1>9
<1>12. Follows(base, L, y, e, dr1, cr1, S1)
  BY <1>1, <1>6, <1>7, <1>9, <1>10, <1>11 DEF Follows
<1> QED
  BY <1>6, <1>12 DEF Reaches

\* The window is replayed whole.
LEMMA WindowReplayed ==
  ASSUME NEW L, NEW now, IsSource(L, now), NEW base, Reopened(base, L), NEW s, s = L.transfers,
         NEW n \in Nat, n = Len(s), NEW k \in 0..n, NEW W, IsPiece(W, s, k, n), SinglePhase(W),
         NEW e \in Int, NEW M, Reaches(base, L, M, k, e)
  PROVE  Reaches(base, L, CreateTransfers(M, W), n, e)
<1>1. PICK m : m = n - k /\ m \in Nat
  OBVIOUS
<1>2. IsList(W) /\ Len(W) = m /\ \A i \in 1..m : W[i] = s[k + i] /\ W[i].kind = "single"
  <2>1. IsList(W) /\ Len(W) = m /\ \A i \in 1..m : W[i] = s[k + i]
    BY <1>1 DEF IsPiece
  <2>2. \A i \in 1..m : W[i] \in Range(W)
    BY <2>1, ListParts
  <2> QED
    BY <2>1, <2>2 DEF SinglePhase
<1>3. PICK r, R : StepByStep(r, "transfers", 0, M, W, R) /\ R = CreateTransfers(M, W)
  BY <1>2, TransfersStepByStep
<1>4. r[0] = M /\ r[m] = R /\ \A i \in 1..m : r[i] = CreateTransfer(r[i - 1], W[i])
  BY <1>2, <1>3 DEF StepByStep, Fold
<1> DEFINE T == {j \in 0..m : Reaches(base, L, r[j], k + j, e)}
<1>5. 0 \in T
  <2>1. k + 0 = k
    OBVIOUS
  <2> QED
    BY <1>1, <1>4, <2>1
<1>6. ASSUME NEW j \in 1..m, j - 1 \in T PROVE j \in T
  <2>1. PICK x, y, q, t : x = k + (j - 1) /\ y = k + j /\ q = r[j - 1] /\ t = W[j]
    OBVIOUS
  <2>2. y \in 1..Len(s) /\ x = y - 1
    BY <1>1, <2>1
  <2>3. Reaches(base, L, q, x, e) /\ t = s[y] /\ t.kind = "single"
    BY <1>2, <1>6, <2>1
  <2>4. Reaches(base, L, CreateTransfer(q, t), y, e)
    BY <2>2, <2>3, ReplayOne
  <2> QED
    BY <1>4, <2>1, <2>4
<1> HIDE DEF T
<1>7. \A j \in 0..m : j \in T
  BY <1>1, <1>5, <1>6, Upwards
<1>8. Reaches(base, L, r[m], k + m, e)
  <2>1. m \in T
    BY <1>1, <1>7
  <2> QED
    BY <2>1 DEF T
<1>9. k + m = n
  BY <1>1
<1> QED
  BY <1>3, <1>4, <1>8, <1>9

\* There are fewer synthetic transfers than ids below those of applications.
LEMMA SyntheticIds ==
  ASSUME NEW L, NEW now, IsSource(L, now), NEW k \in 0..Len(L.transfers), NEW S, Standing(L, S, k), Plannable(S),
         NEW m \in Nat, m <= 2 * Cardinality(WithBalance(S))
  PROVE  m < FirstAppId /\ FirstAppId \in Nat
<1>1. PICK b, a, d : b = Cardinality(WithBalance(S)) /\ a = Cardinality(S) /\ d = Cardinality(AccountIds)
  OBVIOUS
<1>2. WithBalance(S) \subseteq S /\ IsFiniteSet(S)
  BY DEF WithBalance, Plannable
<1>3. IsFiniteSet(WithBalance(S)) /\ b <= a
  BY <1>1, <1>2, FS_Subset
<1>4. b \in Nat
  BY <1>1, <1>3, FS_CardinalityType
<1>5. a \in Nat
  BY <1>1, <1>2, FS_CardinalityType
<1>6. d \in Nat
  BY <1>1, AccountsAssumption, FS_CardinalityType
<1>7. a <= d
  BY <1>1, StandingPlannable
<1>8. 2 * d < FirstAppId /\ FirstAppId \in Nat
  BY <1>1, <1>6, IdAssumption
<1> QED
  BY <1>1, <1>3, <1>4, <1>5, <1>6, <1>7, <1>8

\* When the accounts and the synthetic transfers are there, the window is next.
LEMMA WindowIsNext ==
  ASSUME NEW L, NEW now, IsSource(L, now), NEW c \in Nat, NEW k, NEW W, NEW S, NEW p,
         Planned(L, c, k, W, S, p), StandingAt(S, L.transfers, k),
         NEW base, NEW dr, NEW cr, Takes(p, S, base, dr, cr),
         NEW M, M = MovedBy(L, k), c > 0 => After(c - 2 * Cardinality(M), Timestamps(M)),
         NEW e, e = Len(p.synthetic) - k
  PROVE  Reopened(base, L) /\ Follows(base, L, k, e, dr, cr, p.synthetic) /\ e \in Int
<1>1. PICK s, n, A, q, m : s = L.transfers /\ n = Len(s) /\ A = L.accounts /\ q = p.synthetic /\ m = Len(q)
  OBVIOUS
<1>2. /\ Divides(L, c, k, W) /\ Standing(L, S, k) /\ Plannable(S) /\ p = SnapshotOf(S, c)
      /\ IsHistory(s) /\ n \in Nat /\ k \in 0..n /\ k \in Nat
  BY <1>1, PostedNumbers DEF Planned, IsSource, Divides
<1>3. PICK windowed \in BOOLEAN : p = BuildSnapshot(S, windowed) /\ (c > 0 => windowed = TRUE)
  <2>1. CASE c > 0
    BY <1>2, <2>1 DEF SnapshotOf
  <2>2. CASE ~(c > 0)
    BY <1>2, <2>2 DEF SnapshotOf
  <2> QED
    BY <2>1, <2>2
<1>4. PICK floor : Starts(p, S, windowed, floor)
  BY <1>2, <1>3, SnapshotTaken
<1>5. IsList(q) /\ m \in Nat /\ m <= 2 * Cardinality(WithBalance(S)) /\ \A i \in 1..m : q[i].id = i
  BY <1>1, <1>4 DEF Starts, Takes
<1>6. m < FirstAppId /\ FirstAppId \in Nat
  BY <1>1, <1>2, <1>5, SyntheticIds
<1>7. ASSUME NEW i \in 1..m, NEW z \in (k + 1)..n PROVE q[i].ts < s[z].ts
  <2>1. c > 0
    <3>1. CASE ~(c > 0)
      <4>1. k = n
        BY <1>1, <1>2, <3>1 DEF Divides, IsPiece
      <4> QED
        BY <1>2, <4>1
    <3> QED
      BY <3>1
  <2>2. p = BuildSnapshot(S, TRUE)
    BY <1>3, <2>1
  <2>3. q[i].ts < c
    BY <1>1, <1>2, <2>1, <2>2, SyntheticEarly
  <2>4. z \in 1..n /\ ~(z <= k)
    BY <1>2
  <2>5. ~(s[z].ts < c)
    BY <1>1, <1>2, <2>1, <2>4 DEF Divides
  <2>6. s[z].ts \in Nat
    BY <1>1, <2>4 DEF IsSource, Timely, InTime
  <2>7. q[i].ts \in Nat
    <3>1. p.synthetic[i].ts = floor + i /\ floor \in Nat
      BY <1>1, <1>4 DEF Starts
    <3> QED
      BY <1>1, <1>5, <3>1
  <2> QED
    BY <2>3, <2>5, <2>6, <2>7
<1>8. ASSUME NEW id \in DOMAIN A
      PROVE  /\ dr[id] = Posted(s, "debit", id, k) /\ cr[id] = Posted(s, "credit", id, k)
             /\ id \in DOMAIN base /\ base[id].ledger = LedgerOf[id] /\ base[id].limit = LimitOf[id]
             /\ base[id].ts = A[id].ts
  <2>1. PICK a \in S : a.id = id
    BY <1>1, <1>2 DEF Standing
  <2>2. PICK l, lim, ts : l = a.ledger /\ lim = a.limit /\ ts = a.ts
    OBVIOUS
  <2>3. id \in DOMAIN base /\ dr[id] = a.dr /\ cr[id] = a.cr /\ base[id] = Account(id, l, lim, ts, 0, 0, 0, 0)
    BY <2>1, <2>2 DEF Takes
  <2>4. base[id].ledger = l /\ base[id].limit = lim /\ base[id].ts = ts
    BY <2>3, AccountHas
  <2>5. l = LedgerOf[id] /\ lim = LimitOf[id] /\ ts = A[id].ts
    BY <1>1, <1>2, <2>1, <2>2, StandingPlannable
  <2> QED
    BY <1>1, <2>1, <2>3, <2>4, <2>5 DEF StandingAt
<1>9. Reopened(base, L)
  BY <1>1, <1>8 DEF Reopened, Takes
<1>10. ASSUME NEW i \in 1..m PROVE q[i].id \in Nat /\ q[i].id < FirstAppId + k
  BY <1>2, <1>5, <1>6
<1>11. Moves(base, dr) /\ Moves(base, cr)
  BY DEF Takes, Rebuilt
<1>12. e \in Int /\ m = e + k
  BY <1>1, <1>2, <1>5
<1> QED
  BY <1>1, <1>5, <1>7, <1>8, <1>9, <1>10, <1>11, <1>12 DEF Follows

\* Nothing is refused.
LEMMA AllTaken ==
  ASSUME NEW L, NEW k, NEW W, NEW n \in Nat, k \in 0..n, IsPiece(W, L.transfers, k, n), NEW S, NEW p, NEW base, NEW d, NEW c,
         Takes(p, S, base, d, c), IsList(p.genesis), NEW plan, HasWindow(plan, p, W),
         NEW e, e = Len(p.synthetic) - k, NEW dr, NEW cr, NEW s, Follows(base, L, n, e, dr, cr, s),
         NEW T, T = LedgerAt(base, dr, cr, s)
  PROVE  Complete(EmptyLedger, plan, T)
<1>1. PICK q, m, v : q = p.synthetic /\ m = Len(q) /\ v = Len(W)
  OBVIOUS
<1>2. IsList(q) /\ IsList(W) /\ v = n - k
  BY <1>1 DEF Takes, IsPiece
<1>3. m \in Nat /\ Len(q \o W) = m + v
  <2>1. Len(q \o W) = Len(q) + Len(W)
    BY <1>2, Joined
  <2>2. Len(q) \in Nat
    BY <1>2, ListParts
  <2> QED
    BY <1>1, <2>1, <2>2
<1>4. Len(s) = m + v
  <2>1. Len(s) = e + n
    BY DEF Follows
  <2> QED
    BY <1>1, <1>2, <1>3, <2>1
<1>5. Size(T) = Cardinality(DOMAIN base) + Len(s)
  BY DEF Size, LedgerAt
<1>6. Size(EmptyLedger) = 0
  <2>1. DOMAIN EmptyLedger.accounts = {} /\ Len(EmptyLedger.transfers) = 0
    BY DEF EmptyLedger
  <2>2. Cardinality(DOMAIN EmptyLedger.accounts) = 0
    BY <2>1, FS_EmptySet
  <2> QED
    BY <2>1, <2>2 DEF Size
<1>7. Cardinality(DOMAIN base) = Len(plan.genesis \o plan.regular)
  BY DEF Takes, HasWindow
<1>8. plan.synthetic = q /\ plan.windowed = W
  BY <1>1 DEF HasWindow
<1>9. PICK g : g = Len(plan.genesis \o plan.regular) /\ Size(T) = g + (m + v)
  BY <1>4, <1>5, <1>7
<1>10. g \in Nat
  <2>1. PICK a, b : a = plan.genesis /\ b = plan.regular /\ IsList(a) /\ IsList(b)
    BY DEF Takes, IsRegular, HasWindow
  <2>2. Len(a \o b) = Len(a) + Len(b)
    BY <2>1, Joined
  <2>3. Len(a) \in Nat /\ Len(b) \in Nat
    BY <2>1, ListParts
  <2>4. g = Len(a \o b)
    BY <1>9, <2>1
  <2> QED
    BY <2>2, <2>3, <2>4
<1>11. Size(T) = 0 + g + (m + v)
  BY <1>9, <1>10
<1> QED
  BY <1>3, <1>6, <1>8, <1>9, <1>11 DEF Complete

LEMMA PlannedLists ==
  ASSUME NEW L, NEW c, NEW k, NEW W, NEW S, NEW p, Planned(L, c, k, W, S, p)
  PROVE  IsList(p.genesis)
<1>1. Aged(S)
  BY DEF Planned, Plannable, Aged, Account, AccountFields
<1>2. PICK windowed : p = BuildSnapshot(S, windowed)
  BY DEF Planned, SnapshotOf
<1>3. PlanLists(p)
  BY <1>1, <1>2, Snapshots
<1> QED
  BY <1>3 DEF PlanLists

LEMMA SourcesRestore ==
  ASSUME NEW now, now = clock, IsSource(ledger, now)
  PROVE  PlanRestoresBalances
<1>1. ASSUME NEW c \in EveryCutoff, SlotIsWideEnough(c), SinglePhase(Window(c)),
             NEW T, T = Imported(EmptyLedger, Plan(c))
      PROVE  Complete(EmptyLedger, Plan(c), T) /\ SameBalances(T)
  <2>1. c \in Nat
    BY CutoffsAreTimes
  <2>2. PICK k, W, S, p : Planned(ledger, c, k, W, S, p)
    BY <2>1, SourcePlanned
  <2>3. PICK L, s, n, plan : L = ledger /\ s = L.transfers /\ n = Len(s) /\ plan = Plan(c)
    OBVIOUS
  <2>4. /\ Divides(L, c, k, W) /\ Standing(L, S, k) /\ W = Window(c)
        /\ HasWindow(plan, p, W) /\ IsPiece(W, s, k, n) /\ IsHistory(s)
    BY <2>2, <2>3 DEF Planned, Window, Plan, Divides, IsSource
  <2>5. n \in Nat /\ k \in 0..n
    BY <2>3, <2>4, PostedNumbers DEF Divides
  <2>6. PICK base, dr, cr : Takes(p, S, base, dr, cr)
    BY <1>1, <2>1, <2>2, <2>4, PlannedTakes
  <2>7. StandingAt(S, s, k)
    BY <1>1, <2>1, <2>2, <2>3, <2>4, PlannedTakes
  <2>8. PICK M, e : M = MovedBy(L, k) /\ e = Len(p.synthetic) - k
    OBVIOUS
  <2>9. c > 0 => After(c - 2 * Cardinality(M), Timestamps(M))
    BY <1>1, <2>1, <2>3, <2>4, <2>8, SlotMeans
  <2>10. Reopened(base, L) /\ Follows(base, L, k, e, dr, cr, p.synthetic) /\ e \in Int
    BY <2>1, <2>2, <2>3, <2>6, <2>7, <2>8, <2>9, WindowIsNext
  <2>11. PICK Mid : Mid = LedgerAt(base, dr, cr, p.synthetic)
    OBVIOUS
  <2>12. Reaches(base, L, Mid, k, e)
    BY <2>10, <2>11 DEF Reaches
  <2>13. Reaches(base, L, CreateTransfers(Mid, W), n, e)
    BY <1>1, <2>3, <2>4, <2>5, <2>10, <2>12, WindowReplayed
  <2>14. T = CreateTransfers(Mid, W)
    <3>1. /\ IsList(p.synthetic) /\ IsList(W)
          /\ CreateAccounts(EmptyLedger, p.genesis \o p.regular) = Start(base)
          /\ CreateTransfers(Start(base), p.synthetic) = Mid
      BY <2>4, <2>6, <2>11 DEF Takes, IsPiece
    <3>2. Imported(EmptyLedger, plan) = CreateTransfers(CreateTransfers(Start(base), p.synthetic), W)
      BY <2>4, <3>1, ImportParts
    <3> QED
      BY <1>1, <2>3, <3>1, <3>2
  <2>15. PICK dr1, cr1, s1 : T = LedgerAt(base, dr1, cr1, s1) /\ Follows(base, L, n, e, dr1, cr1, s1)
    BY <2>13, <2>14 DEF Reaches
  <2>16. Complete(EmptyLedger, plan, T)
    <3>1. IsList(p.genesis)
      BY <2>2, PlannedLists
    <3> QED
      BY <2>3, <2>4, <2>5, <2>6, <2>8, <2>15, <3>1, AllTaken
  <2>17. ASSUME NEW a \in Accounts
         PROVE  T.accounts[a.id].dr = a.dr /\ T.accounts[a.id].cr = a.cr
    <3>1. /\ a.id \in DOMAIN L.accounts
          /\ a.dr = Posted(s, "debit", a.id, n) /\ a.cr = Posted(s, "credit", a.id, n)
      BY <2>3, <2>4, PlanHasAccount DEF Accounts
    <3>2. dr1[a.id] = a.dr /\ cr1[a.id] = a.cr
      BY <2>3, <2>15, <3>1 DEF Follows
    <3>3. IsBase(base) /\ a.id \in DOMAIN base
      BY <2>10, <3>1 DEF Reopened
    <3> QED
      BY <2>15, <3>2, <3>3, AccountAt
  <2> QED
    BY <2>3, <2>16, <2>17 DEF SameBalances
<1> QED
  BY <1>1 DEF PlanRestoresBalances

\* Importing a plan restores every balance, and nothing of it is refused.
THEOREM PlansRestoreBalances == LedgerSpec => []PlanRestoresBalances
<1>1. IsSource(ledger, clock) => PlanRestoresBalances
  BY SourcesRestore
<1> QED
  BY <1>1, SourcesGrow, PTL

-----------------------------------------------------------------------------
(***************************************************************************)
(* Genesis accounts: in every ledger, as much is debited as credited.      *)
(***************************************************************************)

\* What the accounts of ledger l among q have posted on one side in x transfers.
Shares(s, q, side, l, x) ==
  [j \in 1..Len(q) |-> IF q[j].ledger = l THEN Posted(s, side, q[j].id, x) ELSE 0]
SharesAdd(s, q, side, l, x, amount) ==
  /\ amount \in Int
  /\ SumTo(Shares(s, q, side, l, x), Len(q)) \in Int
  /\ SumTo(Shares(s, q, side, l, x + 1), Len(q)) = SumTo(Shares(s, q, side, l, x), Len(q)) + amount

LEMMA ShareGrows ==
  ASSUME NEW L, NEW now, IsSource(L, now), NEW s, s = L.transfers, NEW S, NEW k \in 0..Len(s), Standing(L, S, k),
         NEW q, IsRegular(q, S), NEW y \in 1..Len(s), NEW x, x = y - 1, NEW side \in {"debit", "credit"}, NEW l,
         NEW t, t = s[y], NEW amount, amount = IF t.ledger = l THEN Posts(t) ELSE 0
  PROVE  SharesAdd(s, q, side, l, x, amount)
<1>1. PICK A, N, f, e, id : /\ A = L.accounts /\ N = Len(q) /\ f = Shares(s, q, side, l, x)
                            /\ e = Shares(s, q, side, l, y)
                            /\ id = IF side = "debit" THEN t.debit ELSE t.credit
  OBVIOUS
<1>2. /\ IsHistory(s) /\ Opposite(A, t) /\ N \in Nat /\ Posts(t) \in Nat /\ Len(s) \in Nat /\ IsList(q)
  BY <1>1, ListParts DEF IsSource, IsRegular, IsHistory, Posts
<1>3. id \in DOMAIN A /\ LedgerOf[id] = t.ledger /\ \A i : OnSide(t, side, i) <=> i = id
  BY <1>1, <1>2 DEF Opposite, OnSide
<1>4. PICK p \in 1..N : q[p].id = id /\ q[p].ledger = t.ledger /\ \A j \in 1..N : j # p => q[j].id # id
  <2>1. PICK a \in S : a.id = id
    BY <1>1, <1>3 DEF Standing
  <2>2. a.ledger = LedgerOf[id]
    BY <2>1, StandingPlannable
  <2>3. PICK p \in 1..N : q[p] = a
    BY <1>1, <1>2, ListParts DEF IsRegular
  <2>4. \A j \in 1..N : j # p => q[j].id # id
    BY <1>1, <2>1, <2>3 DEF IsRegular
  <2> QED
    BY <1>3, <2>1, <2>2, <2>3, <2>4
<1>5. ASSUME NEW j \in 1..N
      PROVE  /\ f[j] \in Int /\ e[j] \in Int
             /\ j # p => e[j] = f[j]
             /\ j = p => e[j] = f[j] + amount
  <2>1. PICK i, d, d1 : i = q[j].id /\ d = Posted(s, side, i, x) /\ d1 = Posted(s, side, i, y)
    OBVIOUS
  <2>2. d \in Nat /\ d1 \in Nat /\ d1 = d + (IF OnSide(t, side, i) THEN Posts(t) ELSE 0)
    BY <1>2, <2>1, PostedNext
  <2>3. /\ f[j] = IF q[j].ledger = l THEN d ELSE 0
        /\ e[j] = IF q[j].ledger = l THEN d1 ELSE 0
    BY <1>1, <2>1 DEF Shares
  <2>4. j # p => d1 = d
    BY <1>3, <1>4, <2>1, <2>2
  <2>5. j = p => d1 = d + Posts(t) /\ q[j].ledger = t.ledger
    BY <1>3, <1>4, <2>1, <2>2
  <2> QED
    BY <1>2, <2>2, <2>3, <2>4, <2>5
<1>6. Numbers(f, N) /\ Numbers(e, N)
  BY <1>5 DEF Numbers
<1>7. SumTo(e, N) = SumTo(f, N) + (e[p] - f[p])
  BY <1>2, <1>5, <1>6, SumChanged
<1>8. SumTo(f, N) \in Int
  <2>1. \A j \in 0..N : SumTo(f, j) \in Int
    BY <1>2, <1>6, SumSteps
  <2> QED
    BY <1>2, <2>1
<1>9. amount \in Int
  BY <1>2
<1>10. SumTo(e, N) = SumTo(f, N) + amount
  BY <1>5, <1>7, <1>8, <1>9
<1>11. x + 1 = y
  BY <1>2
<1> QED
  BY <1>1, <1>8, <1>9, <1>10, <1>11 DEF SharesAdd

\* In each ledger, as much is debited as credited.
SharesMatch(s, q, l, k) ==
  SumTo(Shares(s, q, "debit", l, k), Len(q)) = SumTo(Shares(s, q, "credit", l, k), Len(q))

LEMMA LedgersMatch ==
  ASSUME NEW L, NEW now, IsSource(L, now), NEW s, s = L.transfers, NEW n \in Nat, n = Len(s), NEW S, NEW k \in 0..n, Standing(L, S, k),
         NEW q, IsRegular(q, S), NEW l
  PROVE  SharesMatch(s, q, l, k)
<1> DEFINE D(x) == SumTo(Shares(s, q, "debit", l, x), Len(q))
           C(x) == SumTo(Shares(s, q, "credit", l, x), Len(q))
           T == {x \in 0..n : D(x) = C(x)}
<1>0. IsHistory(s) /\ Len(q) \in Nat
  BY ListParts DEF IsSource, IsRegular
<1>1. 0 \in T
  <2>1. ASSUME NEW side PROVE SumTo(Shares(s, q, side, l, 0), Len(q)) = 0
    <3>1. PICK f, N : f = Shares(s, q, side, l, 0) /\ N = Len(q)
      OBVIOUS
    <3>2. ASSUME NEW i \in 1..N PROVE f[i] = 0
      <4>1. Posted(s, side, q[i].id, 0) = 0
        BY <1>0, PostedNumbers
      <4> QED
        BY <3>1, <4>1 DEF Shares
    <3>3. \A j \in 0..N : SumTo(f, j) = 0
      BY <1>0, <3>1, <3>2, SumNothing
    <3> QED
      BY <1>0, <3>1, <3>3
  <2> QED
    BY <2>1
<1>2. ASSUME NEW y \in 1..n, y - 1 \in T PROVE y \in T
  <2>1. PICK x, t, amount : x = y - 1 /\ t = s[y] /\ amount = IF t.ledger = l THEN Posts(t) ELSE 0
    OBVIOUS
  <2>2. SharesAdd(s, q, "debit", l, x, amount)
    BY <2>1, ShareGrows
  <2>3. SharesAdd(s, q, "credit", l, x, amount)
    BY <2>1, ShareGrows
  <2>4. x + 1 = y
    BY <2>1
  <2>5. D(y) = D(x) + amount
    BY <2>2, <2>4 DEF SharesAdd
  <2>6. C(y) = C(x) + amount
    BY <2>3, <2>4 DEF SharesAdd
  <2>7. D(x) = C(x)
    BY <1>2, <2>1
  <2> QED
    BY <2>5, <2>6, <2>7
<1> HIDE DEF T
<1>3. \A x \in 0..n : x \in T
  BY <1>1, <1>2, Upwards
<1>4. k \in T
  BY <1>3
<1> QED
  BY <1>4 DEF T, SharesMatch

\* Transfers leave the accounts alone that they do not name, refused or not.
LEMMA OthersUntouched ==
  ASSUME NEW L, NEW W, IsList(W), NEW g \in DOMAIN L.accounts,
         \A i \in 1..Len(W) : W[i].debit # g /\ W[i].credit # g,
         NEW R, R = CreateTransfers(L, W)
  PROVE  R.accounts[g] = L.accounts[g]
<1>1. PICK r, m : StepByStep(r, "transfers", 0, L, W, R) /\ m = Len(W) /\ m \in Nat
  BY TransfersStepByStep, ListParts
<1>2. r[0] = L /\ r[m] = R /\ \A i \in 1..m : r[i] = CreateTransfer(r[i - 1], W[i])
  BY <1>1 DEF StepByStep, Fold
<1> DEFINE T == {j \in 0..m : g \in DOMAIN r[j].accounts /\ r[j].accounts[g] = L.accounts[g]}
<1>3. 0 \in T
  BY <1>1, <1>2
<1>4. ASSUME NEW j \in 1..m, j - 1 \in T PROVE j \in T
  <2>1. PICK q, t : q = r[j - 1] /\ t = W[j]
    OBVIOUS
  <2>2. g \in DOMAIN q.accounts /\ q.accounts[g] = L.accounts[g] /\ t.debit # g /\ t.credit # g
    BY <1>1, <1>4, <2>1
  <2>3. r[j] = CreateTransfer(q, t)
    BY <1>2, <2>1
  <2>4. CASE TransferRefused(q, t)
    <3>1. r[j] = q
      BY <2>3, <2>4 DEF CreateTransfer
    <3> QED
      BY <2>2, <3>1
  <2>5. CASE ~TransferRefused(q, t)
    <3>1. PICK M : M = WithTransfer(q, t) /\ r[j] = M
      BY <2>3, <2>5 DEF CreateTransfer
    <3>2. PICK A, x, y : A = q.accounts /\ x = Posts(t) /\ y = Reserves(q, t)
      OBVIOUS
    <3>3. t.debit # t.credit /\ t.debit \in DOMAIN A /\ t.credit \in DOMAIN A
      BY <2>5, <3>2 DEF TransferRefused, SidesFit
    <3>4. TwoSides(A, M.accounts, t, x, y)
      BY <3>1, <3>2, <3>3, TransferMoves
    <3>5. DOMAIN M.accounts = DOMAIN A /\ M.accounts[g] = A[g]
      BY <2>2, <3>2, <3>4 DEF TwoSides
    <3> QED
      BY <2>2, <3>1, <3>2, <3>5
  <2> QED
    BY <2>4, <2>5
<1> HIDE DEF T
<1>5. \A j \in 0..m : j \in T
  BY <1>1, <1>3, <1>4, Upwards
<1>6. m \in T
  BY <1>1, <1>5
<1> QED
  BY <1>2, <1>6 DEF T

\* The genesis accounts when the synthetic transfers are there.
LEMMA GenesisRebuilt ==
  ASSUME NEW L, NEW now, IsSource(L, now), NEW S, NEW k \in 0..Len(L.transfers), Standing(L, S, k),
         StandingAt(S, L.transfers, k), NEW p, NEW base, NEW dr, NEW cr, Takes(p, S, base, dr, cr),
         NEW l \in LedgersOf(S)
  PROVE  /\ dr[GenesisCredit(l)] = cr[GenesisDebit(l)]
         /\ cr[GenesisCredit(l)] = 0 /\ dr[GenesisDebit(l)] = 0
         /\ GenesisCredit(l) \in DOMAIN base /\ GenesisDebit(l) \in DOMAIN base
<1>1. PICK s, n, q, N : s = L.transfers /\ n = Len(s) /\ q = p.regular /\ N = Len(q)
  OBVIOUS
<1>2. /\ IsRegular(q, S) /\ Rebuilt(base, q, N, N, dr, cr) /\ l \in LedgersIn(q) /\ n \in Nat
      /\ GenesisCredit(l) \in DOMAIN base /\ GenesisDebit(l) \in DOMAIN base
  BY <1>1, PostedNumbers DEF Takes, IsRegular, IsSource
<1>3. /\ dr[GenesisCredit(l)] = SumTo(CreditsOf(q, l), N) /\ cr[GenesisCredit(l)] = 0
      /\ cr[GenesisDebit(l)] = SumTo(DebitsOf(q, l), N) /\ dr[GenesisDebit(l)] = 0
  BY <1>2 DEF Rebuilt
<1>4. \A j \in 1..N : /\ q[j].dr = Posted(s, "debit", q[j].id, k)
                      /\ q[j].cr = Posted(s, "credit", q[j].id, k)
  BY <1>1, <1>2 DEF IsRegular, StandingAt
<1>5. CreditsOf(q, l) = Shares(s, q, "credit", l, k)
  BY <1>1, <1>4 DEF CreditsOf, Shares
<1>6. DebitsOf(q, l) = Shares(s, q, "debit", l, k)
  BY <1>1, <1>4 DEF DebitsOf, Shares
<1>7. SumTo(Shares(s, q, "debit", l, k), N) = SumTo(Shares(s, q, "credit", l, k), N)
  <2>1. k \in 0..n /\ n \in Nat /\ n = Len(s) /\ s = L.transfers
    BY <1>1, <1>2
  <2>2. SharesMatch(s, q, l, k)
    BY <1>2, <2>1, LedgersMatch
  <2> QED
    BY <1>1, <2>2 DEF SharesMatch
<1> QED
  BY <1>2, <1>3, <1>5, <1>6, <1>7

LEMMA SourcesMatch ==
  ASSUME NEW now, now = clock, IsSource(ledger, now)
  PROVE  GenesisAccountsMatch
<1>1. ASSUME NEW c \in EveryCutoff, SinglePhase(Window(c)), NEW T, T = Imported(EmptyLedger, Plan(c)).accounts,
             NEW l \in {a.ledger : a \in Accounts}
      PROVE  /\ T[GenesisCredit(l)].dr = T[GenesisDebit(l)].cr
             /\ T[GenesisCredit(l)].cr = 0 /\ T[GenesisDebit(l)].dr = 0
  <2>1. c \in Nat
    BY CutoffsAreTimes
  <2>2. PICK k, W, S, p : Planned(ledger, c, k, W, S, p)
    BY <2>1, SourcePlanned
  <2>3. PICK L, s, n, plan : L = ledger /\ s = L.transfers /\ n = Len(s) /\ plan = Plan(c)
    OBVIOUS
  <2>4. /\ Divides(L, c, k, W) /\ Standing(L, S, k) /\ W = Window(c)
        /\ HasWindow(plan, p, W) /\ IsPiece(W, s, k, n) /\ IsHistory(s)
    BY <2>2, <2>3 DEF Planned, Window, Plan, Divides, IsSource
  <2>5. n \in Nat /\ k \in 0..n
    BY <2>3, <2>4, PostedNumbers DEF Divides
  <2>6. PICK base, dr, cr : Takes(p, S, base, dr, cr)
    BY <1>1, <2>1, <2>2, <2>4, PlannedTakes
  <2>7. StandingAt(S, s, k)
    BY <1>1, <2>1, <2>2, <2>3, <2>4, PlannedTakes
  <2>8. PICK Mid, v : v = p.synthetic /\ Mid = LedgerAt(base, dr, cr, v)
    OBVIOUS
  <2>9. T = CreateTransfers(Mid, W).accounts
    <3>1. /\ IsList(p.synthetic) /\ IsList(W)
          /\ CreateAccounts(EmptyLedger, p.genesis \o p.regular) = Start(base)
          /\ CreateTransfers(Start(base), p.synthetic) = Mid
      BY <2>4, <2>6, <2>8 DEF Takes, IsPiece
    <3>2. Imported(EmptyLedger, plan) = CreateTransfers(CreateTransfers(Start(base), p.synthetic), W)
      BY <2>4, <3>1, ImportParts
    <3> QED
      BY <1>1, <2>3, <3>1, <3>2
  <2>10. l \in LedgersOf(S) /\ l \in Ledgers
    <3>1. PICK a \in AccountsOf(L) : l = a.ledger
      BY <1>1, <2>3 DEF Accounts
    <3>2. PICK id \in DOMAIN L.accounts : a = L.accounts[id]
      BY <3>1 DEF AccountsOf, Range
    <3>3. a.ledger = LedgerOf[id] /\ id \in AccountIds
      BY <2>3, <3>2 DEF IsSource, Tallied, Account
    <3>4. PICK b \in S : b.id = id
      BY <2>4, <3>2 DEF Standing
    <3>5. b.ledger = LedgerOf[b.id]
      BY <2>3, <2>4, <2>5, <3>4, StandingPlannable
    <3> QED
      BY <3>1, <3>3, <3>4, <3>5 DEF LedgersOf, Ledgers
  <2>11. PICK g, h : g = GenesisCredit(l) /\ h = GenesisDebit(l)
    OBVIOUS
  <2>12. dr[g] = cr[h] /\ cr[g] = 0 /\ dr[h] = 0 /\ g \in DOMAIN base /\ h \in DOMAIN base
    BY <2>3, <2>4, <2>5, <2>6, <2>7, <2>10, <2>11, GenesisRebuilt
  <2>13. IsBase(base)
    BY <2>6 DEF Takes
  <2>14. Mid.accounts[g].dr = dr[g] /\ Mid.accounts[g].cr = cr[g]
    BY <2>8, <2>12, <2>13, AccountAt
  <2>15. Mid.accounts[h].dr = dr[h] /\ Mid.accounts[h].cr = cr[h]
    BY <2>8, <2>12, <2>13, AccountAt
  <2>16. ASSUME NEW x \in {g, h} PROVE T[x] = Mid.accounts[x]
    <3>1. x \notin AccountIds
      BY <2>10, <2>11, IdAssumption
    <3>2. x \in DOMAIN Mid.accounts
      BY <2>8, <2>12 DEF LedgerAt
    <3>3. ASSUME NEW i \in 1..Len(W) PROVE W[i].debit # x /\ W[i].credit # x
      <4>1. Len(W) = n - k /\ \A j \in 1..(n - k) : W[j] = s[k + j]
        BY <2>4 DEF IsPiece
      <4>2. W[i] = s[k + i] /\ k + i \in 1..n
        BY <2>5, <4>1
      <4>3. Opposite(L.accounts, s[k + i]) /\ DOMAIN L.accounts \subseteq AccountIds
        BY <2>3, <4>2 DEF IsSource
      <4> QED
        BY <3>1, <4>2, <4>3 DEF Opposite
    <3>4. IsList(W)
      BY <2>4 DEF IsPiece
    <3>5. PICK R : R = CreateTransfers(Mid, W)
      OBVIOUS
    <3>6. R.accounts[x] = Mid.accounts[x]
      BY <3>2, <3>3, <3>4, <3>5, OthersUntouched
    <3> QED
      BY <2>9, <3>5, <3>6
  <2> QED
    BY <2>11, <2>12, <2>14, <2>15, <2>16
<1> QED
  BY <1>1 DEF GenesisAccountsMatch

\* The two genesis accounts of a ledger have moved the same amount.
THEOREM GenesisAccountsAgree == LedgerSpec => []GenesisAccountsMatch
<1>1. IsSource(ledger, clock) => GenesisAccountsMatch
  BY SourcesMatch
<1> QED
  BY <1>1, SourcesGrow, PTL
=============================================================================
