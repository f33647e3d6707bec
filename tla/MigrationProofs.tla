--------------------------- MODULE MigrationProofs ---------------------------
(***************************************************************************)
(* What a successful import says of the target cluster, for every source,  *)
(* cutoff, batch size, channel capacity and set of calls.                  *)
(*                                                                         *)
(* Migration first: the batches of a plan; the invariant Inv of the calls; *)
(* one lemma per action; and the theorems about success.  Then the plans   *)
(* made of CSV files, for every history of the source cluster.  Both meet  *)
(* in the last part: whatever overlaps, dies or is repeated, nothing is    *)
(* counted twice, and a success leaves no balance out.                     *)
(***************************************************************************)
EXTENDS Migration, PlanProofs

-----------------------------------------------------------------------------
(***************************************************************************)
(* Batches.                                                                *)
(***************************************************************************)

GoodBatch(b) == b.kind \in {"accounts", "transfers"} /\ IsList(b.objects)

LEMMA PlaceOfChunk ==
  ASSUME NEW n \in Nat, NEW k \in 1..n
  PROVE  \E i \in 1..((n + BatchSize - 1) \div BatchSize) :
            /\ (i - 1) * BatchSize + 1 <= k /\ k <= i * BatchSize
<1>b. PICK B \in Nat \ {0}, a \in Nat : B = BatchSize /\ k = a + 1 /\ a < n
  <2>1. BatchSize \in Nat \ {0} /\ k - 1 \in Nat /\ k = (k - 1) + 1 /\ k - 1 < n
    BY SizeAssumption
  <2> QED
    BY <2>1
<1>1. PICK j \in Nat : B * j <= a /\ a < B * j + B
  <2>1. a \div B \in Nat /\ B * (a \div B) <= a /\ a < B * (a \div B) + B
    OBVIOUS
  <2> QED
    BY <2>1
<1>2. PICK q \in Nat : q = (n + B - 1) \div B /\ B * q <= n + B - 1 /\ n + B - 1 < B * q + B
  <2>1. PICK m \in Nat : m = n + B - 1
    OBVIOUS
  <2>2. m \div B \in Nat /\ B * (m \div B) <= m /\ m < B * (m \div B) + B
    OBVIOUS
  <2> QED
    BY <2>1, <2>2
<1>3. j < q
  <2> SUFFICES ASSUME q <= j PROVE FALSE
    OBVIOUS
  <2>1. B * q <= B * j
    OBVIOUS
  <2>2. PICK x \in Nat, y \in Nat : x = B * q /\ y = B * j
    OBVIOUS
  <2>3. x <= y /\ y <= a /\ n + B - 1 < x + B /\ a < n
    BY <1>b, <1>1, <1>2, <2>1, <2>2
  <2> QED
    BY <2>3
<1>4. PICK i \in Nat : i = j + 1 /\ i - 1 = j /\ i \in 1..q
  BY <1>3
<1>5. (i - 1) * B = B * j /\ i * B = B * j + B
  BY <1>4
<1>6. (i - 1) * B + 1 <= k /\ k <= i * B
  <2>1. PICK y \in Nat : y = B * j
    OBVIOUS
  <2> QED
    BY <1>b, <1>1, <1>5, <2>1
<1> QED
  BY <1>b, <1>2, <1>4, <1>6

LEMMA Lesser ==
  ASSUME NEW a \in Int, NEW b \in Int
  PROVE  Min({a, b}) = IF a <= b THEN a ELSE b
<1>1. \E x \in {a, b} : \A y \in {a, b} : x <= y
  <2>1. CASE a <= b
    BY <2>1
  <2>2. CASE ~(a <= b)
    BY <2>2
  <2> QED
    BY <2>1, <2>2
<1>2. Min({a, b}) \in {a, b} /\ \A y \in {a, b} : Min({a, b}) <= y
  BY <1>1 DEF Min
<1> QED
  BY <1>2

\* Every object is in one of the chunks, and nothing else.
LEMMA ChunksCover ==
  ASSUME NEW kind \in {"accounts", "transfers"}, NEW s, IsList(s), NEW q, q = Chunks(kind, s)
  PROVE  /\ IsList(q) /\ \A b \in Range(q) : GoodBatch(b)
         /\ \A b \in Range(q) : b.kind = kind /\ Range(b.objects) \subseteq Range(s)
         /\ \A x \in Range(s) : \E b \in Range(q) : b.kind = kind /\ x \in Range(b.objects)
<1> DEFINE n == Len(s)
           m == (n + BatchSize - 1) \div BatchSize
           first(i) == (i - 1) * BatchSize + 1
           last(i) == Min({i * BatchSize, n})
<1>1. n \in Nat /\ BatchSize \in Nat \ {0}
  BY ListParts, SizeAssumption
<1>2. m \in Nat
  <2>1. n + BatchSize - 1 \in Nat
    BY <1>1
  <2> QED
    BY <1>1, <2>1
<1>3. q = [i \in 1..m |-> [kind |-> kind, objects |-> SubSeq(s, first(i), last(i))]]
  BY DEF Chunks
<1>4. ASSUME NEW i \in 1..m
      PROVE  /\ first(i) \in Nat /\ 1 <= first(i) /\ last(i) \in Nat /\ last(i) <= n
             /\ \A k \in 1..n : k <= i * BatchSize => k <= last(i)
  <2>1. i - 1 \in Nat /\ i \in Nat
    BY <1>2
  <2>2. (i - 1) * BatchSize \in Nat /\ i * BatchSize \in Nat
    BY <1>1, <2>1
  <2>3. PICK e \in Nat, f \in Nat : e = i * BatchSize /\ f = (i - 1) * BatchSize
    BY <2>2
  <2>4. last(i) = IF e <= n THEN e ELSE n
    BY <1>1, <2>3, Lesser
  <2>5. first(i) = f + 1
    BY <2>3
  <2> HIDE DEF first, last, n
  <2> QED
    BY <1>1, <2>3, <2>4, <2>5
<1> HIDE DEF first, last, m
<1>5. ASSUME NEW i \in 1..m
      PROVE  /\ q[i].kind = kind /\ GoodBatch(q[i]) /\ Range(q[i].objects) \subseteq Range(s)
             /\ \A k \in first(i)..last(i) : s[k] \in Range(q[i].objects)
  <2>1. /\ IsList(SubSeq(s, first(i), last(i)))
        /\ \A k \in first(i)..last(i) : s[k] \in Range(SubSeq(s, first(i), last(i)))
        /\ Range(SubSeq(s, first(i), last(i))) \subseteq Range(s)
    BY <1>4, Piece
  <2>2. q[i].kind = kind /\ q[i].objects = SubSeq(s, first(i), last(i))
    BY <1>3
  <2> QED
    BY <2>1, <2>2 DEF GoodBatch
<1>6. IsList(q) /\ Len(q) = m
  <2>1. q = [i \in 1..m |-> q[i]]
    BY <1>3
  <2> QED
    BY <1>2, <2>1, ListOf
<1>7. \A b \in Range(q) : GoodBatch(b) /\ b.kind = kind /\ Range(b.objects) \subseteq Range(s)
  BY <1>5, <1>6, ListParts
<1>8. ASSUME NEW x \in Range(s) PROVE \E b \in Range(q) : b.kind = kind /\ x \in Range(b.objects)
  <2>1. PICK k \in 1..n : x = s[k]
    BY ListParts
  <2>2. PICK i \in 1..m : first(i) <= k /\ k <= i * BatchSize
    BY <1>1, PlaceOfChunk DEF m, first
  <2>3. k \in first(i)..last(i)
    BY <1>1, <1>4, <2>2
  <2> QED
    BY <1>5, <1>6, <2>1, <2>3, ListParts
<1> QED
  BY <1>6, <1>7, <1>8

\* b takes care of an object of that kind.
Carries(b, kind, x) == b.kind = kind /\ x \in Range(b.objects)

LEMMA BatchesCover ==
  ASSUME NEW plan, PlanLists(plan), NEW q, q = Batches(plan)
  PROVE  /\ IsList(q) /\ \A b \in Range(q) : GoodBatch(b)
         /\ \A x \in Range(plan.genesis) \cup Range(plan.regular) :
               \E b \in Range(q) : Carries(b, "accounts", x)
         /\ \A x \in Range(plan.synthetic) \cup Range(plan.windowed) :
               \E b \in Range(q) : Carries(b, "transfers", x)
<1>1. PICK q1, q2, q3, q4 :
         /\ q1 = Chunks("accounts", plan.genesis) /\ q2 = Chunks("accounts", plan.regular)
         /\ q3 = Chunks("transfers", plan.synthetic) /\ q4 = Chunks("transfers", plan.windowed)
         /\ q = q1 \o q2 \o q3 \o q4
  BY DEF Batches
<1>2. /\ IsList(q1) /\ \A b \in Range(q1) : GoodBatch(b)
      /\ \A x \in Range(plan.genesis) : \E b \in Range(q1) : Carries(b, "accounts", x)
  BY <1>1, ChunksCover DEF PlanLists, Carries
<1>3. /\ IsList(q2) /\ \A b \in Range(q2) : GoodBatch(b)
      /\ \A x \in Range(plan.regular) : \E b \in Range(q2) : Carries(b, "accounts", x)
  BY <1>1, ChunksCover DEF PlanLists, Carries
<1>4. /\ IsList(q3) /\ \A b \in Range(q3) : GoodBatch(b)
      /\ \A x \in Range(plan.synthetic) : \E b \in Range(q3) : Carries(b, "transfers", x)
  BY <1>1, ChunksCover DEF PlanLists, Carries
<1>5. /\ IsList(q4) /\ \A b \in Range(q4) : GoodBatch(b)
      /\ \A x \in Range(plan.windowed) : \E b \in Range(q4) : Carries(b, "transfers", x)
  BY <1>1, ChunksCover DEF PlanLists, Carries
<1>6. IsList(q1 \o q2) /\ Range(q1 \o q2) = Range(q1) \cup Range(q2)
  BY <1>2, <1>3, Joined
<1>7. IsList(q1 \o q2 \o q3) /\ Range(q1 \o q2 \o q3) = Range(q1) \cup Range(q2) \cup Range(q3)
  BY <1>4, <1>6, Joined
<1>8. IsList(q) /\ Range(q) = Range(q1) \cup Range(q2) \cup Range(q3) \cup Range(q4)
  BY <1>1, <1>5, <1>7, Joined
<1> QED
  BY <1>2, <1>3, <1>4, <1>5, <1>8

\* The target has an object of that kind with that id.
Holds(L, kind, id) ==
  IF kind = "accounts" THEN id \in DOMAIN L.accounts ELSE id \in TransferIds(L)
IdsIn(b) == {x.id : x \in Range(b.objects)}
\* The target has the batch.
Taken(b, L) ==
  IF b.kind = "accounts" THEN IdsIn(b) \subseteq DOMAIN L.accounts
                         ELSE Range(b.objects) \subseteq Range(L.transfers)
Grown(L, R) ==
  DOMAIN L.accounts \subseteq DOMAIN R.accounts /\ Range(L.transfers) \subseteq Range(R.transfers)

LEMMA GrownKeeps ==
  ASSUME NEW L, NEW R, Grown(L, R)
  PROVE  /\ \A b : Taken(b, L) => Taken(b, R)
         /\ \A kind, id : Holds(L, kind, id) => Holds(R, kind, id)
<1>1. TransferIds(L) \subseteq TransferIds(R)
  BY DEF Grown, TransferIds
<1> QED
  BY <1>1 DEF Grown, Taken, Holds

LEMMA BatchApplied ==
  ASSUME LedgerShape(target), NEW b, GoodBatch(b), NEW R, R = Applied(b)
  PROVE  /\ LedgerShape(R) /\ Grown(target, R)
         /\ Size(R) = Size(target) + Len(b.objects) =>
               /\ Taken(b, R)
               /\ \A id \in IdsIn(b) : ~Holds(target, b.kind, id) /\ Holds(R, b.kind, id)
<1>1. IsList(b.objects) /\ \A x : x \in Range(b.objects) <=> \E i \in 1..Len(b.objects) : x = b.objects[i]
  BY ListParts DEF GoodBatch
<1>2. CASE b.kind = "accounts"
  <2>1. R = CreateAccounts(target, b.objects)
    BY <1>2 DEF Applied
  <2>2. /\ LedgerShape(R) /\ R.transfers = target.transfers
        /\ DOMAIN target.accounts \subseteq DOMAIN R.accounts
        /\ Size(R) = Size(target) + Len(b.objects) => \A i \in 1..Len(b.objects) :
              b.objects[i].id \in DOMAIN R.accounts \ DOMAIN target.accounts
    BY <1>1, <2>1, AccountsTaken
  <2>3. Grown(target, R)
    BY <2>2 DEF Grown
  <2>4. ASSUME Size(R) = Size(target) + Len(b.objects), NEW id \in IdsIn(b)
        PROVE  id \in DOMAIN R.accounts \ DOMAIN target.accounts
    BY <1>1, <2>2, <2>4 DEF IdsIn
  <2> QED
    BY <1>2, <2>2, <2>3, <2>4 DEF Taken, Holds
<1>3. CASE b.kind = "transfers"
  <2>1. R = CreateTransfers(target, b.objects)
    BY <1>3 DEF Applied
  <2>2. /\ LedgerShape(R) /\ DOMAIN R.accounts = DOMAIN target.accounts
        /\ Range(target.transfers) \subseteq Range(R.transfers)
        /\ Size(R) = Size(target) + Len(b.objects) => \A i \in 1..Len(b.objects) :
              b.objects[i] \in Range(R.transfers) /\ b.objects[i].id \notin TransferIds(target)
    BY <1>1, <2>1, TransfersTaken
  <2>3. Grown(target, R)
    BY <2>2 DEF Grown
  <2>4. ASSUME Size(R) = Size(target) + Len(b.objects), NEW x \in Range(b.objects)
        PROVE  x \in Range(R.transfers) /\ x.id \notin TransferIds(target)
    BY <1>1, <2>2, <2>4
  <2>5. ASSUME Size(R) = Size(target) + Len(b.objects), NEW id \in IdsIn(b)
        PROVE  id \in TransferIds(R) /\ id \notin TransferIds(target)
    BY <2>4, <2>5 DEF IdsIn, TransferIds
  <2> QED
    BY <1>3, <2>2, <2>3, <2>4, <2>5 DEF Taken, Holds
<1> QED
  BY <1>2, <1>3 DEF GoodBatch

-----------------------------------------------------------------------------
(***************************************************************************)
(* The calls.                                                              *)
(***************************************************************************)

Parts == {"all", "accounts", "transfers"}
Running == {"connecting", "ready", "waiting", "reporting"}

\* A call that has not failed, and the batches it has not seen accepted.
Bringing(c) == job[c].stage \in Running \/ outcome[c] = "ok"
Missing(c) == IF At(c, "reporting") THEN Tail(job[c].todo) ELSE job[c].todo

Shape ==
  /\ source \in Sources /\ cutoff \in Cutoffs
  /\ parts \in {{"all"}, {"accounts", "transfers"}, {"transfers"}}
  /\ LedgerShape(target)
  /\ job = [c \in Calls |-> [part |-> job[c].part, stage |-> job[c].stage, todo |-> job[c].todo]]
  /\ request = [c \in Calls |-> request[c]]
  /\ outcome = [c \in Calls |-> outcome[c]]
  /\ client = [c \in Calls |-> client[c]]

JobInv(c) ==
  /\ IsList(job[c].todo) /\ \A b \in Range(job[c].todo) : GoodBatch(b)
  /\ request[c] # None => GoodBatch(request[c])
  /\ outcome[c] \in {None, "ok", "failed"}
  /\ At(c, "waiting") => job[c].todo # <<>> /\ request[c] = Head(job[c].todo)
  /\ At(c, "reporting") => job[c].todo # <<>>
  /\ outcome[c] = "ok" => At(c, "ended") /\ job[c].todo = <<>>
  /\ client[c] = "ok" => outcome[c] = "ok"
  /\ client[c] = "idle" => At(c, "new") /\ outcome[c] = None

\* What a call does not miss of its plan, the target has.
PlanInv(c) == Bringing(c) =>
  /\ job[c].part \in parts
  /\ job[c].part = "transfers" => source.transfers # <<>>
  /\ \E plan \in Plans(job[c].part) : \A b \in Range(Batches(plan)) :
        Taken(b, target) \/ b \in Range(Missing(c))

\* An object that every plan of a part holds is brought by one call at most.
IsOf(kind, id, b) == b.kind = kind /\ id \in IdsIn(b)
InPlans(part, kind, id) ==
  \A plan \in Plans(part) : \E b \in Range(Batches(plan)) : IsOf(kind, id, b)
Brought(c, part, kind, id) ==
  Bringing(c) /\ job[c].part = part /\ \A b \in Range(Missing(c)) : ~IsOf(kind, id, b)
OnceInv ==
  \A part, kind, id : InPlans(part, kind, id) =>
    \A c \in Calls : Brought(c, part, kind, id) =>
       /\ Holds(target, kind, id)
       /\ \A d \in Calls : Brought(d, part, kind, id) => c = d

Inv == Shape /\ (\A c \in Calls : JobInv(c) /\ PlanInv(c)) /\ OnceInv

\* A step of one call.
StepOf(c) ==
  /\ UNCHANGED fixed
  /\ job' = [e \in Calls |-> [part |-> job'[e].part, stage |-> job'[e].stage, todo |-> job'[e].todo]]
  /\ request' = [e \in Calls |-> request'[e]]
  /\ outcome' = [e \in Calls |-> outcome'[e]]
  /\ client' = [e \in Calls |-> client'[e]]
  /\ \A e \in Calls : e # c =>
        /\ job'[e] = job[e] /\ request'[e] = request[e]
        /\ outcome'[e] = outcome[e] /\ client'[e] = client[e]

\* A call neither begins, nor is another of its batches accepted.
Quiet(c) == Bringing(c)' =>
  Bringing(c) /\ job'[c].part = job[c].part /\ Missing(c)' = Missing(c)

LEMMA SamePlans ==
  ASSUME UNCHANGED fixed
  PROVE  source' = source /\ cutoff' = cutoff /\ parts' = parts /\ \A p : Plans(p)' = Plans(p)
<1>1. source' = source /\ cutoff' = cutoff /\ parts' = parts
  BY DEF fixed
<1> QED
  BY <1>1 DEF Plans

LEMMA QuietKeepsPlan ==
  ASSUME UNCHANGED fixed, Grown(target, target'), NEW c, Quiet(c), PlanInv(c)
  PROVE  PlanInv(c)'
<1> SUFFICES ASSUME Bringing(c)' PROVE PlanInv(c)'
  BY DEF PlanInv
<1>1. Bringing(c) /\ job'[c].part = job[c].part /\ Missing(c)' = Missing(c)
  BY DEF Quiet
<1>2. /\ job[c].part \in parts
      /\ job[c].part = "transfers" => source.transfers # <<>>
      /\ \E plan \in Plans(job[c].part) : \A b \in Range(Batches(plan)) :
            Taken(b, target) \/ b \in Range(Missing(c))
  BY <1>1 DEF PlanInv
<1>3. PICK plan \in Plans(job[c].part) :
         \A b \in Range(Batches(plan)) : Taken(b, target) \/ b \in Range(Missing(c))
  BY <1>2
<1>4. \A b : Taken(b, target) => Taken(b, target')
  BY GrownKeeps
<1>5. Plans(job[c].part)' = Plans(job[c].part)
  BY <1>1, SamePlans DEF Plans
<1>6. \A b \in Range(Batches(plan)) : Taken(b, target') \/ b \in Range(Missing(c)')
  BY <1>1, <1>3, <1>4
<1> QED
  BY <1>1, <1>2, <1>5, <1>6, SamePlans DEF PlanInv

LEMMA Unmoved ==
  ASSUME NEW c, job'[c] = job[c], request'[c] = request[c],
         outcome'[c] = outcome[c], client'[c] = client[c]
  PROVE  (JobInv(c) => JobInv(c)') /\ Quiet(c)
  BY DEF JobInv, Quiet, Bringing, Missing, At

LEMMA CallSteps ==
  ASSUME Inv, NEW c \in Calls, StepOf(c), LedgerShape(target'), Grown(target, target'),
         JobInv(c)', PlanInv(c)'
  PROVE  Shape' /\ \A e \in Calls : JobInv(e)' /\ PlanInv(e)'
<1>1. UNCHANGED fixed /\ source' = source /\ cutoff' = cutoff /\ parts' = parts
  BY SamePlans DEF StepOf
<1>2. Shape'
  BY <1>1 DEF Inv, Shape, StepOf
<1>3. ASSUME NEW e \in Calls, e # c PROVE JobInv(e)' /\ PlanInv(e)'
  <2>1. job'[e] = job[e] /\ request'[e] = request[e] /\ outcome'[e] = outcome[e] /\ client'[e] = client[e]
    BY <1>3 DEF StepOf
  <2>2. JobInv(e) /\ PlanInv(e)
    BY DEF Inv
  <2>3. JobInv(e)' /\ Quiet(e)
    BY <2>1, <2>2, Unmoved
  <2> QED
    BY <1>1, <2>2, <2>3, QuietKeepsPlan
<1> QED
  BY <1>2, <1>3

\* Every call keeps quiet, or brings nothing yet.
LEMMA QuietKeepsOnce ==
  ASSUME OnceInv, UNCHANGED fixed, Grown(target, target'),
         \A e \in Calls : \/ Quiet(e)
                          \/ \A part, kind, id : InPlans(part, kind, id) => ~Brought(e, part, kind, id)'
  PROVE  OnceInv'
<1> SUFFICES ASSUME NEW part, NEW kind, NEW id, InPlans(part, kind, id)',
                    NEW c \in Calls, Brought(c, part, kind, id)'
             PROVE  /\ Holds(target', kind, id)
                    /\ \A d \in Calls : Brought(d, part, kind, id)' => c = d
  BY DEF OnceInv
<1>1. InPlans(part, kind, id)
  BY SamePlans DEF InPlans
<1>2. ASSUME NEW e \in Calls, Brought(e, part, kind, id)' PROVE Brought(e, part, kind, id)
  <2>1. Quiet(e)
    BY <1>1, <1>2
  <2> QED
    BY <1>2, <2>1 DEF Brought, Quiet
<1>3. Holds(target, kind, id) /\ \A d \in Calls : Brought(d, part, kind, id) => c = d
  BY <1>1, <1>2 DEF OnceInv
<1>4. Holds(target', kind, id)
  BY <1>3, GrownKeeps
<1> QED
  BY <1>2, <1>3, <1>4

\* A step of one call that keeps quiet.
LEMMA QuietSteps ==
  ASSUME Inv, NEW c \in Calls, StepOf(c), UNCHANGED target, JobInv(c)', Quiet(c)
  PROVE  Inv'
<1>1. LedgerShape(target') /\ Grown(target, target') /\ UNCHANGED fixed
  BY DEF Inv, Shape, Grown, StepOf
<1>2. PlanInv(c)'
  BY <1>1, QuietKeepsPlan DEF Inv
<1>3. Shape' /\ \A e \in Calls : JobInv(e)' /\ PlanInv(e)'
  BY <1>1, <1>2, CallSteps
<1>4. ASSUME NEW e \in Calls PROVE Quiet(e)
  <2>1. CASE e = c
    BY <2>1
  <2>2. CASE e # c
    BY <2>2, Unmoved DEF StepOf
  <2> QED
    BY <2>1, <2>2
<1>5. OnceInv'
  BY <1>1, <1>4, QuietKeepsOnce DEF Inv
<1> QED
  BY <1>3, <1>5 DEF Inv

-----------------------------------------------------------------------------
(***************************************************************************)
(* The actions keep the invariant.                                         *)
(***************************************************************************)

LEMMA Going ==
  ASSUME Shape, NEW c \in Calls, NEW stage, Goto(c, stage)
  PROVE  /\ job' = [e \in Calls |-> [part |-> job'[e].part, stage |-> job'[e].stage, todo |-> job'[e].todo]]
         /\ job'[c].stage = stage /\ job'[c].part = job[c].part /\ job'[c].todo = job[c].todo
         /\ \A e \in Calls : e # c => job'[e] = job[e]
  BY DEF Shape, Goto

LEMMA Ending ==
  ASSUME Shape, NEW c \in Calls, NEW result, EndJob(c, result)
  PROVE  /\ Goto(c, "ended") /\ outcome'[c] = result
         /\ outcome' = [e \in Calls |-> outcome'[e]]
         /\ \A e \in Calls : e # c => outcome'[e] = outcome[e]
  BY DEF Shape, EndJob

\* A call that fails.
LEMMA Failing ==
  ASSUME Inv, NEW c \in Calls, EndJob(c, "failed"), client'[c] = client[c], client[c] # "idle",
         request'[c] # None => GoodBatch(request'[c]), outcome[c] # "ok"
  PROVE  JobInv(c)' /\ Quiet(c)
<1>1. /\ job'[c].stage = "ended" /\ job'[c].todo = job[c].todo /\ outcome'[c] = "failed"
  BY Going, Ending DEF Inv
<1>2. JobInv(c)
  BY DEF Inv
<1>3. client'[c] # "ok" /\ client'[c] # "idle"
  BY <1>2 DEF JobInv
<1>4. JobInv(c)'
  BY <1>1, <1>2, <1>3 DEF JobInv, At
<1>5. ~Bringing(c)'
  BY <1>1 DEF Bringing, Running
<1> QED
  BY <1>4, <1>5 DEF Quiet

LEMMA InvConnect ==
  ASSUME Inv, NEW c \in Calls, Connect(c)
  PROVE  Inv'
<1>1. Shape /\ JobInv(c) /\ At(c, "connecting")
  BY DEF Inv, Connect
<1>2. outcome[c] # "ok" /\ client[c] # "idle"
  BY <1>1 DEF JobInv, At
<1>3. CASE Goto(c, "ready") /\ UNCHANGED outcome
  <2>1. StepOf(c)
    BY <1>1, <1>3, Going DEF StepOf, Shape, Connect
  <2>2. JobInv(c)' /\ Quiet(c)
    BY <1>1, <1>2, <1>3, Going DEF JobInv, Quiet, Bringing, Missing, At, Running, Connect
  <2> QED
    BY <2>1, <2>2, QuietSteps DEF Connect
<1>4. CASE EndJob(c, "failed")
  <2>1. StepOf(c)
    BY <1>1, <1>4, Going, Ending DEF StepOf, Shape, Connect
  <2>2. JobInv(c)' /\ Quiet(c)
    BY <1>1, <1>2, <1>4, Failing DEF JobInv, Connect
  <2> QED
    BY <2>1, <2>2, QuietSteps DEF Connect
<1> QED
  BY <1>3, <1>4 DEF Connect

LEMMA InvSubmitBatch ==
  ASSUME Inv, NEW c \in Calls, SubmitBatch(c)
  PROVE  Inv'
<1>1. Shape /\ JobInv(c) /\ At(c, "ready") /\ job[c].todo # <<>> /\ Goto(c, "waiting")
  BY DEF Inv, SubmitBatch
<1>2. /\ request' = [e \in Calls |-> request'[e]] /\ request'[c] = Head(job[c].todo)
      /\ \A e \in Calls : e # c => request'[e] = request[e]
  BY DEF SubmitBatch, Inv, Shape
<1>3. StepOf(c)
  BY <1>1, <1>2, Going DEF StepOf, Shape, SubmitBatch
<1>4. GoodBatch(Head(job[c].todo))
  BY <1>1, FirstAndRest DEF JobInv
<1>5. JobInv(c)' /\ Quiet(c)
  BY <1>1, <1>2, <1>4, Going DEF JobInv, Quiet, Bringing, Missing, At, Running, SubmitBatch
<1> QED
  BY <1>3, <1>5, QuietSteps DEF SubmitBatch

LEMMA InvRequestFails ==
  ASSUME Inv, NEW c \in Calls, RequestFails(c)
  PROVE  Inv'
<1>1. Shape /\ JobInv(c) /\ At(c, "waiting") /\ EndJob(c, "failed")
  BY DEF Inv, RequestFails
<1>2. outcome[c] # "ok" /\ client[c] # "idle"
  BY <1>1 DEF JobInv, At
<1>3. StepOf(c)
  BY <1>1, Going, Ending DEF StepOf, Shape, RequestFails
<1>4. JobInv(c)' /\ Quiet(c)
  BY <1>1, <1>2, Failing DEF JobInv, RequestFails
<1> QED
  BY <1>3, <1>4, QuietSteps DEF RequestFails

LEMMA InvRequestLost ==
  ASSUME Inv, NEW c \in Calls, RequestLost(c)
  PROVE  Inv'
<1>1. Shape /\ JobInv(c) /\ ~At(c, "waiting")
  BY DEF Inv, RequestLost
<1>2. /\ request' = [e \in Calls |-> request'[e]] /\ request'[c] = None
      /\ \A e \in Calls : e # c => request'[e] = request[e]
  BY DEF RequestLost, Inv, Shape
<1>3. StepOf(c)
  BY <1>1, <1>2 DEF StepOf, Shape, RequestLost
<1>4. JobInv(c)' /\ Quiet(c)
  BY <1>1, <1>2 DEF JobInv, Quiet, Bringing, Missing, At, RequestLost
<1> QED
  BY <1>3, <1>4, QuietSteps DEF RequestLost

LEMMA Progressing ==
  ASSUME Shape, NEW c \in Calls, SendProgress(c)
  PROVE  /\ job' = [e \in Calls |-> [part |-> job'[e].part, stage |-> job'[e].stage, todo |-> job'[e].todo]]
         /\ job'[c].stage = "ready" /\ job'[c].part = job[c].part /\ job'[c].todo = Tail(job[c].todo)
         /\ \A e \in Calls : e # c => job'[e] = job[e]
<1>1. /\ job = [e \in Calls |-> job[e]] /\ DOMAIN job[c] = {"part", "stage", "todo"}
      /\ \A e \in Calls :
            job[e] = [part |-> job[e].part, stage |-> job[e].stage, todo |-> job[e].todo]
  BY DEF Shape
<1>2. PICK rest : /\ rest = Tail(job[c].todo)
                  /\ job' = [job EXCEPT ![c].stage = "ready", ![c].todo = rest]
  BY DEF SendProgress
<1>3. job[c] = [part |-> job[c].part, stage |-> job[c].stage, todo |-> job[c].todo]
  BY <1>1
<1>4. job'[c].stage = "ready" /\ job'[c].part = job[c].part /\ job'[c].todo = rest
  <2>1. job = [e \in Calls |-> job[e]] /\ DOMAIN job[c] = {"part", "stage", "todo"}
    BY <1>1
  <2> QED
    BY <1>2, <2>1
<1>5. job'[c] = [part |-> job'[c].part, stage |-> job'[c].stage, todo |-> job'[c].todo]
  <2>1. job = [e \in Calls |-> job[e]]
    BY <1>1
  <2> QED
    BY <1>2, <1>3, <2>1
<1>6. job' = [e \in Calls |-> job'[e]] /\ \A e \in Calls : e # c => job'[e] = job[e]
  BY <1>1, <1>2
<1>7. ASSUME NEW e \in Calls
      PROVE  job'[e] = [part |-> job'[e].part, stage |-> job'[e].stage, todo |-> job'[e].todo]
  <2>1. CASE e = c
    BY <1>5, <2>1
  <2>2. CASE e # c
    BY <1>1, <1>6, <2>2
  <2> QED
    BY <2>1, <2>2
<1>8. job' = [e \in Calls |-> [part |-> job'[e].part, stage |-> job'[e].stage, todo |-> job'[e].todo]]
  BY <1>6, <1>7
<1> QED
  BY <1>2, <1>4, <1>6, <1>8

LEMMA InvSendProgress ==
  ASSUME Inv, NEW c \in Calls, SendProgress(c)
  PROVE  Inv'
<1>1. Shape /\ JobInv(c) /\ At(c, "reporting")
  BY DEF Inv, SendProgress
<1>2. /\ job' = [e \in Calls |-> [part |-> job'[e].part, stage |-> job'[e].stage, todo |-> job'[e].todo]]
      /\ job'[c].stage = "ready" /\ job'[c].part = job[c].part /\ job'[c].todo = Tail(job[c].todo)
      /\ \A e \in Calls : e # c => job'[e] = job[e]
  BY <1>1, Progressing
<1>3. StepOf(c)
  BY <1>1, <1>2 DEF StepOf, Shape, SendProgress
<1>4. IsList(Tail(job[c].todo)) /\ Range(Tail(job[c].todo)) \subseteq Range(job[c].todo)
  BY <1>1, FirstAndRest DEF JobInv
<1>5. JobInv(c)' /\ Quiet(c)
  BY <1>1, <1>2, <1>4 DEF JobInv, Quiet, Bringing, Missing, At, Running, SendProgress
<1> QED
  BY <1>3, <1>5, QuietSteps DEF SendProgress

LEMMA InvAllImported ==
  ASSUME Inv, NEW c \in Calls, AllImported(c)
  PROVE  Inv'
<1>1. Shape /\ JobInv(c) /\ At(c, "ready") /\ job[c].todo = <<>> /\ EndJob(c, "ok")
  BY DEF Inv, AllImported
<1>2. StepOf(c)
  BY <1>1, Going, Ending DEF StepOf, Shape, AllImported
<1>3. JobInv(c)' /\ Quiet(c)
  <2>1. /\ job'[c].stage = "ended" /\ job'[c].part = job[c].part /\ job'[c].todo = job[c].todo
        /\ outcome'[c] = "ok"
    BY <1>1, Going, Ending
  <2>2. client[c] # "idle" /\ request' = request /\ client' = client
    BY <1>1 DEF JobInv, At, AllImported
  <2> QED
    BY <1>1, <2>1, <2>2 DEF JobInv, Quiet, Bringing, Missing, At, Running
<1> QED
  BY <1>2, <1>3, QuietSteps DEF AllImported

\* Steps of the stream and its client.
LEMMA ClientSteps ==
  ASSUME Inv, NEW c \in Calls, UNCHANGED <<fixed, target, job, request, outcome>>,
         client' = [client EXCEPT ![c] = client'[c]], client'[c] # "idle",
         client'[c] = "ok" => outcome[c] = "ok"
  PROVE  Inv'
<1>1. Shape /\ JobInv(c)
  BY DEF Inv
<1>2. StepOf(c)
  BY <1>1 DEF StepOf, Shape
<1>3. JobInv(c)' /\ Quiet(c)
  BY <1>1 DEF JobInv, Quiet, Bringing, Missing, At
<1> QED
  BY <1>2, <1>3, QuietSteps

LEMMA InvStream ==
  ASSUME Inv, NEW c \in Calls, ReadProgress(c) \/ ReadOutcome(c) \/ Leave(c)
  PROVE  Inv'
<1>1. client = [e \in Calls |-> client[e]] /\ JobInv(c)
  BY DEF Inv, Shape
<1>2. CASE ReadProgress(c)
  <2>1. client' = [client EXCEPT ![c] = client'[c]] /\ client'[c] = "reading"
    BY <1>1, <1>2 DEF ReadProgress
  <2>2. client'[c] # "idle" /\ (client'[c] = "ok" => outcome[c] = "ok")
    BY <1>1, <1>2, <2>1 DEF JobInv, ReadProgress
  <2>3. UNCHANGED <<fixed, target, job, request, outcome>>
    BY <1>2 DEF ReadProgress
  <2> QED
    BY <2>1, <2>2, <2>3, ClientSteps
<1>3. CASE ReadOutcome(c)
  <2>1. client' = [client EXCEPT ![c] = client'[c]] /\ client'[c] = outcome[c]
    BY <1>1, <1>3 DEF ReadOutcome
  <2>2. client'[c] # "idle" /\ (client'[c] = "ok" => outcome[c] = "ok")
    BY <1>1, <1>3, <2>1, NoneAssumption DEF JobInv, ReadOutcome
  <2>3. UNCHANGED <<fixed, target, job, request, outcome>>
    BY <1>3 DEF ReadOutcome
  <2> QED
    BY <2>1, <2>2, <2>3, ClientSteps
<1>4. CASE Leave(c)
  <2>1. client' = [client EXCEPT ![c] = client'[c]] /\ client'[c] = "gone"
    BY <1>1, <1>4 DEF Leave
  <2>2. client'[c] # "idle" /\ (client'[c] = "ok" => outcome[c] = "ok")
    BY <1>1, <1>4, <2>1 DEF JobInv, Leave
  <2>3. UNCHANGED <<fixed, target, job, request, outcome>>
    BY <1>4 DEF Leave
  <2> QED
    BY <2>1, <2>2, <2>3, ClientSteps
<1> QED
  BY <1>2, <1>3, <1>4

LEMMA Refusing ==
  ASSUME Shape, NEW c \in Calls, Refuse(c)
  PROVE  /\ job' = [e \in Calls |-> [part |-> job'[e].part, stage |-> job'[e].stage, todo |-> job'[e].todo]]
         /\ job'[c].stage = "ended" /\ job'[c].todo = job[c].todo
         /\ \A e \in Calls : e # c => job'[e] = job[e]
<1>1. PICK p \in parts \ {"transfers"} : job' = [job EXCEPT ![c].part = p, ![c].stage = "ended"]
  BY DEF Refuse
<1>2. job = [e \in Calls |-> [part |-> job[e].part, stage |-> job[e].stage, todo |-> job[e].todo]]
  BY DEF Shape
<1>3. /\ DOMAIN job' = Calls /\ job' = [e \in Calls |-> job'[e]]
      /\ \A e \in Calls : e # c => job'[e] = job[e]
      /\ job'[c] = [part |-> p, stage |-> "ended", todo |-> job[c].todo]
  <2> DEFINE was == [part |-> job[c].part, stage |-> job[c].stage, todo |-> job[c].todo]
  <2>1. DOMAIN job = Calls /\ job[c] = was /\ DOMAIN job' = Calls
    BY <1>1, <1>2
  <2>2. job'[c] = [[job[c] EXCEPT !.part = p] EXCEPT !.stage = "ended"]
    BY <1>1, <2>1
  <2>3. job'[c] = [part |-> p, stage |-> "ended", todo |-> job[c].todo]
    BY <2>1, <2>2
  <2>4. job' = [e \in Calls |-> job'[e]]
    BY <1>1, <2>1
  <2>5. \A e \in Calls : e # c => job'[e] = job[e]
    BY <1>1, <2>1
  <2> QED
    BY <2>1, <2>3, <2>4, <2>5
<1> QED
  BY <1>2, <1>3

LEMMA InvRefuse ==
  ASSUME Inv, NEW c \in Calls, Refuse(c)
  PROVE  Inv'
<1>1. Shape /\ JobInv(c) /\ client[c] = "idle"
  BY DEF Inv, Refuse
<1>2. /\ job' = [e \in Calls |-> [part |-> job'[e].part, stage |-> job'[e].stage, todo |-> job'[e].todo]]
      /\ job'[c].stage = "ended" /\ job'[c].todo = job[c].todo
      /\ \A e \in Calls : e # c => job'[e] = job[e]
  BY <1>1, Refusing
<1>3. /\ client' = [e \in Calls |-> client'[e]] /\ client'[c] = "failed"
      /\ \A e \in Calls : e # c => client'[e] = client[e]
  BY <1>1 DEF Refuse, Shape
<1>4. StepOf(c)
  BY <1>1, <1>2, <1>3 DEF StepOf, Shape, Refuse
<1>5. outcome'[c] # "ok" /\ request' = request /\ outcome' = outcome
  BY <1>1, NoneAssumption DEF JobInv, Refuse
<1>6. JobInv(c)' /\ Quiet(c)
  BY <1>1, <1>2, <1>3, <1>5 DEF JobInv, Quiet, Bringing, Missing, At, Running
<1> QED
  BY <1>4, <1>6, QuietSteps DEF Refuse

LEMMA PlansAreLists ==
  ASSUME Shape, NEW part \in parts, NEW plan \in Plans(part)
  PROVE  /\ PlanLists(plan)
         /\ part # "transfers" => \A id \in DOMAIN source.accounts :
                                     \E b \in Range(plan.regular) : b.id = id
<1>1. IsLedger(source) /\ IsList(source.transfers) /\ part \in Parts
  BY SourcesAssumption, AccountsOfLedgers DEF Shape, Parts
<1>2. CASE part = "transfers"
  <2>1. plan \in FromCsv(source.transfers, cutoff)
    BY <1>2 DEF Plans
  <2> QED
    BY <1>1, <1>2, <2>1, CsvPlans
<1>3. CASE part # "transfers"
  <2>1. plan \in {PlanOf(source, cutoff), AccountsOnly(PlanOf(source, cutoff))}
    BY <1>1, <1>3 DEF Plans, Parts
  <2> QED
    BY <1>1, <2>1, LedgerPlans
<1> QED
  BY <1>2, <1>3

LEMMA InvStartImport ==
  ASSUME Inv, NEW c \in Calls, StartImport(c)
  PROVE  Inv'
<1>1. Shape /\ JobInv(c) /\ client[c] = "idle" /\ UNCHANGED <<fixed, target, request, outcome>>
  BY DEF Inv, StartImport
<1>p. PICK part \in parts :
         /\ part = "transfers" => source.transfers # <<>>
         /\ \E plan \in Plans(part) :
               job' = [job EXCEPT ![c] = [part |-> part, stage |-> "connecting", todo |-> Batches(plan)]]
  BY DEF StartImport
<1>2. PICK plan \in Plans(part) :
         job' = [job EXCEPT ![c] = [part |-> part, stage |-> "connecting", todo |-> Batches(plan)]]
  BY <1>p
<1>3. /\ job' = [e \in Calls |-> [part |-> job'[e].part, stage |-> job'[e].stage, todo |-> job'[e].todo]]
      /\ job'[c].stage = "connecting" /\ job'[c].part = part /\ job'[c].todo = Batches(plan)
      /\ \A e \in Calls : e # c => job'[e] = job[e]
  BY <1>1, <1>2 DEF Shape
<1>4. /\ client' = [e \in Calls |-> client'[e]] /\ client'[c] = "reading"
      /\ \A e \in Calls : e # c => client'[e] = client[e]
  BY <1>1 DEF StartImport, Shape
<1>5. StepOf(c)
  BY <1>1, <1>3, <1>4 DEF StepOf, Shape
<1>6. IsList(Batches(plan)) /\ \A b \in Range(Batches(plan)) : GoodBatch(b)
  BY <1>1, PlansAreLists, BatchesCover
<1>7. JobInv(c)'
  BY <1>1, <1>3, <1>4, <1>6, NoneAssumption DEF JobInv, At
<1>8. Missing(c)' = Batches(plan)
  BY <1>3 DEF Missing, At
<1>9. PlanInv(c)'
  <2>1. source' = source /\ parts' = parts /\ cutoff' = cutoff
    BY <1>1 DEF fixed
  <2>2. Plans(job[c].part)' = Plans(part)
    BY <1>3, <2>1 DEF Plans
  <2>3. \A b \in Range(Batches(plan)) : b \in Range(Missing(c)')
    BY <1>8
  <2> QED
    BY <1>p, <1>2, <1>3, <2>1, <2>2, <2>3 DEF PlanInv
<1>10. LedgerShape(target') /\ Grown(target, target')
  BY <1>1 DEF Shape, Grown
<1>11. Shape' /\ \A e \in Calls : JobInv(e)' /\ PlanInv(e)'
  BY <1>5, <1>7, <1>9, <1>10, CallSteps
<1>12. ASSUME NEW p, NEW kind, NEW id, InPlans(p, kind, id) PROVE ~Brought(c, p, kind, id)'
  <2> SUFFICES ASSUME Brought(c, p, kind, id)' PROVE FALSE
    OBVIOUS
  <2>1. job'[c].part = p /\ \A b \in Range(Missing(c)') : ~IsOf(kind, id, b)
    BY DEF Brought
  <2>2. plan \in Plans(p)
    BY <1>3, <2>1
  <2>3. PICK b \in Range(Batches(plan)) : IsOf(kind, id, b)
    BY <1>12, <2>2 DEF InPlans
  <2> QED
    BY <1>8, <2>1, <2>3
<1>13. ASSUME NEW e \in Calls, e # c PROVE Quiet(e)
  BY <1>5, <1>13, Unmoved DEF StepOf
<1>14. OnceInv'
  BY <1>1, <1>10, <1>12, <1>13, QuietKeepsOnce DEF Inv
<1> QED
  BY <1>11, <1>14 DEF Inv

LEMMA InvTargetAnswers ==
  ASSUME Inv, NEW c \in Calls, TargetAnswers(c)
  PROVE  Inv'
<1> DEFINE b == request[c]
<1>1. /\ Shape /\ JobInv(c) /\ PlanInv(c) /\ b # None /\ target' = Applied(b)
      /\ UNCHANGED fixed /\ client' = client
  BY DEF Inv, TargetAnswers
<1>2. /\ request' = [e \in Calls |-> request'[e]] /\ request'[c] = None
      /\ \A e \in Calls : e # c => request'[e] = request[e]
  BY <1>1 DEF TargetAnswers, Shape
<1>3. GoodBatch(b)
  BY <1>1 DEF JobInv
<1>4. LedgerShape(target') /\ Grown(target, target')
  BY <1>1, <1>3, BatchApplied DEF Shape
<1>5. /\ client' = [e \in Calls |-> client'[e]] /\ client'[c] = client[c]
      /\ \A e \in Calls : e # c => client'[e] = client[e]
  BY <1>1 DEF Shape
<1>6. ASSUME StepOf(c), JobInv(c)', Quiet(c) PROVE Inv'
  <2>1. PlanInv(c)'
    BY <1>1, <1>4, <1>6, QuietKeepsPlan
  <2>2. Shape' /\ \A e \in Calls : JobInv(e)' /\ PlanInv(e)'
    BY <1>4, <1>6, <2>1, CallSteps
  <2>3. ASSUME NEW e \in Calls PROVE Quiet(e)
    BY <1>6, Unmoved DEF StepOf
  <2>4. OnceInv'
    BY <1>1, <1>4, <2>3, QuietKeepsOnce DEF Inv
  <2> QED
    BY <2>2, <2>4 DEF Inv
<1>7. CASE ~At(c, "waiting")
  <2>1. UNCHANGED <<job, outcome>>
    BY <1>7 DEF TargetAnswers
  <2>2. StepOf(c)
    BY <1>1, <1>2, <1>5, <2>1 DEF StepOf, Shape
  <2>3. JobInv(c)' /\ Quiet(c)
    BY <1>1, <1>2, <1>7, <2>1 DEF JobInv, Quiet, Bringing, Missing, At
  <2> QED
    BY <1>6, <2>2, <2>3
<1>8. CASE At(c, "waiting") /\ Size(target') # Size(target) + Len(b.objects)
  <2>1. EndJob(c, "failed")
    BY <1>8 DEF TargetAnswers
  <2>2. StepOf(c)
    BY <1>1, <1>2, <1>5, <2>1, Going, Ending DEF StepOf
  <2>3. client[c] # "idle" /\ outcome[c] # "ok"
    BY <1>1, <1>8 DEF JobInv, At
  <2>4. JobInv(c)' /\ Quiet(c)
    BY <1>2, <1>5, <2>1, <2>3, Failing
  <2> QED
    BY <1>6, <2>2, <2>4
<1>9. CASE At(c, "waiting") /\ Size(target') = Size(target) + Len(b.objects)
  <2>1. Goto(c, "reporting") /\ outcome' = outcome
    BY <1>9 DEF TargetAnswers
  <2>2. /\ job' = [e \in Calls |-> [part |-> job'[e].part, stage |-> job'[e].stage, todo |-> job'[e].todo]]
        /\ job'[c].stage = "reporting" /\ job'[c].part = job[c].part /\ job'[c].todo = job[c].todo
        /\ \A e \in Calls : e # c => job'[e] = job[e]
    BY <1>1, <2>1, Going
  <2>3. StepOf(c)
    BY <1>1, <1>2, <1>5, <2>1, <2>2 DEF StepOf, Shape
  <2>4. job[c].todo # <<>> /\ b = Head(job[c].todo) /\ IsList(job[c].todo)
    BY <1>1, <1>9 DEF JobInv
  <2>5. JobInv(c)'
    BY <1>1, <1>2, <1>5, <1>9, <2>1, <2>2 DEF JobInv, At
  <2>6. Missing(c) = job[c].todo /\ Missing(c)' = Tail(job[c].todo)
    BY <1>9, <2>2 DEF Missing, At
  <2>7. Range(Missing(c)) = {b} \cup Range(Missing(c)')
    BY <2>4, <2>6, FirstAndRest
  <2>8. /\ Taken(b, target')
        /\ \A id \in IdsIn(b) : ~Holds(target, b.kind, id) /\ Holds(target', b.kind, id)
    BY <1>1, <1>3, <1>9, BatchApplied DEF Shape
  <2> HIDE DEF b
  <2>9. Bringing(c)
    BY <1>9 DEF Bringing, At, Running
  <2>10. PlanInv(c)'
    <3>1. /\ job[c].part \in parts
          /\ job[c].part = "transfers" => source.transfers # <<>>
          /\ \E plan \in Plans(job[c].part) : \A x \in Range(Batches(plan)) :
                Taken(x, target) \/ x \in Range(Missing(c))
      BY <1>1, <2>9 DEF PlanInv
    <3>2. PICK plan \in Plans(job[c].part) : \A x \in Range(Batches(plan)) :
             Taken(x, target) \/ x \in Range(Missing(c))
      BY <3>1
    <3>3. \A x : Taken(x, target) => Taken(x, target')
      BY <1>4, GrownKeeps
    <3>4. \A x \in Range(Batches(plan)) : Taken(x, target') \/ x \in Range(Missing(c)')
      BY <2>7, <2>8, <3>2, <3>3
    <3>5. source' = source /\ parts' = parts /\ cutoff' = cutoff
      BY <1>1 DEF fixed
    <3>6. Plans(job[c].part)' = Plans(job[c].part)
      BY <2>2, <3>5 DEF Plans
    <3> QED
      BY <2>2, <3>1, <3>4, <3>5, <3>6 DEF PlanInv
  <2>11. Shape' /\ \A e \in Calls : JobInv(e)' /\ PlanInv(e)'
    BY <1>4, <2>3, <2>5, <2>10, CallSteps
  <2>12. OnceInv'
    <3> SUFFICES ASSUME NEW part, NEW kind, NEW id, InPlans(part, kind, id)',
                        NEW d \in Calls, Brought(d, part, kind, id)'
                 PROVE  /\ Holds(target', kind, id)
                        /\ \A e \in Calls : Brought(e, part, kind, id)' => d = e
      BY DEF OnceInv
    <3>1. InPlans(part, kind, id)
      BY <1>1, SamePlans DEF InPlans
    <3>2. ASSUME NEW e \in Calls, e # c, Brought(e, part, kind, id)'
          PROVE  Brought(e, part, kind, id)
      <4>1. Quiet(e)
        BY <2>3, <3>2, Unmoved DEF StepOf
      <4> QED
        BY <3>2, <4>1 DEF Brought, Quiet
    <3>3. ASSUME Brought(c, part, kind, id)'
          PROVE  \/ Brought(c, part, kind, id)
                 \/ ~Holds(target, kind, id) /\ Holds(target', kind, id)
      <4>1. job[c].part = part /\ \A x \in Range(Missing(c)') : ~IsOf(kind, id, x)
        BY <2>2, <3>3 DEF Brought
      <4>2. CASE IsOf(kind, id, b)
        BY <2>8, <4>2 DEF IsOf
      <4>3. CASE ~IsOf(kind, id, b)
        BY <2>7, <2>9, <4>1, <4>3 DEF Brought
      <4> QED
        BY <4>2, <4>3
    <3>4. \A e, f \in Calls : Brought(e, part, kind, id) =>
             Holds(target, kind, id) /\ (Brought(f, part, kind, id) => e = f)
      BY <3>1 DEF Inv, OnceInv
    <3>5. Holds(target, kind, id) => Holds(target', kind, id)
      BY <1>4, GrownKeeps
    <3>6. Holds(target', kind, id)
      BY <3>2, <3>3, <3>4, <3>5
    <3>7. ASSUME NEW e \in Calls, Brought(e, part, kind, id)' PROVE d = e
      BY <3>2, <3>3, <3>4, <3>7
    <3> QED
      BY <3>6, <3>7
  <2> QED
    BY <2>11, <2>12 DEF Inv
<1> QED
  BY <1>7, <1>8, <1>9

LEMMA InvNodeDies ==
  ASSUME Inv, NodeDies
  PROVE  Inv'
<1>1. Shape /\ UNCHANGED <<fixed, target, request, outcome>>
  BY DEF Inv, NodeDies
<1>2. ASSUME NEW c \in Calls
      PROVE  /\ job'[c].part = job[c].part /\ job'[c].todo = job[c].todo
             /\ job'[c].stage = IF job[c].stage \in {"new", "ended"} THEN job[c].stage ELSE "dead"
             /\ job'[c] = [part |-> job'[c].part, stage |-> job'[c].stage, todo |-> job'[c].todo]
             /\ client'[c] = IF client[c] = "reading" THEN "gone" ELSE client[c]
  <2>1. job[c] = [part |-> job[c].part, stage |-> job[c].stage, todo |-> job[c].todo]
    BY <1>1 DEF Shape
  <2>2. /\ job'[c] = IF job[c].stage \in {"new", "ended"} THEN job[c]
                     ELSE [job[c] EXCEPT !.stage = "dead"]
        /\ client'[c] = IF client[c] = "reading" THEN "gone" ELSE client[c]
    BY DEF NodeDies
  <2> QED
    BY <2>1, <2>2
<1>3. job' = [c \in Calls |-> job'[c]] /\ client' = [c \in Calls |-> client'[c]]
  BY DEF NodeDies
<1>4. Shape'
  <2>1. job' = [c \in Calls |-> [part |-> job'[c].part, stage |-> job'[c].stage, todo |-> job'[c].todo]]
    BY <1>2, <1>3
  <2>2. source' = source /\ cutoff' = cutoff /\ parts' = parts
    BY <1>1 DEF fixed
  <2> QED
    BY <1>1, <1>3, <2>1, <2>2 DEF Shape
<1>5. ASSUME NEW c \in Calls PROVE JobInv(c)' /\ Quiet(c) /\ PlanInv(c)'
  <2>1. JobInv(c) /\ PlanInv(c)
    BY DEF Inv
  <2>2. JobInv(c)'
    BY <1>1, <1>2, <2>1 DEF JobInv, At
  <2>3. Quiet(c)
    BY <1>1, <1>2, <2>1 DEF Quiet, Bringing, Missing, JobInv, At, Running
  <2>4. Grown(target, target') /\ UNCHANGED fixed
    BY <1>1 DEF Grown
  <2> QED
    BY <2>1, <2>2, <2>3, <2>4, QuietKeepsPlan
<1>6. OnceInv'
  <2>1. Grown(target, target') /\ UNCHANGED fixed
    BY <1>1 DEF Grown
  <2> QED
    BY <1>5, <2>1, QuietKeepsOnce DEF Inv
<1> QED
  BY <1>4, <1>5, <1>6 DEF Inv

-----------------------------------------------------------------------------
(***************************************************************************)
(* What two plans of one CSV file have in common.                          *)
(***************************************************************************)

\* Every import of the same CSV file creates a transfer with some same id.
LEMMA CsvPlansOverlap ==
  ASSUME NEW s, IsList(s), s # <<>>, \A t \in Range(s) : t.ts \in Nat, NEW c \in Nat
  PROVE  \E id : \A plan \in FromCsv(s, c) :
            \E x \in Range(plan.synthetic) \cup Range(plan.windowed) : x.id = id
<1>1. ASSUME NEW t, IsList(t), Len(t) > 0, NEW floor,
             NEW q, q = DedupeTimestamps(SortedByTimestamp(t), floor)
      PROVE  q[1] \in Range(q)
  <2>1. IsList(q) /\ Len(q) = Len(t) /\ Len(t) \in Nat
    BY <1>1, SortedLists, Deduplicated, ListParts
  <2>2. 1 \in 1..Len(q)
    BY <1>1, <2>1
  <2> QED
    BY <2>1, <2>2, ListParts
<1>2. CASE c = 0
  <2>1. PICK q : q = DedupeTimestamps(SortedByTimestamp(s), 0)
    OBVIOUS
  <2>2. \A plan \in FromCsv(s, c) : plan.windowed = q
    BY <1>2, <2>1 DEF FromCsv, CsvPlan
  <2>3. Len(s) > 0
    <3>1. Len(s) \in Nat /\ Len(s) # 0
      BY DEF IsList
    <3> QED
      BY <3>1
  <2>4. q[1] \in Range(q)
    BY <1>1, <2>1, <2>3
  <2> QED
    BY <2>2, <2>4
<1>3. CASE c # 0 /\ Range(Until(s, c)) # {}
  <2> DEFINE pre == Until(s, c)
             R == {PairOf(t) : t \in Range(pre)}
  <2>1. ASSUME NEW plan \in FromCsv(s, c)
        PROVE  \E x \in Range(plan.synthetic) \cup Range(plan.windowed) : x.id = 1
    <3>0. PICK pairs \in SetToSeqs(R) :
             plan = CsvPlan(Aggregated(pre, pairs, c),
                            DedupeTimestamps(SortedByTimestamp(Since(s, c)), Minus(c, 1)))
      BY <1>3, CsvParts
    <3>1. pairs \in SetToSeqs(R) /\ plan.synthetic = Aggregated(pre, pairs, c)
      BY <3>0 DEF CsvPlan
    <3>2. IsList(pre)
      BY SplitLists
    <3>3. IsList(pairs) /\ IsFiniteSet(R)
      BY <3>1, <3>2, PairLists
    <3>4. R # {}
      BY <1>3
    <3> HIDE DEF pre, R
    <3>5. Cardinality(R) \in Nat \ {0}
      BY <3>3, <3>4, FS_EmptySet, FS_CardinalityType
    <3>6. DOMAIN pairs = 1..Cardinality(R)
      BY <3>1 DEF SetToSeqs
    <3>7. 1 \in DOMAIN pairs
      BY <3>5, <3>6
    <3>8. PICK x : x = plan.synthetic[1] /\ 1 \in DOMAIN plan.synthetic /\ x.id = 1
      BY <3>1, <3>7 DEF Aggregated, Synthetic
    <3>9. x \in Range(plan.synthetic)
      BY <3>8 DEF Range
    <3> QED
      BY <3>8, <3>9
  <2> QED
    BY <2>1
<1>4. CASE c # 0 /\ Range(Until(s, c)) = {}
  <2>1. PICK q : q = DedupeTimestamps(SortedByTimestamp(Since(s, c)), Minus(c, 1))
    OBVIOUS
  <2>2. ASSUME NEW plan \in FromCsv(s, c) PROVE plan.windowed = q
    <3>1. PICK synthetic : plan = CsvPlan(synthetic, q)
      BY <1>4, <2>1, CsvParts
    <3> QED
      BY <3>1 DEF CsvPlan
  <2>3. IsList(Since(s, c)) /\ Len(Since(s, c)) > 0
    BY <1>4, SplitLists, SplitKeepsSome
  <2>4. q[1] \in Range(q)
    BY <1>1, <2>1, <2>3
  <2> QED
    BY <2>2, <2>4
<1> QED
  BY <1>2, <1>3, <1>4

-----------------------------------------------------------------------------

LEMMA InitInv == Init => Inv
<1> SUFFICES ASSUME Init PROVE Inv
  OBVIOUS
<1>1. LedgerShape(target)
  <2>1. /\ DOMAIN EmptyLedger.accounts = {} /\ EmptyLedger.transfers = <<>>
        /\ EmptyLedger = [accounts |-> EmptyLedger.accounts, transfers |-> EmptyLedger.transfers]
    BY DEF EmptyLedger
  <2>2. LedgerShape(EmptyLedger)
    BY <2>1, NoList, FS_EmptySet DEF LedgerShape
  <2> DEFINE plan == AccountsOnly(PlanOf(source, cutoff))
  <2>3. IsLedger(source)
    BY SourcesAssumption DEF Init
  <2>4. PlanLists(plan)
    BY <2>3, LedgerPlans
  <2>5. IsList(plan.regular)
    BY <2>4 DEF PlanLists
  <2>6. LedgerShape(CreateAccounts(EmptyLedger, plan.regular))
    BY <2>2, <2>5, AccountsTaken
  <2> QED
    BY <2>2, <2>6 DEF Init, Prepared
<1>2. Shape
  BY <1>1 DEF Init, Shape
<1>3. ASSUME NEW c \in Calls
      PROVE  /\ job[c].stage = "new" /\ job[c].todo = <<>> /\ request[c] = None
             /\ outcome[c] = None /\ client[c] = "idle"
  BY DEF Init
<1>4. ASSUME NEW c \in Calls PROVE JobInv(c) /\ ~Bringing(c)
  BY <1>3, NoList, NoneAssumption DEF JobInv, Bringing, Running, At
<1> QED
  BY <1>2, <1>4 DEF Inv, PlanInv, OnceInv, Brought

LEMMA StepInv == Inv /\ [Next]_vars => Inv'
<1> SUFFICES ASSUME Inv, [Next]_vars PROVE Inv'
  OBVIOUS
<1>1. CASE NodeDies
  BY <1>1, InvNodeDies
<1>2. ASSUME NEW c \in Calls,
             \/ Refuse(c) \/ StartImport(c) \/ JobStep(c)
             \/ TargetAnswers(c) \/ RequestFails(c) \/ RequestLost(c)
             \/ ReadProgress(c) \/ ReadOutcome(c) \/ Leave(c)
      PROVE  Inv'
  BY <1>2, InvRefuse, InvStartImport, InvConnect, InvSubmitBatch, InvSendProgress, InvAllImported,
     InvTargetAnswers, InvRequestFails, InvRequestLost, InvStream DEF JobStep
<1>3. CASE UNCHANGED vars
  <2>1. /\ UNCHANGED fixed /\ source' = source /\ cutoff' = cutoff /\ parts' = parts
        /\ target' = target /\ job' = job
        /\ request' = request /\ outcome' = outcome /\ client' = client
    BY <1>3 DEF vars, fixed
  <2>2. Shape' /\ Grown(target, target')
    BY <2>1 DEF Inv, Shape, Grown
  <2>3. ASSUME NEW c \in Calls PROVE JobInv(c)' /\ PlanInv(c)' /\ Quiet(c)
    BY <2>1, <2>2, Unmoved, QuietKeepsPlan DEF Inv
  <2>4. OnceInv'
    BY <2>1, <2>2, <2>3, QuietKeepsOnce DEF Inv
  <2> QED
    BY <2>2, <2>3, <2>4 DEF Inv
<1> QED
  BY <1>1, <1>2, <1>3 DEF Next

LEMMA Always == Spec => []Inv
<1> QED
  BY InitInv, StepInv, PTL DEF Spec

\* What a call that succeeded has brought.
LEMMA Successes ==
  ASSUME Inv, NEW c \in Calls, client[c] = "ok"
  PROVE  /\ job[c].part \in parts /\ Bringing(c) /\ Range(Missing(c)) = {}
         /\ job[c].part = "transfers" => source.transfers # <<>>
         /\ \E plan \in Plans(job[c].part) : \A b \in Range(Batches(plan)) : Taken(b, target)
<1>1. JobInv(c) /\ PlanInv(c)
  BY DEF Inv
<1>2. outcome[c] = "ok" /\ At(c, "ended") /\ job[c].todo = <<>>
  BY <1>1 DEF JobInv
<1>3. Range(Missing(c)) = {} /\ Bringing(c)
  BY <1>2, NoList DEF Missing, At, Bringing
<1> QED
  BY <1>1, <1>3 DEF PlanInv

\* Success means that the target took every object of a plan of the call's part,
\* in all phases and batches (import_all_with_progress, and the outcome channel of
\* execute_migration and import_csv_transfers).
THEOREM SuccessMeansEverythingWasTaken == Spec => []SuccessMeansImported
<1>1. ASSUME Inv, NEW c \in Calls, client[c] = "ok"
      PROVE  \E plan \in Plans(job[c].part) : IsIn(plan)
  <2>1. PICK plan \in Plans(job[c].part) : \A b \in Range(Batches(plan)) : Taken(b, target)
    BY <1>1, Successes
  <2>2. PlanLists(plan)
    BY <1>1, Successes, PlansAreLists DEF Inv
  <2>3. /\ \A x \in Range(plan.genesis) \cup Range(plan.regular) :
              \E b \in Range(Batches(plan)) : Carries(b, "accounts", x)
        /\ \A x \in Range(plan.synthetic) \cup Range(plan.windowed) :
              \E b \in Range(Batches(plan)) : Carries(b, "transfers", x)
    BY <2>2, BatchesCover
  <2>4. \A x \in Range(plan.genesis) \cup Range(plan.regular) : x.id \in DOMAIN target.accounts
    BY <2>1, <2>3 DEF Carries, Taken, IdsIn
  <2>5. \A x \in Range(plan.synthetic) \cup Range(plan.windowed) : x \in Range(target.transfers)
    BY <2>1, <2>3 DEF Carries, Taken
  <2>6. IsIn(plan)
    BY <2>4, <2>5 DEF IsIn
  <2> QED
    BY <2>6
<1>2. Inv => SuccessMeansImported
  BY <1>1 DEF SuccessMeansImported
<1> QED
  BY <1>2, Always, PTL

\* When a call that imports accounts has reported success, every account of the
\* source is in the target.
THEOREM SuccessMeansAccountsAreThere ==
  Spec => [](\A c \in Calls :
               client[c] = "ok" /\ job[c].part # "transfers" => AccountsAreThere)
<1>1. ASSUME Inv, NEW c \in Calls, client[c] = "ok", job[c].part # "transfers",
             NEW id \in DOMAIN source.accounts
      PROVE  id \in DOMAIN target.accounts
  <2>1. PICK plan \in Plans(job[c].part) : \A b \in Range(Batches(plan)) : Taken(b, target)
    BY <1>1, Successes
  <2>2. PlanLists(plan) /\ \E x \in Range(plan.regular) : x.id = id
    BY <1>1, Successes, PlansAreLists DEF Inv
  <2>3. PICK x \in Range(plan.regular) : x.id = id
    BY <2>2
  <2>4. PICK b \in Range(Batches(plan)) : Carries(b, "accounts", x)
    BY <2>2, BatchesCover
  <2> QED
    BY <2>1, <2>3, <2>4 DEF Carries, Taken, IdsIn
<1>2. Inv => \A c \in Calls : client[c] = "ok" /\ job[c].part # "transfers" => AccountsAreThere
  BY <1>1 DEF AccountsAreThere
<1> QED
  BY <1>2, Always, PTL

\* Of all calls that import the same part, however they overlap and are repeated,
\* one at most reports success; of a source without accounts there is nothing to
\* tell two calls by.
THEOREM SuccessIsReportedOnce ==
  Spec => [](\A c, d \in Calls :
               client[c] = "ok" /\ client[d] = "ok" /\ job[c].part = job[d].part =>
                 \/ c = d
                 \/ job[c].part # "transfers" /\ DOMAIN source.accounts = {})
<1>1. ASSUME Inv, NEW c \in Calls, NEW d \in Calls, client[c] = "ok", client[d] = "ok",
             job[c].part = job[d].part, NEW kind, NEW id, InPlans(job[c].part, kind, id)
      PROVE  c = d
  <2>1. Brought(c, job[c].part, kind, id) /\ Brought(d, job[c].part, kind, id)
    BY <1>1, Successes DEF Brought
  <2> QED
    BY <1>1, <2>1 DEF Inv, OnceInv
<1>2. ASSUME Inv, NEW c \in Calls, client[c] = "ok", job[c].part # "transfers",
             NEW account \in DOMAIN source.accounts
      PROVE  InPlans(job[c].part, "accounts", account)
  <2>1. ASSUME NEW plan \in Plans(job[c].part)
        PROVE  \E b \in Range(Batches(plan)) : IsOf("accounts", account, b)
    <3>1. PlanLists(plan) /\ \E x \in Range(plan.regular) : x.id = account
      BY <1>2, Successes, PlansAreLists DEF Inv
    <3>2. PICK x \in Range(plan.regular) : x.id = account
      BY <3>1
    <3>3. PICK b \in Range(Batches(plan)) : Carries(b, "accounts", x)
      BY <3>1, BatchesCover
    <3> QED
      BY <3>2, <3>3 DEF Carries, IsOf, IdsIn
  <2> QED
    BY <2>1 DEF InPlans
<1>3. ASSUME Inv, NEW c \in Calls, client[c] = "ok", job[c].part = "transfers"
      PROVE  \E id : InPlans(job[c].part, "transfers", id)
  <2>1. /\ source \in Sources /\ cutoff \in Nat /\ IsLedger(source) /\ IsList(source.transfers)
        /\ source.transfers # <<>> /\ \A t \in Range(source.transfers) : t.ts \in Nat
    BY <1>3, Successes, SourcesAssumption, AccountsOfLedgers DEF Inv, Shape, IsLedger
  <2>2. PICK id : \A plan \in FromCsv(source.transfers, cutoff) :
           \E x \in Range(plan.synthetic) \cup Range(plan.windowed) : x.id = id
    BY <2>1, CsvPlansOverlap
  <2>3. ASSUME NEW plan \in Plans(job[c].part)
        PROVE  \E b \in Range(Batches(plan)) : IsOf("transfers", id, b)
    <3>1. plan \in FromCsv(source.transfers, cutoff)
      BY <1>3 DEF Plans
    <3>2. PICK x \in Range(plan.synthetic) \cup Range(plan.windowed) : x.id = id
      BY <2>2, <3>1
    <3>3. PlanLists(plan)
      BY <2>1, <3>1, CsvPlans
    <3>4. PICK b \in Range(Batches(plan)) : Carries(b, "transfers", x)
      BY <3>3, BatchesCover
    <3> QED
      BY <3>2, <3>4 DEF Carries, IsOf, IdsIn
  <2> QED
    BY <2>3 DEF InPlans
<1>4. Inv => \A c, d \in Calls :
               client[c] = "ok" /\ client[d] = "ok" /\ job[c].part = job[d].part =>
                 \/ c = d
                 \/ job[c].part # "transfers" /\ DOMAIN source.accounts = {}
  <2> SUFFICES ASSUME Inv, NEW c \in Calls, NEW d \in Calls, client[c] = "ok", client[d] = "ok",
                      job[c].part = job[d].part,
                      ~(job[c].part # "transfers" /\ DOMAIN source.accounts = {})
               PROVE  c = d
    OBVIOUS
  <2>1. CASE job[c].part = "transfers"
    BY <1>1, <1>3, <2>1
  <2>2. CASE job[c].part # "transfers"
    <3>1. PICK account : account \in DOMAIN source.accounts
      BY <2>2
    <3> QED
      BY <1>1, <1>2, <2>2, <3>1
  <2> QED
    BY <2>1, <2>2
<1> QED
  BY <1>4, Always, PTL

-----------------------------------------------------------------------------

-----------------------------------------------------------------------------
(***************************************************************************)
(* CSV files: their transfers rounded, aggregated before the cutoff, and   *)
(* made later after it; on top of accounts that are there already.         *)
(***************************************************************************)

\* A timestamp rounded to a multiple of g, to the next one or to the last one.
RoundedTo(r, t, g) ==
  r \in Nat /\ r < t + g /\ t < r + g /\ \E q \in Nat : r = g * q
Rounds(r, t, g, up) == RoundedTo(r, t, g) /\ IF up THEN t <= r ELSE r <= t

LEMMA RoundedUp ==
  ASSUME NEW t \in Nat, NEW g \in Nat \ {0}, NEW r, r = ((t + g - 1) \div g) * g
  PROVE  Rounds(r, t, g, TRUE)
<1>1. PICK q \in Nat : q = (t + g - 1) \div g /\ g * q <= t + g - 1 /\ t + g - 1 < g * q + g
  <2>1. PICK m \in Nat : m = t + g - 1
    OBVIOUS
  <2>2. m \div g \in Nat /\ g * (m \div g) <= m /\ m < g * (m \div g) + g
    OBVIOUS
  <2> QED
    BY <2>1, <2>2
<1>2. PICK y \in Nat : y = g * q /\ y <= t + g - 1 /\ t + g - 1 < y + g
  BY <1>1
<1>3. r = g * q
  BY <1>1
<1> QED
  BY <1>2, <1>3 DEF Rounds, RoundedTo

LEMMA RoundedDown ==
  ASSUME NEW t \in Nat, NEW g \in Nat \ {0}, NEW r, r = (t \div g) * g
  PROVE  Rounds(r, t, g, FALSE)
<1>1. PICK q \in Nat : q = t \div g /\ g * q <= t /\ t < g * q + g
  <2>1. t \div g \in Nat /\ g * (t \div g) <= t /\ t < g * (t \div g) + g
    OBVIOUS
  <2> QED
    BY <2>1
<1>2. PICK y \in Nat : y = g * q /\ y <= t /\ t < y + g
  BY <1>1
<1>3. r = g * q
  BY <1>1
<1>4. r \in Nat /\ r <= t /\ r < t + g /\ t < r + g
  BY <1>2, <1>3
<1>5. RoundedTo(r, t, g)
  BY <1>3, <1>4 DEF RoundedTo
<1> QED
  BY <1>4, <1>5 DEF Rounds

LEMMA RoundedInOrder ==
  ASSUME NEW t \in Nat, NEW u \in Nat, t <= u, NEW g \in Nat \ {0}, NEW up \in BOOLEAN,
         NEW r, Rounds(r, t, g, up), NEW x, Rounds(x, u, g, up)
  PROVE  r <= x
<1>1. PICK q \in Nat, p \in Nat : r = g * q /\ x = g * p
  BY DEF Rounds, RoundedTo
<1>2. r \in Nat /\ x \in Nat /\ r < x + g
  <2>1. r \in Nat /\ x \in Nat /\ r < t + g /\ u < x + g
    BY DEF Rounds, RoundedTo
  <2>2. CASE up
    BY <2>1, <2>2 DEF Rounds
  <2>3. CASE ~up
    BY <2>1, <2>3 DEF Rounds
  <2> QED
    BY <2>2, <2>3
<1> SUFFICES ASSUME x < r PROVE FALSE
  BY <1>2
<1>3. p < q
  <2> SUFFICES ASSUME q <= p PROVE FALSE
    OBVIOUS
  <2>1. g * q <= g * p
    OBVIOUS
  <2> QED
    BY <1>1, <1>2, <2>1
<1>4. g * p + g <= g * q
  <2>1. PICK d \in Nat : q = p + 1 + d
    <3>1. q - p - 1 \in Nat /\ q = p + 1 + (q - p - 1)
      BY <1>3
    <3> QED
      BY <3>1
  <2>2. g * (p + 1 + d) = g * p + g + g * d /\ g * d \in Nat /\ g * p \in Nat
    OBVIOUS
  <2> QED
    BY <2>1, <2>2
<1> QED
  BY <1>1, <1>2, <1>4

\* A stable sort leaves a list as it is in which they do not decrease.
LEMMA SortedAlready ==
  ASSUME NEW s, IsList(s), Ordered(s)
  PROVE  SortedByTimestamp(s) = s
<1>1. PICK n \in Nat : n = Len(s) /\ DOMAIN s = 1..n
  BY ListParts
<1> DEFINE Comes(i, j) == \/ s[i].ts < s[j].ts
                          \/ s[i].ts = s[j].ts /\ i < j
           Ranked(j) == Cardinality({i \in DOMAIN s : Comes(i, j)})
<1>2. ASSUME NEW j \in 1..n PROVE Ranked(j) = j - 1
  <2>1. \A i \in 1..n : Comes(i, j) <=> i < j
    BY <1>1 DEF Ordered
  <2>2. {i \in DOMAIN s : Comes(i, j)} = 1..(j - 1)
    <3> HIDE DEF Comes
    <3> QED
      BY <1>1, <2>1
  <2>3. 1 \in Int /\ j - 1 \in Int
    OBVIOUS
  <2>4. Cardinality(1..(j - 1)) = IF 1 > j - 1 THEN 0 ELSE j - 1 - 1 + 1
    BY <2>3, FS_Interval
  <2>5. (IF 1 > j - 1 THEN 0 ELSE j - 1 - 1 + 1) = j - 1
    OBVIOUS
  <2> QED
    BY <2>2, <2>4, <2>5
<1>3. PICK q : q = SortedByTimestamp(s)
  OBVIOUS
<1>4. q = [k \in DOMAIN s |-> s[CHOOSE j \in DOMAIN s : Ranked(j) = k - 1]]
  BY <1>3 DEF SortedByTimestamp
<1> HIDE DEF Ranked
<1>5. ASSUME NEW k \in 1..n PROVE q[k] = s[k]
  <2>1. PICK x : x = CHOOSE j \in DOMAIN s : Ranked(j) = k - 1
    OBVIOUS
  <2>2. x \in 1..n /\ Ranked(x) = k - 1
    BY <1>1, <1>2, <2>1
  <2>3. x = k
    BY <1>2, <2>2
  <2>4. q[k] = s[x]
    BY <1>1, <1>4, <2>1
  <2> QED
    BY <2>3, <2>4
<1>6. IsList(q) /\ Len(q) = n
  BY <1>1, <1>3, SortedLists
<1> QED
  BY <1>1, <1>3, <1>5, <1>6, SameLists

\* Transfers, and the same at another time.
TransferFields == {"id", "kind", "debit", "credit", "amount", "ledger", "ts"}
IsTransfer(o) == TransferFields \subseteq DOMAIN o
AtTime(o, x) ==
  /\ IsTransfer(x) /\ x.id = o.id /\ x.kind = o.kind /\ x.debit = o.debit /\ x.credit = o.credit
  /\ x.amount = o.amount /\ x.ledger = o.ledger

LEMMA Retimed ==
  ASSUME NEW o, IsTransfer(o), NEW v, NEW x, x = [o EXCEPT !.ts = v]
  PROVE  AtTime(o, x) /\ x.ts = v
<1>1. DOMAIN x = DOMAIN o /\ \A f \in DOMAIN o : x[f] = IF f = "ts" THEN v ELSE o[f]
  OBVIOUS
<1> QED
  BY <1>1 DEF AtTime, IsTransfer, TransferFields

\* q has the first k transfers of s, each later than the one before and than
\* the floor, and none earlier than it was.
LaterThan(q, s, k, floor) ==
  /\ IsList(q) /\ Len(q) = k
  /\ \A i \in 1..k : AtTime(s[i], q[i]) /\ s[i].ts <= q[i].ts /\ floor < q[i].ts /\ q[i].ts \in Nat
  /\ \A i \in 1..k : \A j \in 1..k : i < j => q[i].ts < q[j].ts

LEMMA OneLater ==
  ASSUME NEW s, NEW k \in Nat \ {0}, NEW j \in Nat, k = j + 1, NEW floor \in Nat, NEW done, LaterThan(done, s, j, floor),
         IsTransfer(s[k]), s[k].ts \in Nat, NEW new, new = AppendLater(done, s[k], floor)
  PROVE  LaterThan(new, s, k, floor)
<1>1. PICK prev : prev = IF done = <<>> THEN floor ELSE Last(done).ts
  OBVIOUS
<1>2. IsList(done) /\ Len(done) = j
  BY DEF LaterThan
<1>3. prev \in Nat /\ floor <= prev /\ \A i \in 1..j : done[i].ts <= prev
  <2>1. CASE done = <<>>
    <3>1. j = 0
      BY <1>2, <2>1
    <3> QED
      BY <1>1, <2>1, <3>1
  <2>2. CASE done # <<>>
    <3>1. j # 0
      BY <1>2, <2>2 DEF IsList
    <3>2. j \in 1..j /\ Last(done) = done[j]
      BY <1>2, <3>1 DEF Last
    <3>3. prev = done[j].ts
      BY <1>1, <2>2, <3>2
    <3>4. done[j].ts \in Nat /\ floor < done[j].ts
      BY <3>2 DEF LaterThan
    <3>5. \A i \in 1..j : i = j \/ i < j
      OBVIOUS
    <3>6. \A i \in 1..j : done[i].ts \in Nat /\ (i = j \/ done[i].ts < done[j].ts)
      BY <3>2, <3>5 DEF LaterThan
    <3> QED
      BY <3>3, <3>4, <3>6
  <2> QED
    BY <2>1, <2>2
<1>4. PICK v : v = IF s[k].ts <= prev THEN prev + 1 ELSE s[k].ts
  OBVIOUS
<1>5. v \in Nat /\ s[k].ts <= v /\ prev < v
  BY <1>3, <1>4
<1>6. PICK x : x = [s[k] EXCEPT !.ts = v]
  OBVIOUS
<1>7. new = Append(done, x)
  BY <1>1, <1>4, <1>6 DEF AppendLater
<1>8. AtTime(s[k], x) /\ x.ts = v
  BY <1>6, Retimed
<1>9. /\ IsList(new) /\ Len(new) = k /\ \A i \in 1..j : new[i] = done[i]
      /\ new[k] = x
  <2>1. /\ IsList(new) /\ Len(new) = Len(done) + 1 /\ \A i \in 1..Len(done) : new[i] = done[i]
        /\ new[Len(done) + 1] = x
    BY <1>2, <1>7, Appended
  <2> QED
    BY <1>2, <2>1
<1>10. \A i \in 1..k : i \in 1..j \/ i = k
  OBVIOUS
<1>11. ASSUME NEW i \in 1..k
       PROVE  AtTime(s[i], new[i]) /\ s[i].ts <= new[i].ts /\ floor < new[i].ts /\ new[i].ts \in Nat
  <2>1. CASE i \in 1..j
    BY <1>9, <2>1 DEF LaterThan
  <2>2. CASE i = k
    BY <1>3, <1>5, <1>8, <1>9, <2>2
  <2> QED
    BY <1>10, <2>1, <2>2
<1>12. ASSUME NEW i \in 1..k, NEW m \in 1..k, i < m PROVE new[i].ts < new[m].ts
  <2>1. i \in 1..j
    BY <1>12
  <2>2. CASE m \in 1..j
    BY <1>9, <1>12, <2>1, <2>2 DEF LaterThan
  <2>3. CASE m = k
    <3>1. new[i] = done[i] /\ done[i].ts <= prev /\ done[i].ts \in Nat
      BY <1>3, <1>9, <2>1 DEF LaterThan
    <3> QED
      BY <1>3, <1>5, <1>8, <1>9, <2>3, <3>1
  <2> QED
    BY <1>10, <2>2, <2>3
<1> QED
  BY <1>9, <1>11, <1>12 DEF LaterThan

LEMMA AllLater ==
  ASSUME NEW s, IsList(s), NEW n \in Nat, n = Len(s), \A i \in 1..n : IsTransfer(s[i]) /\ s[i].ts \in Nat,
         NEW floor \in Nat
  PROVE  LaterThan(DedupeTimestamps(s, floor), s, n, floor)
<1>1. PICK r, q : StepByStep(r, "later", floor, <<>>, s, q) /\ q = DedupeTimestamps(s, floor)
  BY LaterStepByStep
<1>2. r[0] = <<>> /\ r[n] = q /\ \A i \in 1..n : r[i] = AppendLater(r[i - 1], s[i], floor)
  BY <1>1 DEF StepByStep, Fold
<1> DEFINE T == {k \in 0..n : LaterThan(r[k], s, k, floor)}
<1>3. 0 \in T
  <2>1. IsList(<<>>) /\ Len(<<>>) = 0 /\ 1..0 = {}
    BY NoList
  <2>2. LaterThan(<<>>, s, 0, floor)
    BY <2>1 DEF LaterThan
  <2> QED
    BY <1>2, <2>2
<1>4. ASSUME NEW k \in 1..n, k - 1 \in T PROVE k \in T
  <2>j. PICK j \in Nat : j = k - 1 /\ k = j + 1
    OBVIOUS
  <2>1. PICK done, new : done = r[j] /\ new = r[k]
    OBVIOUS
  <2>2. LaterThan(done, s, j, floor) /\ new = AppendLater(done, s[k], floor) /\ k \in Nat \ {0}
    BY <1>2, <1>4, <2>j, <2>1
  <2>3. LaterThan(new, s, k, floor)
    BY <2>j, <2>2, OneLater
  <2> QED
    BY <2>j, <2>1, <2>3
<1> HIDE DEF T
<1>5. \A k \in 0..n : k \in T
  BY <1>3, <1>4, Upwards
<1>6. n \in T
  BY <1>5
<1> QED
  BY <1>1, <1>2, <1>6 DEF T

\* What a list of transfers posts, one after the other.
AddsUp(s, n, side, id) ==
  /\ Numbers(Postings(s, side, id), n) /\ Posted(s, side, id, 0) = 0
  /\ \A k \in 0..n : Posted(s, side, id, k) \in Nat
  /\ \A k \in 1..n : Posted(s, side, id, k) = Posted(s, side, id, k - 1)
                        + (IF OnSide(s[k], side, id) THEN Posts(s[k]) ELSE 0)

LEMMA PostedStep ==
  ASSUME NEW s, NEW n \in Nat, n = Len(s), \A i \in 1..n : Posts(s[i]) \in Nat, NEW side, NEW id
  PROVE  AddsUp(s, n, side, id)
<1>0. PICK f : f = Postings(s, side, id)
  OBVIOUS
<1>1. \A i \in 1..n : f[i] = IF OnSide(s[i], side, id) THEN Posts(s[i]) ELSE 0
  BY <1>0 DEF Postings
<1>2. Amounted(f, n) /\ Numbers(f, n)
  BY <1>1 DEF Amounted, Numbers
<1>3. \A k \in 0..n : SumTo(f, k) \in Nat
  BY <1>2, SumGrows
<1>4. SumTo(f, 0) = 0 /\ \A k \in 1..n : SumTo(f, k) = SumTo(f, k - 1) + f[k]
  BY <1>2, SumSteps
<1> QED
  BY <1>0, <1>1, <1>2, <1>3, <1>4 DEF Posted, AddsUp

\* Single-phase transfers in the order of time, with ids of their own, between
\* accounts without limits: what such a target takes.
Single(base, t) ==
  /\ t.kind = "single" /\ t.amount \in Nat /\ t.debit # t.credit
  /\ \A id \in {t.debit, t.credit} :
        id \in DOMAIN base /\ base[id].ledger = t.ledger /\ base[id].ts < t.ts /\ base[id].limit = "none"
Acceptable(base, s) ==
  /\ IsList(s) /\ \A i \in 1..Len(s) : Single(base, s[i])
  /\ \A i \in 1..Len(s) : \A j \in 1..Len(s) : i < j => s[i].id # s[j].id /\ s[i].ts < s[j].ts

\* The first k of them are there.
FirstThere(base, s, k, dr, cr, S) ==
  /\ Moves(base, dr) /\ Moves(base, cr) /\ IsList(S) /\ Len(S) = k /\ \A i \in 1..k : S[i] = s[i]
  /\ \A id \in DOMAIN base : dr[id] = Posted(s, "debit", id, k) /\ cr[id] = Posted(s, "credit", id, k)
ReachesFirst(base, s, k, r) ==
  \E dr, cr, S : r = LedgerAt(base, dr, cr, S) /\ FirstThere(base, s, k, dr, cr, S)

LEMMA NextFits ==
  ASSUME NEW base, NEW s, Acceptable(base, s), NEW k \in 1..Len(s), NEW j \in Nat, k = j + 1,
         NEW dr, NEW cr, NEW S, FirstThere(base, s, j, dr, cr, S), NEW t, t = s[k]
  PROVE  Fits(base, dr, cr, S, t)
<1>1. Single(base, t)
  BY DEF Acceptable
<1>2. ASSUME NEW i \in 1..j PROVE S[i].id # t.id /\ S[i].ts < t.ts
  <2>1. Len(s) \in Nat
    BY ListParts DEF Acceptable
  <2>2. i \in 1..Len(s) /\ i < k
    BY <2>1
  <2>3. S[i] = s[i]
    BY DEF FirstThere
  <2> QED
    BY <2>2, <2>3 DEF Acceptable
<1>3. Len(S) = j
  BY DEF FirstThere
<1>4. t.debit \in {t.debit, t.credit} /\ base[t.debit].limit = "none"
  BY <1>1 DEF Single
<1>5. base[t.debit].limit # "debits"
  BY <1>4
<1> QED
  BY <1>1, <1>2, <1>3, <1>5 DEF Fits, Single

LEMMA NextTaken ==
  ASSUME NEW base, IsBase(base), NEW s, Acceptable(base, s), NEW k \in 1..Len(s), NEW j \in Nat, k = j + 1,
         NEW r, ReachesFirst(base, s, j, r), NEW t, t = s[k]
  PROVE  ReachesFirst(base, s, k, CreateTransfer(r, t))
<1>0. PICK n \in Nat : n = Len(s)
  BY ListParts DEF Acceptable
<1>1. Single(base, t)
  BY DEF Acceptable
<1>2. t.amount \in Nat /\ t.kind = "single" /\ t.debit \in DOMAIN base /\ t.credit \in DOMAIN base
  BY <1>1 DEF Single
<1>3. PICK dr, cr, S : r = LedgerAt(base, dr, cr, S) /\ FirstThere(base, s, j, dr, cr, S)
  BY DEF ReachesFirst
<1>4. Fits(base, dr, cr, S, t)
  BY <1>3, NextFits
<1>5. PICK dr1, cr1, S1 : /\ dr1 = Plus(dr, t.debit, t.amount) /\ cr1 = Plus(cr, t.credit, t.amount)
                          /\ S1 = Append(S, t)
  OBVIOUS
<1>6. /\ CreateTransfer(r, t) = LedgerAt(base, dr1, cr1, S1) /\ Moves(base, dr1) /\ Moves(base, cr1)
  <2>1. Moves(base, dr) /\ Moves(base, cr) /\ IsList(S)
    BY <1>3 DEF FirstThere
  <2> QED
    BY <1>3, <1>4, <1>5, <2>1, OneTaken
<1>p. \A i \in 1..n : Posts(s[i]) \in Nat
  BY <1>0 DEF Acceptable, Single, Posts
<1>7. ASSUME NEW id \in DOMAIN base
      PROVE  dr1[id] = Posted(s, "debit", id, k) /\ cr1[id] = Posted(s, "credit", id, k)
  <2>1. PICK d, c : d = Posted(s, "debit", id, j) /\ c = Posted(s, "credit", id, j)
    OBVIOUS
  <2>2. dr[id] = d /\ cr[id] = c /\ dr \in [DOMAIN base -> Int] /\ cr \in [DOMAIN base -> Int]
    BY <1>3, <2>1 DEF FirstThere, Moves
  <2>3. Posts(s[k]) = t.amount
    BY <1>2 DEF Posts
  <2>4. j \in 0..n /\ k \in 1..n /\ j = k - 1
    BY <1>0
  <2>5. d \in Nat /\ Posted(s, "debit", id, k) = d + (IF t.debit = id THEN t.amount ELSE 0)
    <3>1. OnSide(s[k], "debit", id) <=> t.debit = id
      BY DEF OnSide
    <3>2. AddsUp(s, n, "debit", id)
      BY <1>0, <1>p, PostedStep
    <3> QED
      BY <2>1, <2>3, <2>4, <3>1, <3>2 DEF AddsUp
  <2>6. c \in Nat /\ Posted(s, "credit", id, k) = c + (IF t.credit = id THEN t.amount ELSE 0)
    <3>1. OnSide(s[k], "credit", id) <=> t.credit = id
      BY DEF OnSide
    <3>2. AddsUp(s, n, "credit", id)
      BY <1>0, <1>p, PostedStep
    <3> QED
      BY <2>1, <2>3, <2>4, <3>1, <3>2 DEF AddsUp
  <2>7. dr1[id] = d + (IF t.debit = id THEN t.amount ELSE 0)
    BY <1>2, <1>5, <2>2, <2>5 DEF Plus
  <2>8. cr1[id] = c + (IF t.credit = id THEN t.amount ELSE 0)
    BY <1>2, <1>5, <2>2, <2>6 DEF Plus
  <2> QED
    BY <2>5, <2>6, <2>7, <2>8
<1>8. IsList(S) /\ Len(S) = j /\ \A i \in 1..j : S[i] = s[i]
  BY <1>3 DEF FirstThere
<1>9. /\ IsList(S1) /\ Len(S1) = k /\ \A i \in 1..j : S1[i] = S[i]
      /\ S1[k] = t
  <2>1. /\ IsList(S1) /\ Len(S1) = Len(S) + 1 /\ \A i \in 1..Len(S) : S1[i] = S[i]
        /\ S1[Len(S) + 1] = t
    BY <1>5, <1>8, Appended
  <2> QED
    BY <1>8, <2>1
<1>10. \A i \in 1..k : i \in 1..j \/ i = k
  OBVIOUS
<1>11. \A i \in 1..k : S1[i] = s[i]
  BY <1>8, <1>9, <1>10
<1> QED
  BY <1>6, <1>7, <1>9, <1>11 DEF FirstThere, ReachesFirst

\* It takes all of them, and its accounts move what they post.
AllThere(base, T, s, n) ==
  /\ Size(T) = Cardinality(DOMAIN base) + n
  /\ \A id \in DOMAIN base : /\ T.accounts[id].dr = Posted(s, "debit", id, n)
                             /\ T.accounts[id].cr = Posted(s, "credit", id, n)

LEMMA ListTaken ==
  ASSUME NEW base, IsBase(base), NEW s, Acceptable(base, s), NEW n \in Nat, n = Len(s),
         NEW T, T = CreateTransfers(Start(base), s)
  PROVE  AllThere(base, T, s, n)
<1>1. IsList(s)
  BY DEF Acceptable
<1>2. PICK r : StepByStep(r, "transfers", 0, Start(base), s, T)
  BY <1>1, TransfersStepByStep
<1>3. r[0] = Start(base) /\ r[n] = T /\ \A i \in 1..n : r[i] = CreateTransfer(r[i - 1], s[i])
  BY <1>2 DEF StepByStep, Fold
<1> DEFINE T1 == {k \in 0..n : ReachesFirst(base, s, k, r[k])}
<1>4. 0 \in T1
  <2>1. PICK m : m = Nothing(base)
    OBVIOUS
  <2>2. Moves(base, m) /\ \A id \in DOMAIN base : m[id] = 0
    BY <2>1 DEF Nothing, Moves
  <2>3. \A i \in 1..n : Posts(s[i]) \in Nat
    BY DEF Acceptable, Single, Posts
  <2>4. ASSUME NEW id PROVE Posted(s, "debit", id, 0) = 0 /\ Posted(s, "credit", id, 0) = 0
    <3>1. AddsUp(s, n, "debit", id) /\ AddsUp(s, n, "credit", id)
      BY <2>3, PostedStep
    <3> QED
      BY <3>1 DEF AddsUp
  <2>5. IsList(<<>>) /\ Len(<<>>) = 0 /\ 1..0 = {}
    BY NoList
  <2>6. FirstThere(base, s, 0, m, m, <<>>)
    BY <2>2, <2>4, <2>5 DEF FirstThere
  <2>7. r[0] = LedgerAt(base, m, m, <<>>)
    BY <1>3, <2>1 DEF Start
  <2>8. ReachesFirst(base, s, 0, r[0])
    BY <2>6, <2>7 DEF ReachesFirst
  <2> QED
    BY <2>8
<1>5. ASSUME NEW k \in 1..n, k - 1 \in T1 PROVE k \in T1
  <2>j. PICK j \in Nat : j = k - 1 /\ k = j + 1
    OBVIOUS
  <2>1. PICK old, t : old = r[j] /\ t = s[k]
    OBVIOUS
  <2>2. ReachesFirst(base, s, j, old) /\ r[k] = CreateTransfer(old, t) /\ k \in 1..Len(s)
    BY <1>3, <1>5, <2>j, <2>1
  <2>3. ReachesFirst(base, s, k, CreateTransfer(old, t))
    BY <2>j, <2>1, <2>2, NextTaken
  <2> QED
    BY <2>2, <2>3
<1> HIDE DEF T1
<1>6. \A k \in 0..n : k \in T1
  BY <1>4, <1>5, Upwards
<1>7. n \in T1
  BY <1>6
<1>8. PICK dr, cr, S : T = LedgerAt(base, dr, cr, S) /\ FirstThere(base, s, n, dr, cr, S)
  BY <1>3, <1>7 DEF T1, ReachesFirst
<1>9. Size(T) = Cardinality(DOMAIN base) + n
  BY <1>8 DEF Size, LedgerAt, FirstThere
<1>10. ASSUME NEW id \in DOMAIN base PROVE T.accounts[id].dr = dr[id] /\ T.accounts[id].cr = cr[id]
  BY <1>8, AccountAt
<1> QED
  BY <1>8, <1>9, <1>10 DEF FirstThere, AllThere

\* Two sums at once.
LEMMA SumPlus ==
  ASSUME NEW n \in Nat, NEW f, Numbers(f, n), NEW e, Numbers(e, n), NEW g, \A i \in 1..n : g[i] = f[i] + e[i]
  PROVE  SumTo(g, n) = SumTo(f, n) + SumTo(e, n)
<1>1. Numbers(g, n)
  BY DEF Numbers
<1>2. /\ SumTo(f, 0) = 0 /\ \A k \in 0..n : SumTo(f, k) \in Int
      /\ \A k \in 1..n : SumTo(f, k) = SumTo(f, k - 1) + f[k]
  BY SumSteps
<1>3. /\ SumTo(e, 0) = 0 /\ \A k \in 0..n : SumTo(e, k) \in Int
      /\ \A k \in 1..n : SumTo(e, k) = SumTo(e, k - 1) + e[k]
  BY SumSteps
<1>4. /\ SumTo(g, 0) = 0 /\ \A k \in 0..n : SumTo(g, k) \in Int
      /\ \A k \in 1..n : SumTo(g, k) = SumTo(g, k - 1) + g[k]
  BY <1>1, SumSteps
<1> DEFINE T == {k \in 0..n : SumTo(g, k) = SumTo(f, k) + SumTo(e, k)}
<1>5. 0 \in T
  BY <1>2, <1>3, <1>4
<1>6. ASSUME NEW k \in 1..n, k - 1 \in T PROVE k \in T
  <2>1. PICK j : j = k - 1 /\ j \in 0..n
    OBVIOUS
  <2>2. PICK a \in Int, b \in Int, x \in Int, y \in Int : a = SumTo(f, j) /\ b = SumTo(e, j) /\ x = f[k] /\ y = e[k]
    BY <1>2, <1>3, <2>1 DEF Numbers
  <2>3. SumTo(g, j) = a + b
    BY <1>6, <2>1, <2>2
  <2>4. SumTo(f, k) = a + x /\ SumTo(e, k) = b + y
    BY <1>2, <1>3, <2>1, <2>2
  <2>5. SumTo(g, k) = (a + b) + (x + y)
    BY <1>4, <2>1, <2>2, <2>3
  <2> QED
    BY <2>4, <2>5
<1> HIDE DEF T
<1>7. \A k \in 0..n : k \in T
  BY <1>5, <1>6, Upwards
<1>8. n \in T
  BY <1>7
<1> QED
  BY <1>8 DEF T

\* Each pair of accounts, once.
Paired(s, k, pairs, m) ==
  /\ IsList(pairs) /\ Len(pairs) = m
  /\ \A i \in 1..m : \A j \in 1..m : i # j => pairs[i] # pairs[j]
  /\ \A i \in 1..m : \E j \in 1..k : pairs[i] = PairOf(s[j])
  /\ \A j \in 1..k : \E i \in 1..m : pairs[i] = PairOf(s[j])

LEMMA PairsOnce ==
  ASSUME NEW s, IsList(s), NEW k \in Nat, k = Len(s), NEW R, R = {PairOf(t) : t \in Range(s)},
         NEW pairs \in SetToSeqs(R)
  PROVE  \E m \in Nat : m <= k /\ Paired(s, k, pairs, m)
<1>1. IsList(pairs) /\ IsFiniteSet(R)
  BY PairLists
<1>2. PICK m \in Nat : m = Cardinality(R)
  BY <1>1, FS_CardinalityType
<1>3. pairs \in [1..m -> R] /\ \A i \in 1..m : \A j \in 1..m : i # j => pairs[i] # pairs[j]
  BY <1>2 DEF SetToSeqs
<1>4. Len(pairs) = m
  BY <1>3
<1>5. \A x : x \in R <=> \E j \in 1..k : x = PairOf(s[j])
  BY ListParts
<1>i. IsFiniteSet(1..k) /\ Cardinality(1..k) = k /\ IsFiniteSet(1..m) /\ Cardinality(1..m) = m
  <2>0. 1 \in Int /\ k \in Int /\ m \in Int
    OBVIOUS
  <2>1. IsFiniteSet(1..k) /\ Cardinality(1..k) = IF 1 > k THEN 0 ELSE k - 1 + 1
    BY <2>0, FS_Interval
  <2>2. IsFiniteSet(1..m) /\ Cardinality(1..m) = IF 1 > m THEN 0 ELSE m - 1 + 1
    BY <2>0, FS_Interval
  <2> QED
    BY <2>1, <2>2
<1>6. m <= k
  <2> DEFINE f == [j \in 1..k |-> PairOf(s[j])]
  <2>1. f \in Surjection(1..k, R)
    BY <1>5 DEF Surjection
  <2> HIDE DEF f
  <2>2. Cardinality(R) <= Cardinality(1..k)
    BY <1>i, <2>1, FS_Surjection
  <2> QED
    BY <1>2, <1>i, <2>2
<1>7. ASSUME NEW x \in R PROVE \E i \in 1..m : pairs[i] = x
  <2>1. pairs \in Injection(1..m, R)
    BY <1>3 DEF Injection, IsInjective
  <2>2. pairs \in Surjection(1..m, R)
    BY <1>1, <1>2, <1>i, <2>1, FS_Injection
  <2> QED
    BY <2>2 DEF Surjection
<1>8. ASSUME NEW i \in 1..m PROVE \E j \in 1..k : pairs[i] = PairOf(s[j])
  BY <1>3, <1>5
<1>9. ASSUME NEW j \in 1..k PROVE \E i \in 1..m : pairs[i] = PairOf(s[j])
  BY <1>5, <1>7
<1> QED
  BY <1>1, <1>3, <1>4, <1>6, <1>8, <1>9 DEF Paired

\* Transfers of one phase.
SinglePhased(s, k) ==
  /\ IsList(s) /\ Len(s) = k
  /\ \A i \in 1..k : s[i].kind = "single" /\ s[i].amount \in Nat

\* What the transfers between two accounts are worth.
Shared(s, k, pair) == [j \in 1..k |-> IF PairOf(s[j]) = pair THEN s[j].amount ELSE 0]

LEMMA PairSum ==
  ASSUME NEW s, NEW k \in Nat, SinglePhased(s, k), NEW pair
  PROVE  Between(s, pair).amount = SumTo(Shared(s, k, pair), k) /\ Between(s, pair).amount \in Nat
<1>1. PICK q : q = [i \in DOMAIN s |-> IF PairOf(s[i]) = pair THEN s[i].amount ELSE 0]
  OBVIOUS
<1>2. DOMAIN s = 1..k
  BY ListParts DEF SinglePhased
<1>3. q = Shared(s, k, pair)
  BY <1>1, <1>2 DEF Shared
<1>4. IsList(q) /\ Len(q) = k
  <2>1. q = [i \in 1..k |-> q[i]]
    BY <1>1, <1>2
  <2> QED
    BY <2>1, ListOf
<1>5. Numbers(q, k) /\ Amounted(q, k)
  BY <1>1, <1>2 DEF Numbers, Amounted, SinglePhased
<1>6. Total(q) = SumTo(q, k)
  BY <1>4, <1>5, TotalIsSum
<1>7. SumTo(q, k) \in Nat
  <2>1. \A i \in 0..k : SumTo(q, i) \in Nat
    BY <1>5, SumGrows
  <2> QED
    BY <2>1
<1>8. Between(s, pair).amount = Total(q)
  BY <1>1 DEF Between
<1> QED
  BY <1>3, <1>6, <1>7, <1>8

\* The aggregated transfer of a pair.
AreAggregated(q, s, k, pairs, m, c) ==
  /\ IsList(q) /\ Len(q) = m
  /\ \A i \in 1..m :
        /\ q[i].id = i /\ q[i].kind = "single" /\ q[i].ts = Minus(c, m) + (i - 1)
        /\ q[i].debit = pairs[i][1] /\ q[i].credit = pairs[i][2] /\ q[i].ledger = pairs[i][3]
        /\ q[i].amount = SumTo(Shared(s, k, pairs[i]), k) /\ q[i].amount \in Nat

LEMMA AggregatedParts ==
  ASSUME NEW s, NEW k \in Nat, SinglePhased(s, k), NEW pairs, NEW m \in Nat, Paired(s, k, pairs, m), NEW c \in Nat,
         NEW q, q = Aggregated(s, pairs, c)
  PROVE  AreAggregated(q, s, k, pairs, m, c)
<1>1. DOMAIN pairs = 1..m /\ Len(pairs) = m /\ IsList(pairs)
  BY ListParts DEF Paired
<1>2. q = [i \in 1..m |-> Synthetic(Between(s, pairs[i]), i, Minus(c, m) + (i - 1))]
  BY <1>1 DEF Aggregated
<1>3. IsList(q) /\ Len(q) = m
  <2>1. q = [i \in 1..m |-> q[i]]
    BY <1>2
  <2> QED
    BY <2>1, ListOf
<1>4. ASSUME NEW i \in 1..m
      PROVE  /\ q[i].id = i /\ q[i].kind = "single" /\ q[i].ts = Minus(c, m) + (i - 1)
             /\ q[i].debit = pairs[i][1] /\ q[i].credit = pairs[i][2] /\ q[i].ledger = pairs[i][3]
             /\ q[i].amount = SumTo(Shared(s, k, pairs[i]), k) /\ q[i].amount \in Nat
  <2>1. PICK b : b = Between(s, pairs[i])
    OBVIOUS
  <2>2. q[i] = Synthetic(b, i, Minus(c, m) + (i - 1))
    BY <1>2, <2>1
  <2>3. b.debit = pairs[i][1] /\ b.credit = pairs[i][2] /\ b.ledger = pairs[i][3]
    BY <2>1 DEF Between
  <2>4. b.amount = SumTo(Shared(s, k, pairs[i]), k) /\ b.amount \in Nat
    BY <2>1, PairSum
  <2> QED
    BY <2>2, <2>3, <2>4 DEF Synthetic
<1> QED
  BY <1>3, <1>4 DEF AreAggregated

\* What the first i pairs are worth on one side of an account.
InFirst(s, pairs, i, j) == \E z \in 1..i : pairs[z] = PairOf(s[j])
Grouped(s, k, pairs, side, id, i) ==
  [j \in 1..k |-> IF OnSide(s[j], side, id) /\ InFirst(s, pairs, i, j) THEN Posts(s[j]) ELSE 0]

LEMMA OnePairMore ==
  ASSUME NEW s, NEW k \in Nat, SinglePhased(s, k), NEW pairs, NEW m \in Nat, Paired(s, k, pairs, m),
         NEW i \in 1..m, NEW h \in Nat, i = h + 1, NEW side, NEW id, NEW t,
         t.debit = pairs[i][1], t.credit = pairs[i][2], t.amount = SumTo(Shared(s, k, pairs[i]), k)
  PROVE  SumTo(Grouped(s, k, pairs, side, id, i), k)
           = SumTo(Grouped(s, k, pairs, side, id, h), k) + (IF OnSide(t, side, id) THEN t.amount ELSE 0)
<1>1. PICK f, e, g, x : /\ f = Grouped(s, k, pairs, side, id, h) /\ g = Grouped(s, k, pairs, side, id, i)
                        /\ x = Shared(s, k, pairs[i])
                        /\ e = [j \in 1..k |-> IF OnSide(t, side, id) /\ PairOf(s[j]) = pairs[i] THEN s[j].amount ELSE 0]
  OBVIOUS
<1>2. \A j \in 1..k : s[j].amount \in Nat /\ Posts(s[j]) = s[j].amount
  BY DEF SinglePhased, Posts
<1>3. Numbers(f, k) /\ Numbers(e, k) /\ Numbers(x, k)
  BY <1>1, <1>2 DEF Numbers, Grouped, Shared
<1>4. ASSUME NEW j \in 1..k PROVE g[j] = f[j] + e[j]
  <2>1. InFirst(s, pairs, i, j) <=> InFirst(s, pairs, h, j) \/ pairs[i] = PairOf(s[j])
    <3>1. \A z \in 1..i : z \in 1..h \/ z = i
      OBVIOUS
    <3>2. \A z \in 1..h : z \in 1..i
      OBVIOUS
    <3>3. i \in 1..i
      OBVIOUS
    <3> QED
      BY <3>1, <3>2, <3>3 DEF InFirst
  <2>2. ~(InFirst(s, pairs, h, j) /\ pairs[i] = PairOf(s[j]))
    <3>1. \A z \in 1..h : z \in 1..m /\ z # i
      OBVIOUS
    <3> QED
      BY <3>1 DEF InFirst, Paired
  <2>3. pairs[i] = PairOf(s[j]) => (OnSide(s[j], side, id) <=> OnSide(t, side, id))
    <3>1. PairOf(s[j])[1] = s[j].debit /\ PairOf(s[j])[2] = s[j].credit
      BY DEF PairOf
    <3> QED
      BY <3>1 DEF OnSide
  <2>4. /\ f[j] = IF OnSide(s[j], side, id) /\ InFirst(s, pairs, h, j) THEN s[j].amount ELSE 0
        /\ g[j] = IF OnSide(s[j], side, id) /\ InFirst(s, pairs, i, j) THEN s[j].amount ELSE 0
        /\ e[j] = IF OnSide(t, side, id) /\ PairOf(s[j]) = pairs[i] THEN s[j].amount ELSE 0
    BY <1>1, <1>2 DEF Grouped
  <2> HIDE DEF InFirst
  <2> QED
    BY <1>2, <2>1, <2>2, <2>3, <2>4
<1>5. SumTo(g, k) = SumTo(f, k) + SumTo(e, k)
  BY <1>3, <1>4, SumPlus
<1>6. SumTo(e, k) = IF OnSide(t, side, id) THEN t.amount ELSE 0
  <2>1. CASE OnSide(t, side, id)
    <3>1. \A j \in 1..k : e[j] = x[j]
      BY <1>1, <2>1 DEF Shared
    <3>2. \A j \in 0..k : SumTo(e, j) = SumTo(x, j)
      BY <1>3, <3>1, SumSame
    <3> QED
      BY <1>1, <2>1, <3>2
  <2>2. CASE ~OnSide(t, side, id)
    <3>1. \A j \in 1..k : e[j] = 0
      BY <1>1, <2>2
    <3>2. \A j \in 0..k : SumTo(e, j) = 0
      BY <3>1, SumNothing
    <3> QED
      BY <2>2, <3>2
  <2> QED
    BY <2>1, <2>2
<1> QED
  BY <1>1, <1>5, <1>6

\* The aggregated transfers move what the single ones have moved.
LEMMA AggregatedSums ==
  ASSUME NEW s, NEW k \in Nat, SinglePhased(s, k), NEW pairs, NEW m \in Nat, Paired(s, k, pairs, m), NEW c \in Nat,
         NEW q, q = Aggregated(s, pairs, c), NEW side, NEW id
  PROVE  Posted(q, side, id, m) = Posted(s, side, id, k)
<1>1. /\ IsList(q) /\ Len(q) = m
      /\ \A i \in 1..m :
            /\ q[i].kind = "single" /\ q[i].debit = pairs[i][1] /\ q[i].credit = pairs[i][2]
            /\ q[i].amount = SumTo(Shared(s, k, pairs[i]), k) /\ q[i].amount \in Nat
  <2>1. AreAggregated(q, s, k, pairs, m, c)
    BY AggregatedParts
  <2> QED
    BY <2>1 DEF AreAggregated
<1>2. \A i \in 1..m : Posts(q[i]) = q[i].amount /\ Posts(q[i]) \in Nat
  BY <1>1 DEF Posts
<1>3. AddsUp(q, m, side, id)
  BY <1>1, <1>2, PostedStep
<1>4. Posted(q, side, id, 0) = 0 /\ \A i \in 1..m : Posted(q, side, id, i) = Posted(q, side, id, i - 1)
                                      + (IF OnSide(q[i], side, id) THEN q[i].amount ELSE 0)
  BY <1>2, <1>3 DEF AddsUp
<1> DEFINE T == {i \in 0..m : Posted(q, side, id, i) = SumTo(Grouped(s, k, pairs, side, id, i), k)}
<1>5. 0 \in T
  <2>1. PICK f : f = Grouped(s, k, pairs, side, id, 0)
    OBVIOUS
  <2>2. \A j \in 1..k : f[j] = 0
    <3>1. 1..0 = {}
      OBVIOUS
    <3> QED
      BY <2>1, <3>1 DEF Grouped, InFirst
  <2>3. \A j \in 0..k : SumTo(f, j) = 0
    BY <2>2, SumNothing
  <2> QED
    BY <1>4, <2>1, <2>3
<1>6. ASSUME NEW i \in 1..m, i - 1 \in T PROVE i \in T
  <2>1. PICK h \in Nat : h = i - 1 /\ i = h + 1
    OBVIOUS
  <2>2. PICK t : t = q[i]
    OBVIOUS
  <2>3. t.debit = pairs[i][1] /\ t.credit = pairs[i][2] /\ t.amount = SumTo(Shared(s, k, pairs[i]), k)
    BY <1>1, <2>2
  <2>4. SumTo(Grouped(s, k, pairs, side, id, i), k)
          = SumTo(Grouped(s, k, pairs, side, id, h), k) + (IF OnSide(t, side, id) THEN t.amount ELSE 0)
    BY <2>1, <2>3, OnePairMore
  <2>5. Posted(q, side, id, h) = SumTo(Grouped(s, k, pairs, side, id, h), k)
    BY <1>6, <2>1
  <2>6. Posted(q, side, id, i) = Posted(q, side, id, h) + (IF OnSide(t, side, id) THEN t.amount ELSE 0)
    BY <1>4, <2>1, <2>2
  <2> QED
    BY <2>4, <2>5, <2>6
<1> HIDE DEF T
<1>7. \A i \in 0..m : i \in T
  BY <1>5, <1>6, Upwards
<1>8. Posted(q, side, id, m) = SumTo(Grouped(s, k, pairs, side, id, m), k)
  <2>1. m \in T
    BY <1>7
  <2> QED
    BY <2>1 DEF T
<1>9. SumTo(Grouped(s, k, pairs, side, id, m), k) = SumTo(Postings(s, side, id), k)
  <2>1. PICK f, g : f = Postings(s, side, id) /\ g = Grouped(s, k, pairs, side, id, m)
    OBVIOUS
  <2>2. \A j \in 1..k : f[j] = (IF OnSide(s[j], side, id) THEN Posts(s[j]) ELSE 0) /\ Posts(s[j]) \in Nat
    BY <2>1 DEF Postings, SinglePhased, Posts
  <2>3. \A j \in 1..k : g[j] = f[j]
    <3>1. \A j \in 1..k : InFirst(s, pairs, m, j)
      BY DEF Paired, InFirst
    <3> QED
      BY <2>1, <2>2, <3>1 DEF Grouped
  <2>4. Numbers(f, k)
    BY <2>2 DEF Numbers
  <2>5. \A j \in 0..k : SumTo(g, j) = SumTo(f, j)
    BY <2>3, <2>4, SumSame
  <2> QED
    BY <2>1, <2>5
<1> QED
  BY <1>8, <1>9 DEF Posted

\* The source's i-th transfer, at some time.
IthTaken(base, i, t) == Single(base, t) /\ t.id = FirstAppId + i - 1
Repeats(o, t) == AtTime(o, t) /\ t.ts \in Nat

\* A transfer, and all v of a list, are younger than their accounts.
Postdates(base, t) == \A id \in {t.debit, t.credit} : base[id].ts < t.ts
AllPostdate(base, D, v) == \A i \in 1..v : Postdates(base, D[i])

\* D has what s has after its first k transfers, at times of its own.
CopyFrom(D, s, k, v) ==
  /\ IsList(D) /\ Len(D) = v
  /\ \A i \in 1..v : Repeats(s[k + i], D[i])
  /\ \A i \in 1..v : \A j \in 1..v : i < j => D[i].ts < D[j].ts

\* Its first n transfers all have one phase, between accounts without limits.
Plain(s, n) ==
  /\ n <= Len(s)
  /\ \A i \in 1..n : /\ s[i].kind = "single" /\ IsTransfer(s[i])
                     /\ LimitOf[s[i].debit] = "none" /\ LimitOf[s[i].credit] = "none"

\* The source's transfers are younger than their accounts.
LEMMA SourcePostdates ==
  ASSUME NEW L, NEW now, IsSource(L, now), NEW base, Reopened(base, L), NEW s, s = L.transfers,
         NEW i \in 1..Len(s)
  PROVE  /\ Postdates(base, s[i]) /\ s[i].ts \in Nat /\ s[i].debit # s[i].credit
         /\ \A id \in {s[i].debit, s[i].credit} :
               id \in DOMAIN base /\ base[id].ledger = s[i].ledger /\ base[id].limit = LimitOf[id]
               /\ base[id].ts \in Nat
<1>1. PICK A : A = L.accounts
  OBVIOUS
<1>2. InTime(s) /\ Opposite(A, s[i]) /\ Timely(A, s, now)
  BY <1>1 DEF IsSource, Timely
<1>3. ASSUME NEW id \in {s[i].debit, s[i].credit}
      PROVE  /\ id \in DOMAIN base /\ base[id].ledger = s[i].ledger /\ base[id].limit = LimitOf[id]
             /\ base[id].ts \in Nat /\ base[id].ts < s[i].ts
  <2>1. id \in DOMAIN A /\ LedgerOf[id] = s[i].ledger /\ A[id].ts < s[i].ts
    BY <1>2, <1>3 DEF Opposite
  <2>2. A[id].ts \in Nat
    BY <1>2, <2>1 DEF Timely
  <2>3. /\ id \in DOMAIN base /\ base[id].ledger = LedgerOf[id] /\ base[id].limit = LimitOf[id]
        /\ base[id].ts = A[id].ts
    BY <1>1, <2>1 DEF Reopened
  <2> QED
    BY <2>1, <2>2, <2>3
<1>4. s[i].ts \in Nat /\ s[i].debit # s[i].credit
  BY <1>2 DEF InTime, Opposite
<1> QED
  BY <1>3, <1>4 DEF Postdates

LEMMA SourceTransfer ==
  ASSUME NEW L, NEW now, IsSource(L, now), NEW base, Reopened(base, L), NEW s, s = L.transfers,
         NEW n \in Nat, Plain(s, n), NEW i \in 1..n, NEW t, Repeats(s[i], t), Postdates(base, t)
  PROVE  IthTaken(base, i, t)
<1>0. /\ t.kind = s[i].kind /\ t.amount = s[i].amount /\ t.id = s[i].id
      /\ t.debit = s[i].debit /\ t.credit = s[i].credit /\ t.ledger = s[i].ledger /\ t.ts \in Nat
  BY DEF Repeats, AtTime
<1>2. IsHistory(s) /\ i \in 1..Len(s)
  <2>1. Len(s) \in Nat
    BY ListParts DEF IsSource, IsHistory
  <2>2. i \in 1..Len(s)
    BY <2>1 DEF Plain
  <2> QED
    BY <2>2 DEF IsSource
<1>3. s[i].id = FirstAppId + i - 1 /\ s[i].amount \in Nat /\ s[i].kind = "single"
  BY <1>2 DEF IsHistory, Plain
<1>4. ASSUME NEW id \in {t.debit, t.credit}
      PROVE  id \in DOMAIN base /\ base[id].ledger = t.ledger /\ base[id].ts < t.ts /\ base[id].limit = "none"
  <2>1. id \in {s[i].debit, s[i].credit}
    BY <1>0, <1>4
  <2>2. id \in DOMAIN base /\ base[id].ledger = s[i].ledger /\ base[id].limit = LimitOf[id]
    BY <1>2, <2>1, SourcePostdates
  <2>3. LimitOf[id] = "none"
    BY <2>1 DEF Plain
  <2>4. base[id].ts < t.ts
    BY <1>4 DEF Postdates
  <2> QED
    BY <1>0, <2>2, <2>3, <2>4
<1>5. t.debit # t.credit
  BY <1>0, <1>2, SourcePostdates
<1>6. t.kind = "single" /\ t.amount \in Nat /\ t.id = FirstAppId + i - 1
  BY <1>0, <1>3
<1> QED
  BY <1>4, <1>5, <1>6 DEF Single, IthTaken

\* Transfers that stand for the first k, and come before the others.
Leads(Q, m, base, s, k, floor) ==
  /\ IsList(Q) /\ Len(Q) = m
  /\ \A i \in 1..m : Single(base, Q[i]) /\ Q[i].id \in Nat /\ Q[i].id < FirstAppId /\ Q[i].ts \in Nat /\ Q[i].ts <= floor
  /\ \A i \in 1..m : \A j \in 1..m : i < j => Q[i].id # Q[j].id /\ Q[i].ts < Q[j].ts
SameSums(Q, m, s, k) == \A side, id : Posted(Q, side, id, m) = Posted(s, side, id, k)

\* W is Q and then D.
InTurn(W, Q, D, m, v) ==
  /\ Len(W) = m + v
  /\ \A i \in 1..m : W[i] = Q[i]
  /\ \A i \in 1..v : W[m + i] = D[i]

LEMMA SameSum ==
  ASSUME NEW n \in Nat, NEW f, Numbers(f, n), NEW e, \A i \in 1..n : e[i] = f[i]
  PROVE  SumTo(e, n) = SumTo(f, n)
<1>1. \A j \in 0..n : SumTo(e, j) = SumTo(f, j)
  BY SumSame
<1> QED
  BY <1>1

LEMMA InTurns ==
  ASSUME NEW Q, IsList(Q), NEW D, IsList(D), NEW m, m = Len(Q), NEW v, v = Len(D), NEW W, W = Q \o D
  PROVE  IsList(W) /\ InTurn(W, Q, D, m, v) /\ m \in Nat /\ v \in Nat
<1>1. IsList(W) /\ Len(W) = m + v
  BY Joined
<1>2. PICK S : Q \in Seq(S) /\ D \in Seq(S)
  <2>1. Q \in Seq(Range(Q)) /\ D \in Seq(Range(D))
    BY DEF IsList
  <2>2. PICK S : S = Range(Q) \cup Range(D)
    OBVIOUS
  <2>3. Q \in Seq(S) /\ D \in Seq(S)
    BY <2>1, <2>2
  <2> QED
    BY <2>3
<1>3. m \in Nat /\ v \in Nat /\ \A i \in 1..(m + v) : W[i] = IF i <= m THEN Q[i] ELSE D[i - m]
  BY <1>2
<1>4. ASSUME NEW i \in 1..m PROVE W[i] = Q[i]
  <2>1. i \in 1..(m + v) /\ i <= m
    BY <1>3
  <2> QED
    BY <1>3, <2>1
<1>5. ASSUME NEW i \in 1..v PROVE W[m + i] = D[i]
  <2>1. PICK x \in 1..(m + v) : x = m + i /\ ~(x <= m) /\ x - m = i
    BY <1>3
  <2>2. W[x] = D[x - m]
    BY <1>3, <2>1
  <2> QED
    BY <2>1, <2>2
<1> QED
  BY <1>1, <1>3, <1>4, <1>5 DEF InTurn

\* The first n of s post amounts.
AllPost(s, n) == \A i \in 1..n : Posts(s[i]) \in Nat

LEMMA PostingsAt ==
  ASSUME NEW s, NEW n \in Nat, n = Len(s), AllPost(s, n), NEW side, NEW id, NEW f, f = Postings(s, side, id)
  PROVE  Numbers(f, n) /\ \A i \in 1..n : f[i] = IF OnSide(s[i], side, id) THEN Posts(s[i]) ELSE 0
<1>1. \A i \in 1..n : f[i] = IF OnSide(s[i], side, id) THEN Posts(s[i]) ELSE 0
  BY DEF Postings
<1> QED
  BY <1>1 DEF Numbers, AllPost

\* D posts what s does after its first k, on the same accounts.
SamePosting(o, t) == Posts(t) = Posts(o) /\ t.debit = o.debit /\ t.credit = o.credit
PostsRest(D, v, s, k) == Len(D) = v /\ \A i \in 1..v : SamePosting(s[k + i], D[i])

LEMMA PostedRest ==
  ASSUME NEW s, NEW n \in Nat, n = Len(s), AllPost(s, n), NEW k \in 0..n, NEW v \in Nat, v = n - k,
         NEW D, PostsRest(D, v, s, k), NEW side, NEW id
  PROVE  AllPost(D, v) /\ Posted(s, side, id, n) = Posted(s, side, id, k) + Posted(D, side, id, v)
<1>1. PICK f, e : f = Postings(s, side, id) /\ e = Postings(D, side, id)
  OBVIOUS
<1>2. ASSUME NEW i \in 1..v PROVE k + i \in 1..n /\ Posts(D[i]) \in Nat
  <2>1. PICK x \in 1..n : x = k + i
    OBVIOUS
  <2> QED
    BY <2>1 DEF PostsRest, SamePosting, AllPost
<1>3. Numbers(f, n) /\ \A i \in 1..n : f[i] = IF OnSide(s[i], side, id) THEN Posts(s[i]) ELSE 0
  BY <1>1, PostingsAt
<1>4. AllPost(D, v) /\ v = Len(D)
  BY <1>2 DEF AllPost, PostsRest
<1>5. \A i \in 1..v : e[i] = IF OnSide(D[i], side, id) THEN Posts(D[i]) ELSE 0
  BY <1>1, <1>4, PostingsAt
<1>6. ASSUME NEW i \in 1..(n - k) PROVE e[i] = f[k + i]
  <2>1. PICK x \in 1..n : x = k + i
    OBVIOUS
  <2>2. Posts(D[i]) = Posts(s[x]) /\ (OnSide(D[i], side, id) <=> OnSide(s[x], side, id))
    BY <2>1 DEF PostsRest, SamePosting, OnSide
  <2>3. f[x] = IF OnSide(s[x], side, id) THEN Posts(s[x]) ELSE 0
    BY <1>3
  <2>4. e[i] = IF OnSide(D[i], side, id) THEN Posts(D[i]) ELSE 0
    BY <1>5
  <2> QED
    BY <2>1, <2>2, <2>3, <2>4
<1>7. Splits(f, e, k, n)
  BY <1>3, <1>6, SumSplitAt
<1>8. SumTo(f, n) = SumTo(f, k) + SumTo(e, v)
  <2>1. v \in 0..(n - k) /\ k + v = n
    OBVIOUS
  <2> QED
    BY <1>7, <2>1 DEF Splits
<1> QED
  BY <1>1, <1>4, <1>8 DEF Posted

\* Two lists post what each of them does.
LEMMA PostedJoin ==
  ASSUME NEW m \in Nat, NEW v \in Nat, NEW Q, Len(Q) = m, AllPost(Q, m), NEW D, Len(D) = v, AllPost(D, v),
         NEW W, InTurn(W, Q, D, m, v), NEW w, w = m + v, NEW side, NEW id
  PROVE  AllPost(W, w) /\ Posted(W, side, id, w) = Posted(Q, side, id, m) + Posted(D, side, id, v)
<1>1. w \in Nat /\ w = Len(W) /\ m \in 0..w /\ v = w - m
  BY DEF InTurn
<1>2. (\A i \in 1..m : W[i] = Q[i]) /\ (\A i \in 1..v : W[m + i] = D[i])
  BY DEF InTurn
<1>3. ASSUME NEW i \in 1..w PROVE Posts(W[i]) \in Nat
  <2>1. CASE i <= m
    BY <1>1, <1>2, <2>1 DEF AllPost
  <2>2. CASE ~(i <= m)
    <3>1. PICK j \in 1..v : i = m + j
      <4>1. i - m \in 1..v /\ i = m + (i - m)
        BY <1>1, <2>2
      <4> QED
        BY <4>1
    <3> QED
      BY <1>2, <3>1 DEF AllPost
  <2> QED
    BY <2>1, <2>2
<1>4. AllPost(W, w) /\ PostsRest(D, v, W, m)
  BY <1>2, <1>3 DEF AllPost, PostsRest, SamePosting
<1>5. Posted(W, side, id, w) = Posted(W, side, id, m) + Posted(D, side, id, v)
  BY <1>1, <1>4, PostedRest
<1>6. PICK g, h : g = Postings(W, side, id) /\ h = Postings(Q, side, id)
  OBVIOUS
<1>7. \A i \in 1..w : g[i] = IF OnSide(W[i], side, id) THEN Posts(W[i]) ELSE 0
  BY <1>1, <1>4, <1>6, PostingsAt
<1>8. Numbers(h, m) /\ \A i \in 1..m : h[i] = IF OnSide(Q[i], side, id) THEN Posts(Q[i]) ELSE 0
  BY <1>6, PostingsAt
<1>9. ASSUME NEW i \in 1..m PROVE g[i] = h[i]
  <2>1. i \in 1..w /\ W[i] = Q[i]
    BY <1>1, <1>2
  <2> QED
    BY <1>7, <1>8, <2>1
<1>10. SumTo(g, m) = SumTo(h, m)
  BY <1>8, <1>9, SameSum
<1> QED
  BY <1>4, <1>5, <1>6, <1>10 DEF Posted

LEMMA BothAccepted ==
  ASSUME NEW L, NEW now, IsSource(L, now), NEW base, Reopened(base, L), NEW s, s = L.transfers,
         NEW n \in Nat, Plain(s, n), NEW k \in 0..n, NEW v \in Nat, v = n - k, NEW D, CopyFrom(D, s, k, v),
         AllPostdate(base, D, v),
         NEW floor \in Nat, \A i \in 1..v : floor < D[i].ts, NEW m \in Nat, NEW Q, Leads(Q, m, base, s, k, floor),
         NEW W, W = Q \o D
  PROVE  Acceptable(base, W) /\ InTurn(W, Q, D, m, v)
<1>1. IsList(Q) /\ IsList(D) /\ Len(Q) = m /\ Len(D) = v
  BY DEF Leads, CopyFrom
<1>2. IsList(W) /\ Len(W) = m + v
  BY <1>1, Joined
<1>3. (\A i \in 1..m : W[i] = Q[i]) /\ (\A i \in 1..v : W[m + i] = D[i])
  <2>1. InTurn(W, Q, D, m, v)
    BY <1>1, InTurns
  <2> QED
    BY <2>1 DEF InTurn
<1>4. ASSUME NEW i \in 1..v PROVE Single(base, D[i]) /\ D[i].id = FirstAppId + (k + i) - 1
  <2>1. PICK x \in 1..n : x = k + i
    OBVIOUS
  <2>2. PICK t : t = D[i]
    OBVIOUS
  <2>3. Repeats(s[x], t) /\ Postdates(base, t)
    BY <2>1, <2>2 DEF CopyFrom, AllPostdate
  <2>4. IthTaken(base, x, t)
    BY <2>3, SourceTransfer
  <2> QED
    BY <2>1, <2>2, <2>4 DEF IthTaken
<1>5. ASSUME NEW i \in 1..(m + v) PROVE i \in 1..m \/ \E j \in 1..v : i = m + j
  <2>1. CASE i <= m
    BY <2>1
  <2>2. CASE ~(i <= m)
    <3>1. i - m \in 1..v /\ i = m + (i - m)
      BY <2>2
    <3> QED
      BY <3>1
  <2> QED
    BY <2>1, <2>2
<1>6. ASSUME NEW i \in 1..(m + v) PROVE Single(base, W[i])
  <2>1. CASE i \in 1..m
    BY <1>3, <2>1 DEF Leads
  <2>2. ASSUME NEW j \in 1..v, i = m + j PROVE Single(base, W[i])
    BY <1>3, <1>4, <2>2
  <2> QED
    BY <1>5, <2>1, <2>2
<1>7. ASSUME NEW i \in 1..(m + v), NEW j \in 1..(m + v), i < j PROVE W[i].id # W[j].id /\ W[i].ts < W[j].ts
  <2>1. CASE i \in 1..m /\ j \in 1..m
    BY <1>3, <1>7, <2>1 DEF Leads
  <2>2. ASSUME i \in 1..m, NEW y \in 1..v, j = m + y PROVE W[i].id # W[j].id /\ W[i].ts < W[j].ts
    <3>1. PICK a, b : a = Q[i] /\ b = D[y] /\ W[i] = a /\ W[j] = b
      BY <1>3, <2>2
    <3>2. a.id \in Nat /\ a.id < FirstAppId /\ a.ts \in Nat /\ a.ts <= floor
      BY <2>2, <3>1 DEF Leads
    <3>3. b.id = FirstAppId + (k + y) - 1 /\ floor < b.ts /\ b.ts \in Nat
      BY <1>4, <3>1 DEF CopyFrom, Repeats
    <3>4. FirstAppId + (k + y) - 1 >= FirstAppId /\ FirstAppId \in Nat
      BY IdAssumption
    <3>5. a.id # b.id
      BY <3>2, <3>3, <3>4
    <3>6. a.ts < b.ts
      <4>1. PICK u \in Nat, w \in Nat : u = a.ts /\ w = b.ts
        BY <3>2, <3>3
      <4>2. u <= floor /\ floor < w
        BY <3>2, <3>3, <4>1
      <4>3. u < w
        BY <4>2
      <4> QED
        BY <4>1, <4>3
    <3> QED
      BY <3>1, <3>5, <3>6
  <2>3. ASSUME NEW x \in 1..v, i = m + x, NEW y \in 1..v, j = m + y PROVE W[i].id # W[j].id /\ W[i].ts < W[j].ts
    <3>1. PICK a, b : a = D[x] /\ b = D[y] /\ W[i] = a /\ W[j] = b
      BY <1>3, <2>3
    <3>2. x < y
      BY <1>7, <2>3
    <3>3. a.ts < b.ts
      <4>1. D[x].ts < D[y].ts
        BY <2>3, <3>2 DEF CopyFrom
      <4> QED
        BY <3>1, <4>1
    <3>4. a.id = FirstAppId + (k + x) - 1 /\ b.id = FirstAppId + (k + y) - 1
      BY <1>4, <3>1
    <3>5. FirstAppId + (k + x) - 1 # FirstAppId + (k + y) - 1
      BY <3>2, IdAssumption
    <3>6. a.id # b.id
      BY <3>4, <3>5
    <3> QED
      BY <3>1, <3>3, <3>6
  <2>4. ~(j \in 1..m /\ ~(i \in 1..m))
    BY <1>7
  <2> QED
    BY <1>5, <2>1, <2>2, <2>3, <2>4
<1> QED
  BY <1>2, <1>3, <1>6, <1>7 DEF Acceptable, InTurn

\* They post what the source has posted.
LEMMA BothSum ==
  ASSUME NEW s, NEW n \in Nat, n = Len(s), AllPost(s, n), NEW k \in 0..n, NEW v \in Nat, v = n - k,
         NEW D, CopyFrom(D, s, k, v), NEW m \in Nat, NEW Q, SameSums(Q, m, s, k), Len(Q) = m, AllPost(Q, m),
         NEW W, InTurn(W, Q, D, m, v), NEW w, w = m + v
  PROVE  SameSums(W, w, s, n) /\ AllPost(W, w)
<1>1. ASSUME NEW i \in 1..v PROVE SamePosting(s[k + i], D[i])
  <2>1. AtTime(s[k + i], D[i])
    BY DEF CopyFrom, Repeats
  <2> QED
    BY <2>1 DEF AtTime, Posts, SamePosting
<1>2. Len(D) = v /\ PostsRest(D, v, s, k)
  BY <1>1 DEF CopyFrom, PostsRest
<1>3. ASSUME NEW side, NEW id PROVE Posted(W, side, id, w) = Posted(s, side, id, n) /\ AllPost(W, w)
  <2>1. AllPost(D, v) /\ Posted(s, side, id, n) = Posted(s, side, id, k) + Posted(D, side, id, v)
    BY <1>2, PostedRest
  <2>2. AllPost(W, w) /\ Posted(W, side, id, w) = Posted(Q, side, id, m) + Posted(D, side, id, v)
    BY <1>2, <2>1, PostedJoin
  <2> QED
    BY <2>1, <2>2 DEF SameSums
<1> QED
  BY <1>3 DEF SameSums

\* Accounts as they are imported alone.
Emptied(a) == [a EXCEPT !.dr = 0, !.cr = 0, !.drp = 0, !.crp = 0]

LEMMA EmptiedParts ==
  ASSUME NEW i, NEW l, NEW m, NEW ts, NEW d, NEW c, NEW p, NEW q, NEW a, a = Account(i, l, m, ts, d, c, p, q)
  PROVE  Emptied(a) = Account(i, l, m, ts, 0, 0, 0, 0)
<1>1. PICK b, d1 : b = Account(i, l, m, ts, 0, 0, p, q) /\ d1 = Account(i, l, m, ts, 0, 0, 0, q)
  OBVIOUS
<1>2. b = [a EXCEPT !.dr = 0, !.cr = 0]
  <2>1. PICK z : z = 0
    OBVIOUS
  <2>2. Holding(a, z, z) = Account(i, l, m, ts, z, z, p, q)
    BY AccountWith
  <2> QED
    BY <1>1, <2>1, <2>2 DEF Holding
<1>3. Emptied(a) = [b EXCEPT !.drp = 0, !.crp = 0]
  BY <1>2 DEF Emptied
<1>4. [b EXCEPT !.drp = 0] = d1
  BY <1>1 DEF Account
<1>5. [b EXCEPT !.drp = 0, !.crp = 0] = [d1 EXCEPT !.crp = 0]
  BY <1>4
<1>6. [d1 EXCEPT !.crp = 0] = Account(i, l, m, ts, 0, 0, 0, 0)
  BY <1>1 DEF Account
<1> QED
  BY <1>3, <1>5, <1>6

LEMMA FirstStanding ==
  ASSUME NEW L, NEW A, A = L.accounts, NEW s, s = L.transfers, NEW R,
         \A id \in DOMAIN A : \E b \in R : b.id = id,
         \A b \in R : /\ b.id \in DOMAIN A /\ b.dr = 0 /\ b.cr = 0
                       /\ b = Account(b.id, LedgerOf[b.id], LimitOf[b.id], A[b.id].ts, b.dr, b.cr, b.drp, b.crp),
         \A b \in R : \A d \in R : b.id = d.id => b = d,
         \A side, id : Posted(s, side, id, 0) = 0
  PROVE  Standing(L, R, 0)
  BY DEF Standing

\* They stand where the history begins.
LEMMA EmptiedStand ==
  ASSUME NEW L, NEW S, NEW k, Standing(L, S, k), NEW R, R = {Emptied(a) : a \in S}, IsHistory(L.transfers),
         NEW q, IsRegular(q, S), NEW e, e = [i \in DOMAIN q |-> Emptied(q[i])]
  PROVE  Standing(L, R, 0) /\ IsRegular(e, R)
<1>1. PICK A, s, n : A = L.accounts /\ s = L.transfers /\ n = Len(q)
  OBVIOUS
<1>2. IsHistory(s) /\ IsList(q) /\ n \in Nat /\ DOMAIN q = 1..n
  BY <1>1, ListParts DEF IsRegular
<1>4. ASSUME NEW a \in S
      PROVE  /\ a.id \in DOMAIN A
             /\ a = Account(a.id, LedgerOf[a.id], LimitOf[a.id], A[a.id].ts, a.dr, a.cr, a.drp, a.crp)
             /\ Emptied(a) = Account(a.id, LedgerOf[a.id], LimitOf[a.id], A[a.id].ts, 0, 0, 0, 0)
  <2>1. PICK i, l, m, ts, d, c, p, x :
           /\ i = a.id /\ l = LedgerOf[a.id] /\ m = LimitOf[a.id] /\ ts = A[a.id].ts
           /\ d = a.dr /\ c = a.cr /\ p = a.drp /\ x = a.crp
    OBVIOUS
  <2>2. i \in DOMAIN A /\ a = Account(i, l, m, ts, d, c, p, x)
    BY <1>1, <2>1 DEF Standing
  <2>3. Emptied(a) = Account(i, l, m, ts, 0, 0, 0, 0)
    BY <2>2, EmptiedParts
  <2> QED
    BY <2>1, <2>2, <2>3
<1>5. ASSUME NEW a \in S
      PROVE  /\ Emptied(a).id = a.id /\ Emptied(a).dr = 0 /\ Emptied(a).cr = 0 /\ Emptied(a).ts = a.ts
             /\ Emptied(a).ledger = a.ledger
             /\ Emptied(a) = Account(a.id, LedgerOf[a.id], LimitOf[a.id], A[a.id].ts,
                                     Emptied(a).dr, Emptied(a).cr, Emptied(a).drp, Emptied(a).crp)
  <2>1. PICK b, id, l, m, ts : /\ b = Emptied(a) /\ id = a.id /\ l = LedgerOf[a.id] /\ m = LimitOf[a.id]
                               /\ ts = A[a.id].ts /\ b = Account(id, l, m, ts, 0, 0, 0, 0)
    BY <1>4
  <2>2. /\ b.id = id /\ b.dr = 0 /\ b.cr = 0 /\ b.drp = 0 /\ b.crp = 0 /\ b.ts = ts /\ b.ledger = l
    BY <2>1, AccountHas
  <2>3. a.ts = ts /\ a.ledger = l
    <3>1. PICK d, c, p, x : a = Account(id, l, m, ts, d, c, p, x)
      BY <1>4, <2>1
    <3> QED
      BY <3>1, AccountHas
  <2> QED
    BY <2>1, <2>2, <2>3
<1>6. Standing(L, R, 0)
  <2>1. ASSUME NEW id \in DOMAIN A PROVE \E b \in R : b.id = id
    <3>1. PICK a \in S : a.id = id
      BY <1>1 DEF Standing
    <3> QED
      BY <1>5, <3>1
  <2>2. ASSUME NEW b \in R
        PROVE  /\ b.id \in DOMAIN A /\ b.dr = 0 /\ b.cr = 0
               /\ b = Account(b.id, LedgerOf[b.id], LimitOf[b.id], A[b.id].ts, b.dr, b.cr, b.drp, b.crp)
    <3>1. PICK a \in S : b = Emptied(a)
      OBVIOUS
    <3> QED
      BY <1>4, <1>5, <3>1
  <2>3. ASSUME NEW b \in R, NEW d \in R, b.id = d.id PROVE b = d
    <3>1. PICK a \in S, c \in S : b = Emptied(a) /\ d = Emptied(c)
      OBVIOUS
    <3>2. a.id = c.id
      BY <1>5, <2>3, <3>1
    <3>3. a = c
      BY <3>2 DEF Standing
    <3> QED
      BY <3>1, <3>3
  <2>4. ASSUME NEW side, NEW id PROVE Posted(s, side, id, 0) = 0
    <3>1. PICK f, z : f = Postings(s, side, id) /\ z = 0
      OBVIOUS
    <3>2. Numbers(f, z) /\ z \in Nat
      BY <3>1 DEF Numbers
    <3>3. SumTo(f, 0) = 0
      BY <3>2, SumSteps
    <3> QED
      BY <3>1, <3>3 DEF Posted
  <2> QED
    BY <1>1, <2>1, <2>2, <2>3, <2>4, FirstStanding
<1>7. IsList(e) /\ Len(e) = n /\ \A i \in 1..n : e[i] = Emptied(q[i]) /\ q[i] \in S
  <2>1. e = [i \in 1..n |-> e[i]] /\ \A i \in 1..n : e[i] = Emptied(q[i])
    BY <1>2
  <2>2. IsList(e) /\ Len(e) = n
    BY <1>2, <2>1, ListOf
  <2> QED
    BY <1>1, <2>1, <2>2 DEF IsRegular
<1>0. \A b : b \in Range(e) <=> \E i \in 1..n : b = e[i]
  <2>1. \A b : b \in Range(e) <=> \E i \in 1..Len(e) : b = e[i]
    BY <1>7, ListParts
  <2> QED
    BY <1>7, <2>1
<1>8. ASSUME NEW i \in 1..n
      PROVE  e[i].ts = q[i].ts /\ e[i].id = q[i].id /\ e[i].ledger = q[i].ledger /\ e[i] \in R
  BY <1>5, <1>7
<1>9. InTime(e)
  BY <1>1, <1>7, <1>8 DEF InTime, IsRegular
<1>10. Range(e) = R
  <2>1. ASSUME NEW b \in R PROVE b \in Range(e)
    <3>1. PICK a \in S : b = Emptied(a)
      OBVIOUS
    <3>2. PICK i \in 1..n : a = q[i]
      BY <1>1, <1>2, ListParts DEF IsRegular
    <3> QED
      BY <1>7, <1>0, <3>1, <3>2
  <2>2. ASSUME NEW b \in Range(e) PROVE b \in R
    BY <1>8, <1>0, <2>2
  <2> QED
    BY <2>1, <2>2
<1>11. ASSUME NEW i \in 1..n, NEW j \in 1..n, e[i] = e[j] \/ e[i].id = e[j].id PROVE i = j
  <2>1. q[i].id = q[j].id
    BY <1>8, <1>11
  <2> QED
    BY <1>1, <2>1 DEF IsRegular
<1>12. n = Cardinality(R)
  <2>1. PICK B : B = 1..n
    OBVIOUS
  <2>2. IsFiniteSet(B) /\ Cardinality(B) = n
    <3>1. 1 \in Int /\ n \in Int
      BY <1>2
    <3> QED
      BY <1>2, <2>1, <3>1, FS_Interval
  <2>3. e = [i \in B |-> e[i]]
    BY <1>2, <2>1
  <2>4. R = {e[i] : i \in B}
    BY <1>10, <1>0, <2>1
  <2>5. \A x \in B : \A y \in B : e[x] = e[y] => x = y
    BY <1>11, <2>1
  <2> QED
    BY <2>2, <2>3, <2>4, <2>5, OneToOne
<1>13. LedgersIn(e) = LedgersOf(R)
  <2>0. LedgersIn(e) = {e[j].ledger : j \in 1..n}
    BY <1>7 DEF LedgersIn
  <2>1. ASSUME NEW i \in 1..n PROVE e[i].ledger \in LedgersOf(R)
    BY <1>8 DEF LedgersOf
  <2>2. ASSUME NEW b \in R PROVE b.ledger \in LedgersIn(e)
    <3>1. PICK i \in 1..n : b = e[i]
      BY <1>0, <1>10
    <3> QED
      BY <2>0, <3>1
  <2>3. LedgersIn(e) \subseteq LedgersOf(R)
    BY <2>0, <2>1
  <2>4. LedgersOf(R) \subseteq LedgersIn(e)
    BY <2>2 DEF LedgersOf
  <2> QED
    BY <2>3, <2>4
<1> QED
  BY <1>6, <1>7, <1>8, <1>9, <1>10, <1>11, <1>12, <1>13 DEF IsRegular

\* The accounts of a plan, without balances and alone, are all opened.
OpenedAlone(base, L, e) ==
  /\ Reopened(base, L) /\ DOMAIN base \subseteq DOMAIN L.accounts
  /\ CreateAccounts(EmptyLedger, e) = Start(base) /\ Cardinality(DOMAIN base) \in Nat

LEMMA AccountsOpened ==
  ASSUME NEW L, NEW now, IsSource(L, now), NEW c \in Nat, NEW e, e = AccountsOnly(PlanOf(L, c)).regular
  PROVE  /\ AccountsOnly(PlanOf(L, c)) = [genesis |-> <<>>, regular |-> e, synthetic |-> <<>>, windowed |-> <<>>]
         /\ IsList(e) /\ \E base : OpenedAlone(base, L, e)
<1>1. PICK k, W, S, p, plan : Planned(L, c, k, W, S, p) /\ plan = PlanOf(L, c)
  BY SourcePlanned
<1>2. PICK G, m, q, x : /\ G = GenesisAccounts(S) /\ m = Len(G) /\ q = RegularAccounts(S, m)
                        /\ plan = [genesis |-> G, regular |-> q, synthetic |-> x, windowed |-> plan.windowed]
  <2>1. PICK G, m, q : G = GenesisAccounts(S) /\ m = Len(G) /\ q = RegularAccounts(S, m)
    OBVIOUS
  <2>2. PICK x : p = [genesis |-> G, regular |-> q, synthetic |-> x, windowed |-> <<>>]
    BY <1>1, <2>1 DEF Planned, SnapshotOf, BuildSnapshot
  <2>3. plan = [p EXCEPT !.windowed = W] \/ plan = p
    BY <1>1 DEF Planned, PlannedOf, SnapshotOf, PlanOf, BuildWindowed, Build
  <2>4. plan = [genesis |-> G, regular |-> q, synthetic |-> x, windowed |-> plan.windowed]
    BY <2>2, <2>3
  <2> QED
    BY <2>1, <2>4
<1>3. /\ Plannable(S) /\ Standing(L, S, k) /\ k \in 0..Len(L.transfers)
      /\ IsHistory(L.transfers) /\ DOMAIN L.accounts \subseteq AccountIds
  BY <1>1 DEF Planned, Divides, IsSource
<1>4. IsGenesis(G, LedgersOf(S)) /\ IsFiniteSet(LedgersOf(S))
  BY <1>2, <1>3, GenesisParts DEF Plannable
<1>5. m \in Nat /\ m = 2 * Cardinality(LedgersOf(S))
  BY <1>2, <1>4, FS_CardinalityType DEF IsGenesis
<1>6. IsRegular(q, S)
  BY <1>2, <1>3, <1>5, RegularParts
<1>7. PICK none : none = <<>> /\ AccountsOnly(plan) = [genesis |-> none, regular |-> e, synthetic |-> none, windowed |-> none]
                  /\ e = [i \in DOMAIN q |-> Emptied(q[i])]
  <2>1. PICK d : d = [i \in DOMAIN q |-> [q[i] EXCEPT !.dr = 0, !.cr = 0, !.drp = 0, !.crp = 0]]
    OBVIOUS
  <2>2. AccountsOnly(plan) = [plan EXCEPT !.genesis = <<>>, !.synthetic = <<>>, !.windowed = <<>>, !.regular = d]
    <3>1. plan.regular = q
      BY <1>2
    <3> QED
      BY <2>1, <3>1 DEF AccountsOnly
  <2>3. PICK w : plan = [genesis |-> G, regular |-> q, synthetic |-> x, windowed |-> w]
    BY <1>2
  <2>4. AccountsOnly(plan) = [genesis |-> <<>>, regular |-> d, synthetic |-> <<>>, windowed |-> <<>>]
    BY <2>2, <2>3
  <2>5. e = d
    BY <1>1, <2>4
  <2>6. d = [i \in DOMAIN q |-> Emptied(q[i])]
    BY <2>1 DEF Emptied
  <2> QED
    BY <2>4, <2>5, <2>6
<1>8. PICK R : R = {Emptied(a) : a \in S}
  OBVIOUS
<1>9. Standing(L, R, 0) /\ IsRegular(e, R)
  <2>1. PICK d : d = [i \in DOMAIN q |-> Emptied(q[i])] /\ d = e
    BY <1>7
  <2>2. IsHistory(L.transfers) /\ Standing(L, S, k)
    BY <1>3
  <2>3. R = {Emptied(a) : a \in S}
    BY <1>8
  <2>4. Standing(L, R, 0) /\ IsRegular(d, R)
    BY <1>6, <2>1, <2>2, <2>3, EmptiedStand
  <2> QED
    BY <2>1, <2>4
<1>10. Plannable(R)
  <2>1. PICK z : z = 0 /\ z \in 0..Len(L.transfers)
    BY <1>3
  <2> QED
    BY <1>9, <2>1, StandingPlannable
<1>11. IsList(none) /\ Len(none) = 0 /\ IsList(e) /\ none \o e = e
  <2>1. IsList(e)
    BY <1>9 DEF IsRegular
  <2>2. <<>> \o e = e
    BY <2>1 DEF IsList
  <2> QED
    BY <1>7, <2>1, <2>2, NoList
<1>12. PICK no : no = {} /\ IsFiniteSet(no) /\ Cardinality(no) = 0
  BY FS_EmptySet
<1>13. IsGenesis(none, no)
  BY <1>7, <1>11, <1>12, NoList DEF IsGenesis
<1>14. IsFiniteSet(LedgersOf(R))
  <2>1. R = {Emptied(a) : a \in S} /\ IsFiniteSet(S)
    BY <1>3, <1>8 DEF Plannable
  <2>2. ASSUME NEW b \in R PROVE b.ledger \in LedgersOf(S)
    <3>1. PICK a \in S : b = Emptied(a)
      BY <1>8
    <3>2. PICK i, l, u, ts, d, f, y, z : a = Account(i, l, u, ts, d, f, y, z)
      BY <1>3 DEF Plannable
    <3>3. b.ledger = l /\ a.ledger = l
      BY <3>1, <3>2, EmptiedParts, AccountHas
    <3> QED
      BY <3>3 DEF LedgersOf
  <2>3. LedgersOf(R) \subseteq LedgersOf(S)
    BY <2>2 DEF LedgersOf
  <2> QED
    BY <1>4, <2>3, FS_Subset
<1>15. PICK base : OpenedAll(base, none, e, no)
  <2>1. no \subseteq LedgersOf(R)
    BY <1>12
  <2> QED
    BY <1>9, <1>10, <1>13, <1>14, <2>1, PlanOpened
<1>16. CreateAccounts(EmptyLedger, e) = Start(base) /\ IsBase(base) /\ Cardinality(DOMAIN base) = Len(e) /\ Len(e) \in Nat
  BY <1>11, <1>15, ListParts DEF OpenedAll
<1>17. ASSUME NEW id \in DOMAIN L.accounts
       PROVE  /\ id \in DOMAIN base
              /\ base[id].ledger = LedgerOf[id] /\ base[id].limit = LimitOf[id] /\ base[id].ts = L.accounts[id].ts
  <2>1. PICK b \in R : b.id = id
    BY <1>9 DEF Standing
  <2>2. b = Account(id, LedgerOf[id], LimitOf[id], L.accounts[id].ts, b.dr, b.cr, b.drp, b.crp)
    BY <1>9, <2>1 DEF Standing
  <2>3. b.ledger = LedgerOf[id] /\ b.limit = LimitOf[id] /\ b.ts = L.accounts[id].ts
    BY <2>2, AccountHas
  <2>4. PICK i \in 1..Len(e) : b = e[i]
    BY <1>9, ListParts DEF IsRegular
  <2>5. id \in DOMAIN base /\ base[id] = Account(id, b.ledger, b.limit, b.ts, 0, 0, 0, 0)
    BY <1>15, <2>1, <2>4 DEF OpenedAll
  <2>6. base[id].ledger = b.ledger /\ base[id].limit = b.limit /\ base[id].ts = b.ts
    BY <2>5, AccountHas
  <2> QED
    BY <2>3, <2>5, <2>6
<1>18. Reopened(base, L)
  BY <1>16, <1>17 DEF Reopened
<1>19. DOMAIN base \subseteq DOMAIN L.accounts
  <2>1. PICK n, f, B : n = Len(e) /\ B = 1..n /\ f = [i \in B |-> e[i].id]
    OBVIOUS
  <2>2. f = [i \in B |-> f[i]] /\ \A i \in B : f[i] = e[i].id
    BY <2>1
  <2>3. IsFiniteSet(B) /\ Cardinality(B) = n
    <3>1. 1 \in Int /\ n \in Int
      BY <1>16, <2>1
    <3> QED
      BY <1>16, <2>1, <3>1, FS_Interval
  <2>4. \A i \in B : \A j \in B : f[i] = f[j] => i = j
    BY <1>9, <2>1, <2>2 DEF IsRegular
  <2>5. PICK D : D = {f[i] : i \in B} /\ Cardinality(D) = n
    <3>1. PICK D : D = {f[i] : i \in B}
      OBVIOUS
    <3>2. Cardinality(D) = Cardinality(B)
      BY <2>2, <2>3, <2>4, <3>1, OneToOne
    <3> QED
      BY <2>3, <3>1, <3>2
  <2>6. \A i \in B : e[i].id \in DOMAIN base /\ e[i].id \in DOMAIN L.accounts
    BY <1>9, <1>15, <2>1 DEF OpenedAll, IsRegular, Standing
  <2>7. D \subseteq DOMAIN base /\ D \subseteq DOMAIN L.accounts
    BY <2>2, <2>5, <2>6
  <2>8. IsFiniteSet(DOMAIN base)
    <3>1. LedgerShape(EmptyLedger)
      BY NoList, FS_EmptySet DEF LedgerShape, EmptyLedger
    <3>2. LedgerShape(Start(base))
      BY <1>11, <1>16, <3>1, AccountsTaken
    <3> QED
      BY <3>2 DEF LedgerShape, Start, LedgerAt
  <2>9. D = DOMAIN base
    BY <1>16, <2>1, <2>5, <2>7, <2>8, FS_Subset
  <2> QED
    BY <2>7, <2>9
<1>20. OpenedAlone(base, L, e)
  BY <1>16, <1>18, <1>19 DEF OpenedAlone
<1> QED
  BY <1>1, <1>7, <1>11, <1>20

\* A migration with accounts alone opens all of them.
LEMMA AccountsImported ==
  ASSUME NEW L, NEW now, IsSource(L, now),
         NEW T, T = Imported(EmptyLedger, AccountsOnly(Build(AccountsOf(L))))
  PROVE  \E base : Reopened(base, L) /\ T = Start(base) /\ Cardinality(DOMAIN base) \in Nat
<1>1. PICK c, plan, e, none : /\ c = 0 /\ c \in Nat /\ plan = AccountsOnly(PlanOf(L, c)) /\ none = <<>>
                              /\ e = plan.regular /\ T = Imported(EmptyLedger, plan)
  <2>1. PICK c \in Nat : c = 0
    OBVIOUS
  <2>2. PlanOf(L, c) = Build(AccountsOf(L))
    BY <2>1 DEF PlanOf
  <2> QED
    BY <2>1, <2>2
<1>2. plan = [genesis |-> none, regular |-> e, synthetic |-> none, windowed |-> none] /\ IsList(e)
  BY <1>1, AccountsOpened
<1>3. PICK base : OpenedAlone(base, L, e)
  BY <1>1, AccountsOpened
<1>4. none \o e = e /\ none \o none = none
  <2>1. e \in Seq(Range(e))
    BY <1>2 DEF IsList
  <2> QED
    BY <1>1, <2>1
<1>5. plan.genesis = none /\ plan.regular = e /\ plan.synthetic = none /\ plan.windowed = none
  BY <1>2
<1>6. T = CreateTransfers(CreateAccounts(EmptyLedger, e), none)
  BY <1>1, <1>4, <1>5 DEF Imported
<1> QED
  BY <1>1, <1>3, <1>6, NoTransfers DEF OpenedAlone

\* The transfers of a CSV file: those of s, in that order, at times near.
Rounded(C, s, n) ==
  /\ IsList(C) /\ Len(C) = n /\ Ordered(C)
  /\ \A i \in 1..n : Repeats(s[i], C[i])

CsvOf(s, grain, up) ==
  LET RoundedTs(ts) == IF up THEN ((ts + grain - 1) \div grain) * grain ELSE (ts \div grain) * grain
  IN  [i \in DOMAIN s |-> [s[i] EXCEPT !.ts = RoundedTs(@)]]

LEMMA CsvRounds ==
  ASSUME NEW s, IsList(s), InTime(s), NEW n \in Nat, n = Len(s), \A i \in 1..n : IsTransfer(s[i]),
         NEW g \in Nat \ {0}, NEW up \in BOOLEAN, NEW C, C = CsvOf(s, g, up)
  PROVE  Rounded(C, s, n)
<1>1. DOMAIN s = 1..n
  BY ListParts
<1>2. IsList(C) /\ Len(C) = n
  <2>1. C = [i \in 1..n |-> C[i]]
    BY <1>1 DEF CsvOf
  <2> QED
    BY <2>1, ListOf
<1>3. ASSUME NEW i \in 1..n
      PROVE  /\ s[i].ts \in Nat /\ Rounds(C[i].ts, s[i].ts, g, up) /\ AtTime(s[i], C[i])
  <2>1. PICK o, t, r : /\ o = s[i] /\ t = o.ts
                       /\ r = IF up THEN ((t + g - 1) \div g) * g ELSE (t \div g) * g
    OBVIOUS
  <2>2. C[i] = [o EXCEPT !.ts = r]
    BY <1>1, <2>1 DEF CsvOf
  <2>3. IsTransfer(o) /\ t \in Nat
    BY <2>1 DEF InTime
  <2>4. PICK x : x = [o EXCEPT !.ts = r] /\ C[i] = x
    BY <2>2
  <2>5. AtTime(o, x) /\ x.ts = r
    BY <2>3, <2>4, Retimed
  <2>6. Rounds(r, t, g, up)
    <3>1. CASE up = TRUE
      BY <2>1, <2>3, <3>1, RoundedUp
    <3>2. CASE up = FALSE
      BY <2>1, <2>3, <3>2, RoundedDown
    <3> QED
      BY <3>1, <3>2
  <2> QED
    BY <2>1, <2>3, <2>4, <2>5, <2>6
<1>4. ASSUME NEW i \in 1..n PROVE Repeats(s[i], C[i])
  BY <1>3 DEF Repeats, Rounds, RoundedTo
<1>5. Ordered(C)
  <2>1. ASSUME NEW i \in 1..n, NEW j \in 1..n, i < j PROVE C[i].ts <= C[j].ts
    <3>1. PICK t, u, r, x : t = s[i].ts /\ u = s[j].ts /\ r = C[i].ts /\ x = C[j].ts
      OBVIOUS
    <3>2. t \in Nat /\ u \in Nat /\ t < u
      BY <2>1, <3>1 DEF InTime
    <3>3. Rounds(r, t, g, up) /\ Rounds(x, u, g, up) /\ t <= u
      BY <1>3, <3>1, <3>2
    <3>4. r <= x
      BY <3>2, <3>3, RoundedInOrder
    <3> QED
      BY <3>1, <3>4
  <2>2. \A i \in 1..n : C[i].ts \in Nat
    BY <1>4 DEF Repeats
  <2> QED
    BY <1>2, <2>1, <2>2 DEF Ordered
<1> QED
  BY <1>2, <1>4, <1>5 DEF Rounded

LEMMA RepeatsOn ==
  ASSUME NEW o, NEW x, Repeats(o, x), NEW t, AtTime(x, t), t.ts \in Nat
  PROVE  Repeats(o, t)
  BY DEF Repeats, AtTime

\* What is left of them after place k, made later where they have to be.
LEMMA WindowCopied ==
  ASSUME NEW s, InTime(s), NEW n \in Nat, n = Len(s), NEW C, Rounded(C, s, n), NEW k \in 0..n, NEW P, IsPiece(P, C, k, n),
         NEW floor \in Nat, NEW v \in Nat, v = n - k, NEW D, D = DedupeTimestamps(SortedByTimestamp(P), floor)
  PROVE  /\ CopyFrom(D, s, k, v)
         /\ \A i \in 1..v : floor < D[i].ts /\ AtTime(C[k + i], D[i]) /\ C[k + i].ts <= D[i].ts
<1>1. IsList(P) /\ Len(P) = v
  BY DEF IsPiece
<1>2. ASSUME NEW i \in 1..v
      PROVE  /\ P[i] = C[k + i] /\ k + i \in 1..n /\ Repeats(s[k + i], P[i])
             /\ s[k + i].ts \in Nat /\ P[i].ts \in Nat /\ IsTransfer(P[i])
  <2>1. PICK x \in 1..n : x = k + i
    OBVIOUS
  <2>2. P[i] = C[x]
    BY <2>1 DEF IsPiece
  <2>3. Repeats(s[x], C[x]) /\ s[x].ts \in Nat
    BY DEF Rounded, InTime
  <2> QED
    BY <2>1, <2>2, <2>3 DEF Repeats, AtTime
<1>3. Ordered(P)
  <2>1. ASSUME NEW i \in 1..v, NEW j \in 1..v, i < j PROVE P[i].ts <= P[j].ts
    <3>1. PICK x \in 1..n, y \in 1..n : x = k + i /\ y = k + j
      OBVIOUS
    <3>2. C[x].ts <= C[y].ts
      BY <2>1, <3>1 DEF Rounded, Ordered
    <3> QED
      BY <1>2, <3>1, <3>2
  <2> QED
    BY <1>1, <1>2, <2>1 DEF Ordered
<1>4. D = DedupeTimestamps(P, floor)
  BY <1>1, <1>3, SortedAlready
<1>5. LaterThan(D, P, v, floor)
  BY <1>1, <1>2, <1>4, AllLater
<1>6. ASSUME NEW i \in 1..v
      PROVE  /\ Repeats(s[k + i], D[i]) /\ floor < D[i].ts
             /\ AtTime(C[k + i], D[i]) /\ C[k + i].ts <= D[i].ts
  <2>1. PICK o, x, t : o = s[k + i] /\ x = P[i] /\ t = D[i]
    OBVIOUS
  <2>2. AtTime(x, t) /\ x.ts <= t.ts /\ floor < t.ts /\ t.ts \in Nat
    BY <1>5, <2>1 DEF LaterThan
  <2>3. Repeats(o, x) /\ x = C[k + i]
    BY <1>2, <2>1
  <2>4. Repeats(o, t)
    BY <2>2, <2>3, RepeatsOn
  <2> QED
    BY <2>1, <2>2, <2>3, <2>4
<1>7. IsList(D) /\ Len(D) = v /\ \A i \in 1..v : \A j \in 1..v : i < j => D[i].ts < D[j].ts
  BY <1>5 DEF LaterThan
<1> QED
  BY <1>6, <1>7 DEF CopyFrom

\* The accounts leave room for n transfers before the cutoff.
HasRoom(base, c, n) == \A id \in DOMAIN base : base[id].ts < c - n

\* The aggregated transfers come first, and post what the ones before the
\* cutoff have posted.
LEMMA PairsLead ==
  ASSUME NEW L, NEW now, IsSource(L, now), NEW base, Reopened(base, L), NEW s, s = L.transfers,
         NEW n \in Nat, n <= MaxTransfers, NEW C, Rounded(C, s, n), NEW k \in 0..n, Plain(s, k),
         NEW P, IsPiece(P, C, 0, k), NEW c \in Nat, c > 0, HasRoom(base, c, n),
         NEW pairs \in SetToSeqs({PairOf(t) : t \in Range(P)}), NEW Q, Q = Aggregated(P, pairs, c)
  PROVE  \E m \in Nat : Leads(Q, m, base, s, k, c - 1) /\ SameSums(Q, m, s, k)
<1>1. IsList(P) /\ Len(P) = k /\ k \in Nat
  BY DEF IsPiece
<1>2. ASSUME NEW i \in 1..k PROVE i \in 1..n /\ P[i] = C[i] /\ Repeats(s[i], P[i])
  <2>1. i \in 1..n /\ P[i] = C[i]
    BY DEF IsPiece
  <2> QED
    BY <2>1 DEF Rounded
<1>3. ASSUME NEW i \in 1..k
      PROVE  /\ Single(base, s[i]) /\ s[i].ledger = P[i].ledger /\ P[i].kind = "single" /\ P[i].amount \in Nat /\ s[i].kind = "single"
             /\ s[i].amount = P[i].amount /\ s[i].debit = P[i].debit /\ s[i].credit = P[i].credit
  <2>1. PICK o, t : o = s[i] /\ t = P[i]
    OBVIOUS
  <2>2. Repeats(o, t) /\ IsTransfer(o)
    BY <1>2, <2>1 DEF Plain
  <2>3. i \in 1..Len(s)
    <3>1. Len(s) \in Nat
      BY ListParts DEF IsSource, IsHistory
    <3> QED
      BY <1>1, <3>1 DEF Plain
  <2>4. Postdates(base, o) /\ o.ts \in Nat
    BY <2>1, <2>3, SourcePostdates
  <2>5. Repeats(o, o)
    BY <2>2, <2>4 DEF Repeats, AtTime
  <2>6. IthTaken(base, i, o)
    BY <1>1, <2>1, <2>4, <2>5, SourceTransfer
  <2> QED
    BY <2>1, <2>2, <2>6 DEF IthTaken, Single, Repeats, AtTime
<1>4. SinglePhased(P, k)
  BY <1>1, <1>3 DEF SinglePhased
<1>5. PICK m \in Nat : m <= k /\ Paired(P, k, pairs, m)
  <2>1. PICK R : R = {PairOf(t) : t \in Range(P)}
    OBVIOUS
  <2>2. pairs \in SetToSeqs(R)
    BY <2>1
  <2> QED
    BY <1>1, <2>1, <2>2, PairsOnce
<1>6. /\ IsList(Q) /\ Len(Q) = m
      /\ \A i \in 1..m :
            /\ Q[i].id = i /\ Q[i].kind = "single" /\ Q[i].ts = Minus(c, m) + (i - 1)
            /\ Q[i].debit = pairs[i][1] /\ Q[i].credit = pairs[i][2] /\ Q[i].ledger = pairs[i][3]
            /\ Q[i].amount \in Nat
  <2>1. AreAggregated(Q, P, k, pairs, m, c)
    BY <1>1, <1>4, <1>5, AggregatedParts
  <2> QED
    BY <2>1 DEF AreAggregated
<1>7. m <= n /\ m <= MaxTransfers /\ MaxTransfers \in Nat /\ FirstAppId \in Nat /\ MaxTransfers < FirstAppId
  BY <1>5, BoundAssumption, IdAssumption
<1>8. ASSUME NEW i \in 1..m
      PROVE  Single(base, Q[i]) /\ Q[i].ts = c - m + (i - 1) /\ m < c
  <2>1. PICK j \in 1..k : pairs[i] = PairOf(P[j])
    BY <1>5 DEF Paired
  <2>2. PICK t, q : t = s[j] /\ q = Q[i]
    OBVIOUS
  <2>3. q.debit = t.debit /\ q.credit = t.credit /\ q.ledger = t.ledger
    <3>1. PICK p : p = P[j] /\ pairs[i] = PairOf(p)
      BY <2>1
    <3>2. q.debit = p.debit /\ q.credit = p.credit /\ q.ledger = p.ledger
      BY <1>6, <2>2, <3>1 DEF PairOf
    <3>3. t.debit = p.debit /\ t.credit = p.credit /\ t.ledger = p.ledger
      BY <1>3, <2>2, <3>1
    <3> QED
      BY <3>2, <3>3
  <2>4. Single(base, t)
    BY <1>3, <2>2
  <2>5. ASSUME NEW id \in {t.debit, t.credit}
        PROVE  id \in DOMAIN base /\ base[id].ts \in Nat /\ base[id].ts < c - n
    <3>1. id \in DOMAIN base
      BY <2>4 DEF Single
    <3> QED
      BY <3>1 DEF HasRoom, Reopened, IsBase
  <2>6. m < c
    <3>1. PICK ts \in Nat : ts < c - n
      BY <2>5
    <3> QED
      BY <1>7, <3>1
  <2>7. q.ts = c - m + (i - 1)
    BY <1>6, <2>2, <2>6 DEF Minus
  <2>8. q.kind = "single" /\ q.amount \in Nat
    BY <1>6, <2>2
  <2>9. ASSUME NEW id \in {t.debit, t.credit} PROVE base[id].ts < q.ts
    BY <1>7, <2>5, <2>7
  <2>10. Single(base, q)
    BY <2>3, <2>4, <2>8, <2>9 DEF Single
  <2> QED
    BY <2>2, <2>6, <2>7, <2>10
<1>9. ASSUME NEW i \in 1..m
      PROVE  Q[i].id \in Nat /\ Q[i].id < FirstAppId /\ Q[i].ts \in Nat /\ Q[i].ts <= c - 1
  <2>1. Q[i].id = i /\ Q[i].ts = c - m + (i - 1) /\ m < c
    BY <1>6, <1>8
  <2> QED
    BY <1>7, <2>1
<1>10. ASSUME NEW i \in 1..m, NEW j \in 1..m, i < j PROVE Q[i].id # Q[j].id /\ Q[i].ts < Q[j].ts
  <2>1. Q[i].id = i /\ Q[i].ts = c - m + (i - 1) /\ Q[j].id = j /\ Q[j].ts = c - m + (j - 1)
    BY <1>6, <1>8
  <2> QED
    BY <1>10, <2>1
<1>11. Leads(Q, m, base, s, k, c - 1)
  BY <1>6, <1>8, <1>9, <1>10 DEF Leads
<1>12. ASSUME NEW side, NEW id PROVE Posted(Q, side, id, m) = Posted(s, side, id, k)
  <2>1. Posted(Q, side, id, m) = Posted(P, side, id, k)
    BY <1>4, <1>5, AggregatedSums
  <2>2. PICK f, e : f = Postings(s, side, id) /\ e = Postings(P, side, id)
    OBVIOUS
  <2>3. ASSUME NEW i \in 1..k PROVE e[i] = f[i] /\ f[i] \in Int
    <3>1. f[i] = IF OnSide(s[i], side, id) THEN Posts(s[i]) ELSE 0
      <4>1. Len(s) \in Nat
        BY ListParts DEF IsSource, IsHistory
      <4>2. i \in 1..Len(s)
        BY <1>1, <4>1 DEF Plain
      <4> QED
        BY <2>2, <4>2 DEF Postings
    <3>2. e[i] = IF OnSide(P[i], side, id) THEN Posts(P[i]) ELSE 0
      BY <1>1, <2>2 DEF Postings
    <3>3. Posts(s[i]) = Posts(P[i]) /\ Posts(P[i]) \in Nat /\ (OnSide(s[i], side, id) <=> OnSide(P[i], side, id))
      BY <1>3 DEF Posts, OnSide
    <3> QED
      BY <3>1, <3>2, <3>3
  <2>4. Numbers(f, k) /\ \A i \in 1..k : e[i] = f[i]
    BY <2>3 DEF Numbers
  <2>5. \A j \in 0..k : SumTo(e, j) = SumTo(f, j)
    BY <1>1, <2>4, SumSame
  <2>6. SumTo(e, k) = SumTo(f, k)
    BY <1>1, <2>5
  <2> QED
    BY <2>1, <2>2, <2>6 DEF Posted
<1> QED
  BY <1>11, <1>12 DEF SameSums

-----------------------------------------------------------------------------
(***************************************************************************)
(* A CSV file's plan, split at the cutoff.                                 *)
(***************************************************************************)

\* The transfers Q and D, imported one after the other, bring all that the
\* source has.
TakesAll(base, L, s, n, Q, D) ==
  /\ IsList(Q) /\ IsList(D) /\ Len(Q \o D) \in Nat
  /\ Size(CreateTransfers(Start(base), Q \o D)) = Cardinality(DOMAIN base) + Len(Q \o D)
  /\ \A id \in DOMAIN L.accounts :
        /\ CreateTransfers(Start(base), Q \o D).accounts[id].dr = Posted(s, "debit", id, n)
        /\ CreateTransfers(Start(base), Q \o D).accounts[id].cr = Posted(s, "credit", id, n)

LEMMA BothTaken ==
  ASSUME NEW L, NEW now, IsSource(L, now), NEW base, Reopened(base, L), NEW s, s = L.transfers,
         NEW n \in Nat, n = Len(s), Plain(s, n), NEW k \in 0..n, NEW v \in Nat, v = n - k, NEW D, CopyFrom(D, s, k, v),
         AllPostdate(base, D, v), NEW floor \in Nat, \A i \in 1..v : floor < D[i].ts,
         NEW m \in Nat, NEW Q, Leads(Q, m, base, s, k, floor), SameSums(Q, m, s, k)
  PROVE  TakesAll(base, L, s, n, Q, D)
<1>1. PICK W, T : W = Q \o D /\ T = CreateTransfers(Start(base), W)
  OBVIOUS
<1>2. Acceptable(base, W) /\ InTurn(W, Q, D, m, v)
  BY <1>1, BothAccepted
<1>3. IsList(Q) /\ Len(Q) = m /\ IsList(D)
  BY DEF Leads, CopyFrom
<1>4. n = Len(s) /\ AllPost(s, n)
  BY DEF Posts, IsSource, IsHistory, AllPost
<1>5. AllPost(Q, m)
  BY DEF Leads, Single, Posts, AllPost
<1>10. PICK w \in Nat : w = m + v
  OBVIOUS
<1>6. SameSums(W, w, s, n)
  BY <1>2, <1>3, <1>4, <1>5, <1>10, BothSum
<1>11. w = Len(W)
  BY <1>2, <1>10 DEF InTurn
<1>7. IsBase(base) /\ \A id \in DOMAIN L.accounts : id \in DOMAIN base
  BY DEF Reopened
<1>8. AllThere(base, T, W, w)
  BY <1>1, <1>2, <1>7, <1>11, ListTaken
<1>9. ASSUME NEW id \in DOMAIN L.accounts
      PROVE  T.accounts[id].dr = Posted(s, "debit", id, n) /\ T.accounts[id].cr = Posted(s, "credit", id, n)
  BY <1>6, <1>7, <1>8 DEF SameSums, AllThere
<1> QED
  BY <1>1, <1>3, <1>8, <1>9, <1>11 DEF TakesAll, AllThere

\* A plan of transfers: Q stands for the first k of s, D has the others.
SplitsAt(plan, base, s, n, k, v, m, floor, Q, D) ==
  /\ plan = CsvPlan(Q, D) /\ k \in 0..n /\ v \in Nat /\ v = n - k /\ m \in Nat /\ floor \in Nat
  /\ CopyFrom(D, s, k, v) /\ AllPostdate(base, D, v) /\ \A i \in 1..v : floor < D[i].ts
  /\ Leads(Q, m, base, s, k, floor) /\ SameSums(Q, m, s, k)

\* Those before the cutoff have one phase, and accounts without limits.
PlainBefore(C, s, n, c) ==
  c > 0 => \A k \in 0..n : (\A i \in 1..n : C[i].ts < c <=> i <= k) => Plain(s, k)

\* The rows of a file may be imported: without a cutoff as they are, with one if
\* there is room for the aggregated ones.
RowsFit(base, C, c, n) == IF c = 0 THEN AllPostdate(base, C, n) ELSE HasRoom(base, c, n)

\* Whatever the order of the pairs is.
LEMMA CsvSplit ==
  ASSUME NEW L, NEW now, IsSource(L, now), NEW base, Reopened(base, L), NEW s, s = L.transfers,
         NEW n \in Nat, n = Len(s), n <= MaxTransfers, NEW C, Rounded(C, s, n), NEW c \in Nat,
         PlainBefore(C, s, n, c), RowsFit(base, C, c, n), NEW plan \in FromCsv(C, c)
  PROVE  \E k, v, m, floor, Q, D : SplitsAt(plan, base, s, n, k, v, m, floor, Q, D)
<1>1. InTime(s) /\ n = Len(s)
  BY DEF IsSource, Timely
<1>2. CASE c = 0
  <2>1. PICK Q, D, k, m : /\ Q = <<>> /\ D = DedupeTimestamps(SortedByTimestamp(C), 0) /\ plan = CsvPlan(Q, D)
                          /\ k = 0 /\ m = 0
    BY <1>2 DEF FromCsv
  <2>2. IsPiece(C, C, k, n) /\ n = n - k /\ k \in 0..n /\ m \in Nat
    BY <2>1 DEF IsPiece, Rounded
  <2>3. PICK floor : floor = 0 /\ floor \in Nat /\ D = DedupeTimestamps(SortedByTimestamp(C), floor)
    BY <2>1
  <2>4. /\ CopyFrom(D, s, k, n)
        /\ \A i \in 1..n : floor < D[i].ts /\ AtTime(C[k + i], D[i]) /\ C[k + i].ts <= D[i].ts
    BY <1>1, <2>2, <2>3, WindowCopied
  <2>8. AllPostdate(base, D, n)
    <3>1. ASSUME NEW i \in 1..n PROVE Postdates(base, D[i])
      <4>1. PICK x, t : x = C[i] /\ t = D[i] /\ k + i = i
        BY <2>1
      <4>2. Postdates(base, x) /\ AtTime(x, t) /\ x.ts <= t.ts
        BY <1>2, <2>4, <4>1 DEF RowsFit, AllPostdate
      <4>3. x.ts \in Nat /\ t.ts \in Nat /\ Repeats(s[i], x)
        BY <2>4, <4>1 DEF Rounded, Repeats, CopyFrom
      <4>4. ASSUME NEW id \in {x.debit, x.credit} PROVE base[id].ts \in Nat
        <5>1. id \in {s[i].debit, s[i].credit}
          BY <4>3 DEF Repeats, AtTime
        <5> QED
          BY <1>1, <5>1, SourcePostdates
      <4>5. t.debit = x.debit /\ t.credit = x.credit
        BY <4>2 DEF AtTime
      <4>6. ASSUME NEW id \in {t.debit, t.credit} PROVE base[id].ts < t.ts
        <5>1. id \in {x.debit, x.credit}
          BY <4>5, <4>6
        <5>2. base[id].ts \in Nat /\ base[id].ts < x.ts
          BY <4>2, <4>4, <5>1 DEF Postdates
        <5> QED
          BY <4>2, <4>3, <5>2
      <4> QED
        BY <4>1, <4>6 DEF Postdates
    <3> QED
      BY <3>1 DEF AllPostdate
  <2>5. Leads(Q, m, base, s, k, floor)
    <3>1. IsList(<<>>) /\ Len(<<>>) = 0 /\ 1..0 = {}
      BY NoList
    <3> QED
      BY <2>1, <3>1 DEF Leads
  <2>6. SameSums(Q, m, s, k)
    <3>1. ASSUME NEW side, NEW id, NEW f PROVE SumTo(f, 0) = 0
      <4>1. PICK z \in Nat : z = 0 /\ Numbers(f, z)
        <5>1. \A i \in 1..0 : f[i] \in Int
          OBVIOUS
        <5> QED
          BY <5>1 DEF Numbers
      <4> QED
        BY <4>1, SumSteps
    <3> QED
      BY <2>1, <3>1 DEF SameSums, Posted
  <2>7. SplitsAt(plan, base, s, n, k, n, m, floor, Q, D)
    BY <2>1, <2>2, <2>3, <2>4, <2>5, <2>6, <2>8 DEF SplitsAt
  <2> QED
    BY <2>7
<1>3. CASE c # 0
  <2>1. PICK pre, post, floor : pre = Until(C, c) /\ post = Since(C, c) /\ floor = Minus(c, 1)
    OBVIOUS
  <2>2. PICK pairs \in SetToSeqs({PairOf(t) : t \in Range(pre)}) :
           plan = CsvPlan(Aggregated(pre, pairs, c), DedupeTimestamps(SortedByTimestamp(post), floor))
    BY <1>3, <2>1, CsvParts
  <2>3. PICK Q, D : /\ Q = Aggregated(pre, pairs, c) /\ D = DedupeTimestamps(SortedByTimestamp(post), floor)
                    /\ plan = CsvPlan(Q, D)
    BY <2>2
  <2>4. c > 0 /\ HasRoom(base, c, n) /\ floor = c - 1 /\ floor \in Nat
    BY <1>3, <2>1 DEF Minus, RowsFit
  <2>5. PICK k \in 0..n : /\ \A i \in 1..n : C[i].ts < c <=> i <= k
                          /\ IsPiece(pre, C, 0, k) /\ IsPiece(post, C, k, n)
    <3>1. IsList(C) /\ Ordered(C) /\ n = Len(C)
      BY DEF Rounded
    <3> QED
      BY <2>1, <3>1, CutOrdered
  <2>6. PICK v \in Nat : v = n - k
    <3>1. n - k \in Nat
      BY <2>5
    <3> QED
      BY <3>1
  <2>7. CopyFrom(D, s, k, v) /\ \A i \in 1..v : floor < D[i].ts
    BY <1>1, <2>3, <2>4, <2>5, <2>6, WindowCopied
  <2>11. AllPostdate(base, D, v)
    <3>1. ASSUME NEW i \in 1..v PROVE Postdates(base, D[i])
      <4>1. PICK x \in 1..n : x = k + i
        BY <2>6
      <4>0. PICK t : t = D[i]
        OBVIOUS
      <4>2. Repeats(s[x], t) /\ floor < t.ts
        BY <2>7, <4>0, <4>1 DEF CopyFrom
      <4>3. ASSUME NEW id \in {t.debit, t.credit} PROVE base[id].ts < t.ts
        <5>1. id \in {s[x].debit, s[x].credit} /\ t.ts \in Nat
          BY <4>2, <4>3 DEF Repeats, AtTime
        <5>2. id \in DOMAIN base /\ base[id].ts \in Nat
          BY <1>1, <5>1, SourcePostdates
        <5>3. base[id].ts < c - n
          BY <2>4, <5>2 DEF HasRoom
        <5> QED
          BY <2>4, <4>2, <5>1, <5>2, <5>3
      <4> QED
        BY <4>0, <4>3 DEF Postdates
    <3> QED
      BY <3>1 DEF AllPostdate
  <2>8. Plain(s, k)
    BY <2>4, <2>5 DEF PlainBefore
  <2>9. PICK m \in Nat : Leads(Q, m, base, s, k, floor) /\ SameSums(Q, m, s, k)
    <3>1. \E m \in Nat : Leads(Q, m, base, s, k, c - 1) /\ SameSums(Q, m, s, k)
      BY <2>2, <2>3, <2>4, <2>5, <2>8, PairsLead
    <3> QED
      BY <2>4, <3>1
  <2>10. SplitsAt(plan, base, s, n, k, v, m, floor, Q, D)
    BY <2>3, <2>4, <2>5, <2>6, <2>7, <2>9, <2>11 DEF SplitsAt
  <2> QED
    BY <2>10
<1> QED
  BY <1>2, <1>3

LEMMA CsvTaken ==
  ASSUME NEW L, NEW now, IsSource(L, now), NEW base, Reopened(base, L), NEW s, s = L.transfers,
         NEW n \in Nat, n = Len(s), Plain(s, n), n <= MaxTransfers, NEW C, Rounded(C, s, n), NEW c \in Nat,
         RowsFit(base, C, c, n), NEW plan \in FromCsv(C, c)
  PROVE  \E Q, D : plan = CsvPlan(Q, D) /\ TakesAll(base, L, s, n, Q, D)
<1>1. PlainBefore(C, s, n, c)
  BY DEF PlainBefore, Plain
<1>2. PICK k, v, m, floor, Q, D : SplitsAt(plan, base, s, n, k, v, m, floor, Q, D)
  BY <1>1, CsvSplit
<1>3. plan = CsvPlan(Q, D) /\ TakesAll(base, L, s, n, Q, D)
  BY <1>2, BothTaken DEF SplitsAt
<1> QED
  BY <1>3

\* What the bound and the fields of the source's transfers are.
IsBounded(s) == Len(s) <= MaxTransfers /\ \A i \in 1..Len(s) : IsTransfer(s[i])

LEMMA OneMoreBounded ==
  ASSUME NEW s, IsList(s), IsBounded(s), Len(s) < MaxTransfers, NEW t, IsTransfer(t), NEW q, q = Append(s, t)
  PROVE  IsBounded(q)
<1>1. PICK n \in Nat : n = Len(s)
  BY ListParts
<1>2. Len(q) = n + 1 /\ q[n + 1] = t /\ \A i \in 1..n : q[i] = s[i]
  BY <1>1, Appended
<1>3. ASSUME NEW i \in 1..Len(q) PROVE IsTransfer(q[i])
  <2>0. i \in 1..n \/ i = n + 1
    BY <1>2
  <2>1. CASE i \in 1..n
    BY <1>1, <1>2, <2>1 DEF IsBounded
  <2>2. CASE i = n + 1
    BY <1>2, <2>2
  <2> QED
    BY <2>0, <2>1, <2>2
<1>4. Len(q) <= MaxTransfers
  BY <1>1, <1>2, BoundAssumption
<1> QED
  BY <1>3, <1>4 DEF IsBounded

LEMMA SourcesBounded == LedgerSpec => []IsBounded(ledger.transfers)
<1>1. LedgerInit => IsBounded(ledger.transfers)
  <2>1. Len(<<>>) = 0 /\ 1..0 = {}
    BY NoList
  <2> QED
    BY <2>1, BoundAssumption DEF LedgerInit, EmptyLedger, IsBounded
<1>2. IsSource(ledger, clock) /\ IsBounded(ledger.transfers) /\ [LedgerNext]_ledgerVars
        => IsBounded(ledger.transfers)'
  <2> SUFFICES ASSUME IsSource(ledger, clock), IsBounded(ledger.transfers), [LedgerNext]_ledgerVars
               PROVE  IsBounded(ledger'.transfers)
    BY DEF IsBounded, IsTransfer
  <2>1. IsList(ledger.transfers)
    BY DEF IsSource, IsHistory
  <2>2. CASE UNCHANGED ledgerVars
    BY <2>2 DEF ledgerVars
  <2>3. ASSUME NEW id \in AccountIds, OpenAccount(id) PROVE IsBounded(ledger'.transfers)
    <3>1. ledger = [accounts |-> ledger.accounts, transfers |-> ledger.transfers]
      BY DEF IsSource
    <3>2. PICK a : ledger' = WithAccount(ledger, a)
      BY <2>3 DEF OpenAccount
    <3>3. ledger'.transfers = ledger.transfers
      BY <3>1, <3>2 DEF WithAccount
    <3> QED
      BY <3>3
  <2>4. ASSUME NEW t, IsTransfer(t), Create(t) PROVE IsBounded(ledger'.transfers)
    <3>1. Len(ledger.transfers) < MaxTransfers /\ ledger' = WithTransfer(ledger, t)
      BY <2>4 DEF Create
    <3>2. PICK s, q : s = ledger.transfers /\ q = Append(s, t) /\ ledger'.transfers = q
      BY <3>1 DEF WithTransfer
    <3> QED
      BY <2>1, <2>4, <3>1, <3>2, OneMoreBounded
  <2>5. ASSUME NEW kind, NEW debit, NEW credit, NEW amount, NEW pending,
               Create(Fields(kind, debit, credit, amount, pending))
        PROVE  IsBounded(ledger'.transfers)
    <3>1. IsTransfer(Fields(kind, debit, credit, amount, pending))
      BY DEF IsTransfer, TransferFields, Fields
    <3> QED
      BY <2>4, <2>5, <3>1
  <2>6. ASSUME NEW debit, NEW credit, NEW amount, Transfer(debit, credit, amount) \/ Reserve(debit, credit, amount)
        PROVE  IsBounded(ledger'.transfers)
    BY <2>5, <2>6 DEF Transfer, Reserve
  <2>7. ASSUME NEW p, Void(p) \/ \E amount \in Amounts : Post(p, amount) PROVE IsBounded(ledger'.transfers)
    BY <2>5, <2>7 DEF Void, Post
  <2> QED
    BY <2>2, <2>3, <2>6, <2>7 DEF LedgerNext
<1> QED
  BY <1>1, <1>2, SourcesGrow, PTL DEF LedgerSpec

LEMMA NoAccounts == \A L : CreateAccounts(L, <<>>) = L
<1> TAKE L
<1>1. PICK r : StepByStep(r, "accounts", 0, L, <<>>, CreateAccounts(L, <<>>))
  BY NoList, AccountsStepByStep
<1> QED
  BY <1>1, NoList DEF StepByStep

\* A ledger whose accounts have no balances.
LEMMA AtStart ==
  ASSUME NEW base, IsBase(base), NEW T, T = Start(base)
  PROVE  /\ Size(T) = Cardinality(DOMAIN base) + 0
         /\ \A id \in DOMAIN base : base[id].ts \in AccountTs(T) /\ T.accounts[id].ts = base[id].ts
<1>1. T.accounts = [id \in DOMAIN base |-> Holding(base[id], Nothing(base)[id], Nothing(base)[id])] /\ T.transfers = <<>>
  BY DEF Start, LedgerAt
<1>2. Size(T) = Cardinality(DOMAIN base) + 0
  BY <1>1, NoList DEF Size
<1>3. ASSUME NEW id \in DOMAIN base PROVE base[id].ts \in AccountTs(T) /\ T.accounts[id].ts = base[id].ts
  <2>1. PICK a, z, l, m, ts : a = T.accounts[id] /\ z = Nothing(base)[id] /\ l = base[id].ledger /\ m = base[id].limit /\ ts = base[id].ts
    OBVIOUS
  <2>2. PICK b : b = base[id] /\ b = Account(id, l, m, ts, 0, 0, 0, 0)
    BY <2>1 DEF IsBase
  <2>3. a = Holding(b, z, z)
    BY <1>1, <2>1, <2>2
  <2>4. Holding(b, z, z) = Account(id, l, m, ts, z, z, 0, 0)
    BY <2>2, AccountWith
  <2>5. a.ts = ts
    BY <2>3, <2>4, AccountHas
  <2>6. a \in Range(T.accounts)
    BY <1>1, <2>1 DEF Range
  <2> QED
    BY <2>1, <2>5, <2>6 DEF AccountTs, Timestamps
<1> QED
  BY <1>2, <1>3

LEMMA CsvsRestore ==
  ASSUME NEW now, now = clock, IsSource(ledger, now), IsBounded(ledger.transfers)
  PROVE  CsvRestoresBalances
<1>1. PICK L, s, n, A : /\ L = ledger /\ s = L.transfers /\ n = Len(s)
                        /\ A = Imported(EmptyLedger, AccountsOnly(Build(Accounts)))
  OBVIOUS
<1>2. IsSource(L, now) /\ IsHistory(s) /\ IsList(s) /\ InTime(s) /\ Tallied(L.accounts, s)
  BY <1>1 DEF IsSource, IsHistory, Timely
<1>3. n \in Nat /\ n <= MaxTransfers /\ \A i \in 1..n : IsTransfer(s[i]) /\ s[i] \in Range(s)
  BY <1>1, <1>2, ListParts DEF IsBounded
<1>4. PICK base : Reopened(base, L) /\ A = Start(base) /\ Cardinality(DOMAIN base) \in Nat
  BY <1>1, <1>2, AccountsImported DEF Accounts
<1>5. IsBase(base)
  BY <1>4 DEF Reopened
<1>6. /\ Size(A) = Cardinality(DOMAIN base) + 0
      /\ \A id \in DOMAIN base : base[id].ts \in AccountTs(A) /\ A.accounts[id].ts = base[id].ts
  BY <1>4, <1>5, AtStart
<1>7. ASSUME SinglePhase(ledger.transfers),
             \A t \in Range(ledger.transfers) : LimitOf[t.debit] = "none" /\ LimitOf[t.credit] = "none",
             NEW c \in EveryCutoff, NEW grain \in Grains, NEW up \in BOOLEAN,
             \/ c = 0 /\ AfterTheirAccounts(A, Csv(grain, up))
             \/ c # 0 /\ After(c - MaxTransfers, AccountTs(A)),
             NEW plan \in FromCsv(Csv(grain, up), c), NEW T, T = Imported(A, plan)
      PROVE  Complete(A, plan, T) /\ SameBalances(T)
  <2>1. c \in Nat
    BY CutoffsAreTimes
  <2>2. Plain(s, n)
    BY <1>1, <1>3, <1>7 DEF Plain, SinglePhase
  <2>3. PICK C : C = CsvOf(s, grain, up) /\ C = Csv(grain, up)
    BY <1>1 DEF CsvOf, Csv
  <2>4. grain \in Nat \ {0}
    BY ClockAssumption
  <2>5. Rounded(C, s, n)
    BY <1>1, <1>2, <1>3, <2>3, <2>4, CsvRounds
  <2>16. c = 0 => AllPostdate(base, C, n)
    <3>1. ASSUME c = 0, NEW i \in 1..n PROVE Postdates(base, C[i])
      <4>1. PICK t : t = C[i]
        OBVIOUS
      <4>2. IsList(C) /\ Len(C) = n /\ Repeats(s[i], t)
        BY <2>5, <4>1 DEF Rounded
      <4>3. t \in Range(C)
        BY <4>1, <4>2, ListParts DEF Range
      <4>4. A.accounts[t.debit].ts < t.ts /\ A.accounts[t.credit].ts < t.ts
        BY <1>7, <2>3, <3>1, <4>3 DEF AfterTheirAccounts, After
      <4>5. ASSUME NEW id \in {t.debit, t.credit} PROVE base[id].ts < t.ts
        <5>1. id \in {s[i].debit, s[i].credit}
          BY <4>2, <4>5 DEF Repeats, AtTime
        <5>2. id \in DOMAIN base
          <6>1. s = L.transfers /\ i \in 1..Len(s)
            BY <1>1
          <6>2. IsSource(L, now) /\ Reopened(base, L)
            BY <1>2, <1>4
          <6> QED
            BY <5>1, <6>1, <6>2, SourcePostdates
        <5>3. A.accounts[id].ts = base[id].ts
          BY <1>6, <5>2
        <5> QED
          BY <4>4, <4>5, <5>3
      <4> QED
        BY <4>1, <4>5 DEF Postdates
    <3> QED
      BY <3>1 DEF AllPostdate
  <2>6. RowsFit(base, C, c, n)
    <3>1. ASSUME c # 0, NEW id \in DOMAIN base PROVE base[id].ts < c - n
      <4>1. PICK ts \in Nat : ts = base[id].ts
        BY <1>5 DEF IsBase
      <4>2. ts < c - MaxTransfers
        BY <1>6, <1>7, <3>1, <4>1 DEF After
      <4> QED
        BY <1>3, <2>1, <4>1, <4>2, BoundAssumption
    <3>2. c # 0 => HasRoom(base, c, n)
      BY <3>1 DEF HasRoom
    <3> QED
      BY <2>16, <3>2 DEF RowsFit
  <2>7. plan \in FromCsv(C, c)
    BY <2>3
  <2>8. PICK Q, D : plan = CsvPlan(Q, D) /\ TakesAll(base, L, s, n, Q, D)
    BY <1>1, <1>2, <1>3, <1>4, <2>1, <2>2, <2>5, <2>6, <2>7, CsvTaken
  <2>9. PICK W, none : W = Q \o D /\ none = <<>>
    OBVIOUS
  <2>15. none \o none = none /\ Len(none) = 0
    BY <2>9, NoList
  <2>10. /\ plan.genesis = none /\ plan.regular = none /\ plan.synthetic = Q /\ plan.windowed = D
    BY <2>8, <2>9 DEF CsvPlan
  <2>11. T = CreateTransfers(Start(base), W)
    <3>1. CreateAccounts(A, none) = A
      BY <2>9, NoAccounts
    <3> QED
      BY <1>4, <1>7, <2>15, <2>9, <2>10, <3>1 DEF Imported
  <2>12. /\ Size(T) = Cardinality(DOMAIN base) + Len(W) /\ Len(W) \in Nat
         /\ \A id \in DOMAIN L.accounts : /\ T.accounts[id].dr = Posted(s, "debit", id, n)
                                          /\ T.accounts[id].cr = Posted(s, "credit", id, n)
    BY <2>8, <2>9, <2>11 DEF TakesAll
  <2>13. Complete(A, plan, T)
    BY <1>4, <1>6, <2>15, <2>9, <2>10, <2>12 DEF Complete
  <2>14. ASSUME NEW a \in Accounts PROVE T.accounts[a.id].dr = a.dr /\ T.accounts[a.id].cr = a.cr
    <3>1. PICK id \in DOMAIN L.accounts : a = L.accounts[id]
      BY <1>1 DEF Accounts, AccountsOf, Range
    <3>2. PICK l, m, ts, d, x, p, q : /\ a = Account(id, l, m, ts, d, x, p, q)
                                      /\ d = Posted(s, "debit", id, n) /\ x = Posted(s, "credit", id, n)
      BY <1>1, <1>2, <3>1 DEF Tallied
    <3>3. a.id = id /\ a.dr = d /\ a.cr = x
      BY <3>2, AccountHas
    <3> QED
      BY <2>12, <3>2, <3>3
  <2> QED
    BY <2>13, <2>14 DEF SameBalances
<1> QED
  BY <1>1, <1>7 DEF CsvRestoresBalances

\* A CSV file imported on top of the accounts restores every balance, whatever
\* the grain of its timestamps is, rounded up or down, and whatever order the
\* hash map gives the pairs: at every cutoff with room for the aggregated
\* transfers, and without one if the times in the file stay after those of the
\* accounts.
THEOREM CsvFilesRestoreBalances == LedgerSpec => []CsvRestoresBalances
<1>1. IsSource(ledger, clock) /\ IsBounded(ledger.transfers) => CsvRestoresBalances
  BY CsvsRestore
<1> QED
  BY <1>1, SourcesGrow, SourcesBounded, PTL

-----------------------------------------------------------------------------
(***************************************************************************)
(* What accounts have moved is what the transfers of their ledger post.    *)
(***************************************************************************)

\* Transfers with ids of their own, and the amounts they post.
Posting(s) ==
  /\ IsList(s) /\ \A i \in 1..Len(s) : Posts(s[i]) \in Nat
  /\ \A i \in 1..Len(s) : \A j \in 1..Len(s) : s[i].id = s[j].id => i = j

\* An account with what they have posted.
HasPosted(a, id, s) ==
  \E l, m, ts, p, q : a = Account(id, l, m, ts, Posted(s, "debit", id, Len(s)), Posted(s, "credit", id, Len(s)), p, q)

\* The accounts of a ledger have moved what its transfers post.
Accounted(L) ==
  /\ L = [accounts |-> L.accounts, transfers |-> L.transfers]
  /\ Posting(L.transfers)
  /\ \A i \in 1..Len(L.transfers) : {L.transfers[i].debit, L.transfers[i].credit} \subseteq DOMAIN L.accounts
  /\ \A id \in DOMAIN L.accounts : HasPosted(L.accounts[id], id, L.transfers)

LEMMA PostsNumbers ==
  ASSUME NEW s, Posting(s), NEW side, NEW id
  PROVE  /\ Len(s) \in Nat /\ Numbers(Postings(s, side, id), Len(s))
         /\ \A k \in 0..Len(s) : Posted(s, side, id, k) \in Nat
<1>1. PICK n, f : n = Len(s) /\ f = Postings(s, side, id) /\ n \in Nat
  BY ListParts DEF Posting
<1>2. \A i \in 1..n : f[i] \in Nat
  BY <1>1 DEF Posting, Postings
<1>3. Numbers(f, n) /\ Amounted(f, n)
  BY <1>2 DEF Numbers, Amounted
<1>4. \A k \in 0..n : SumTo(f, k) \in Nat
  BY <1>1, <1>3, SumGrows
<1> QED
  BY <1>1, <1>3, <1>4 DEF Posted

\* None of them has that id.
IsUnused(s, id) == \A i \in 1..Len(s) : s[i].id # id

LEMMA PostingMore ==
  ASSUME NEW s, Posting(s), NEW n, n = Len(s), NEW t, Posts(t) \in Nat, NEW u, u = Append(s, t), IsUnused(s, t.id)
  PROVE  /\ Posting(u) /\ Len(u) = n + 1 /\ n \in Nat
         /\ \A side, id : PostsMore(u, s, t, side, id, n)
<1>1. IsList(s) /\ n \in Nat
  BY ListParts DEF Posting
<1>2. IsList(u) /\ Len(u) = n + 1 /\ (\A i \in 1..n : u[i] = s[i]) /\ u[n + 1] = t
  BY <1>1, Appended
<1>3. \A i \in 1..(n + 1) : i \in 1..n \/ i = n + 1
  BY <1>1
<1>4. \A i \in 1..(n + 1) : Posts(u[i]) \in Nat
  BY <1>2, <1>3 DEF Posting
<1>5. ASSUME NEW i \in 1..(n + 1), NEW j \in 1..(n + 1), u[i].id = u[j].id PROVE i = j
  BY <1>2, <1>3, <1>5 DEF Posting, IsUnused
<1>6. Posting(u)
  BY <1>2, <1>4, <1>5 DEF Posting
<1>7. ASSUME NEW side, NEW id PROVE PostsMore(u, s, t, side, id, n)
  <2>1. PICK f, g, m : f = Postings(s, side, id) /\ g = Postings(u, side, id) /\ m \in Nat /\ m = n + 1
    BY <1>1
  <2>2. Numbers(f, n) /\ Numbers(g, m)
    BY <1>2, <1>6, <2>1, PostsNumbers
  <2>3. \A i \in 1..n : g[i] = f[i]
    <3>1. ASSUME NEW i \in 1..n PROVE g[i] = f[i]
      <4>1. f[i] = IF OnSide(s[i], side, id) THEN Posts(s[i]) ELSE 0
        BY <2>1 DEF Postings
      <4>2. i \in 1..(n + 1) /\ u[i] = s[i]
        BY <1>1, <1>2
      <4>3. g[i] = IF OnSide(u[i], side, id) THEN Posts(u[i]) ELSE 0
        BY <1>2, <2>1, <4>2 DEF Postings
      <4> QED
        BY <4>1, <4>2, <4>3
    <3> QED
      BY <3>1
  <2>4. \A k \in 0..n : SumTo(g, k) = SumTo(f, k)
    BY <1>1, <2>2, <2>3, SumSame
  <2>5. SumTo(g, n) = SumTo(f, n)
    BY <1>1, <2>4
  <2>6. m \in 1..m /\ m - 1 = n
    BY <1>1, <2>1
  <2>7. SumTo(g, m) = SumTo(g, m - 1) + g[m]
    BY <2>1, <2>2, <2>6, SumSteps
  <2>8. g[m] = IF OnSide(t, side, id) THEN Posts(t) ELSE 0
    BY <1>2, <2>1, <2>6 DEF Postings
  <2>9. SumTo(g, n + 1) = SumTo(f, n) + (IF OnSide(t, side, id) THEN Posts(t) ELSE 0)
    BY <2>1, <2>5, <2>6, <2>7, <2>8
  <2> QED
    BY <2>1, <2>4, <2>9 DEF Posted, PostsMore
<1> QED
  BY <1>1, <1>2, <1>6, <1>7

LEMMA AccountedNothing == Accounted(EmptyLedger)
<1>1. Posting(<<>>)
  BY NoList DEF Posting
<1>2. EmptyLedger.transfers = <<>> /\ DOMAIN EmptyLedger.accounts = {}
  BY DEF EmptyLedger
<1>3. EmptyLedger = [accounts |-> EmptyLedger.accounts, transfers |-> EmptyLedger.transfers]
  BY DEF EmptyLedger
<1> QED
  BY <1>1, <1>2, <1>3, NoList DEF Accounted

LEMMA AccountAccounted ==
  ASSUME NEW L, Accounted(L), NEW a, NEW R, R = CreateAccount(L, a)
  PROVE  Accounted(R) /\ R.transfers = L.transfers
<1>1. CASE AccountRefused(L, a)
  BY <1>1 DEF CreateAccount
<1>2. CASE ~AccountRefused(L, a)
  <2>1. PICK A, s, x, B, n : /\ A = L.accounts /\ s = L.transfers /\ x = a.id /\ B = R.accounts /\ n = Len(s)
    OBVIOUS
  <2>2. L = [accounts |-> A, transfers |-> s] /\ x \notin DOMAIN A /\ Posting(s) /\ n \in Nat
    BY <1>2, <2>1, ListParts DEF Accounted, AccountRefused, Posting
  <2>3. R = [accounts |-> B, transfers |-> s] /\ B = [id \in DOMAIN A \cup {x} |-> IF id = x THEN Opened(a) ELSE A[id]]
    BY <1>2, <2>1, <2>2 DEF CreateAccount, WithAccount
  <2>4. ASSUME NEW side PROVE Posted(s, side, x, n) = 0
    <3>1. PICK f : f = Postings(s, side, x)
      OBVIOUS
    <3>2. \A i \in 1..n : s[i].debit # x /\ s[i].credit # x
      BY <2>1, <2>2 DEF Accounted
    <3>3. \A i \in 1..n : f[i] = 0
      BY <2>1, <3>1, <3>2 DEF Postings, OnSide
    <3>4. SumTo(f, n) = 0
      BY <2>2, <3>3, SumNothing
    <3> QED
      BY <3>1, <3>4 DEF Posted
  <2>5. ASSUME NEW id \in DOMAIN B PROVE HasPosted(B[id], id, s)
    <3>1. CASE id = x
      <4>1. B[id] = Account(x, a.ledger, a.limit, a.ts, 0, 0, 0, 0)
        BY <2>1, <2>3, <3>1 DEF Opened, Account
      <4>2. B[id] = Account(id, a.ledger, a.limit, a.ts, Posted(s, "debit", id, n), Posted(s, "credit", id, n), 0, 0)
        BY <2>4, <3>1, <4>1
      <4> QED
        BY <2>1, <4>2 DEF HasPosted
    <3>2. CASE id # x
      BY <2>1, <2>3, <3>2 DEF Accounted
    <3> QED
      BY <3>1, <3>2
  <2>6. DOMAIN B = DOMAIN A \cup {x}
    BY <2>3
  <2>7. \A i \in 1..n : {s[i].debit, s[i].credit} \subseteq DOMAIN B
    BY <2>1, <2>6 DEF Accounted
  <2>8. R.accounts = B /\ R.transfers = s
    BY <2>3
  <2> QED
    BY <2>1, <2>2, <2>3, <2>5, <2>6, <2>7, <2>8 DEF Accounted
<1> QED
  BY <1>1, <1>2

LEMMA SideMoved ==
  ASSUME NEW id, NEW s, NEW u, NEW a, HasPosted(a, id, s), NEW x \in Nat, NEW y,
         NEW n, n = Len(s), NEW m, m = Len(u), NEW e, NEW f,
         Posted(u, "debit", id, m) = Posted(s, "debit", id, n) + e,
         Posted(u, "credit", id, m) = Posted(s, "credit", id, n) + f,
         Posted(s, "debit", id, n) \in Nat, Posted(s, "credit", id, n) \in Nat
  PROVE  /\ e = x /\ f = 0 => HasPosted(Debited(a, x, y), id, u)
         /\ e = 0 /\ f = x => HasPosted(Credited(a, x, y), id, u)
         /\ e = 0 /\ f = 0 => HasPosted(a, id, u)
<1>1. PICK d, c : d = Posted(s, "debit", id, n) /\ c = Posted(s, "credit", id, n)
  OBVIOUS
<1>2. PICK l, k, ts, p, q : a = Account(id, l, k, ts, d, c, p, q)
  BY <1>1 DEF HasPosted
<1>3. Debited(a, x, y) = Account(id, l, k, ts, d + x, c, p + y, q)
  BY <1>2, AccountWith
<1>4. Credited(a, x, y) = Account(id, l, k, ts, d, c + x, p, q + y)
  BY <1>2, AccountWith
<1>5. ASSUME NEW b, NEW g, NEW h, NEW v, NEW w, b = Account(id, l, k, ts, g, h, v, w), g = d + e, h = c + f
      PROVE  HasPosted(b, id, u)
  <2>1. g = Posted(u, "debit", id, m) /\ h = Posted(u, "credit", id, m)
    BY <1>1, <1>5
  <2> QED
    BY <1>5, <2>1 DEF HasPosted
<1>6. d \in Nat /\ c \in Nat
  BY <1>1
<1>7. ASSUME e = x, f = 0 PROVE HasPosted(Debited(a, x, y), id, u)
  <2>1. c = c + f /\ d + x = d + e
    BY <1>6, <1>7
  <2> QED
    BY <1>3, <1>5, <2>1
<1>8. ASSUME e = 0, f = x PROVE HasPosted(Credited(a, x, y), id, u)
  <2>1. d = d + e /\ c + x = c + f
    BY <1>6, <1>8
  <2> QED
    BY <1>4, <1>5, <2>1
<1>9. ASSUME e = 0, f = 0 PROVE HasPosted(a, id, u)
  <2>1. d = d + e /\ c = c + f
    BY <1>6, <1>9
  <2> QED
    BY <1>2, <1>5, <2>1
<1> QED
  BY <1>7, <1>8, <1>9

LEMMA TransferAccounted ==
  ASSUME NEW L, Accounted(L), NEW t, t.amount \in Nat, NEW R, R = CreateTransfer(L, t)
  PROVE  Accounted(R) /\ DOMAIN R.accounts = DOMAIN L.accounts /\ Range(R.transfers) \subseteq Range(L.transfers) \cup {t}
<1>1. CASE TransferRefused(L, t)
  BY <1>1 DEF CreateTransfer
<1>2. CASE ~TransferRefused(L, t)
  <2>1. PICK A, s, B, u, n, x, y : /\ A = L.accounts /\ s = L.transfers /\ B = R.accounts /\ u = R.transfers
                                   /\ n = Len(s) /\ x = Posts(t) /\ y = Reserves(L, t)
    OBVIOUS
  <2>2. t.debit # t.credit /\ t.debit \in DOMAIN A /\ t.credit \in DOMAIN A /\ t.id \notin TransferIds(L)
    BY <1>2, <2>1 DEF TransferRefused, SidesFit
  <2>3. R = WithTransfer(L, t)
    BY <1>2 DEF CreateTransfer
  <2>4. R = [accounts |-> B, transfers |-> u] /\ u = Append(s, t) /\ TwoSides(A, B, t, x, y)
    BY <2>1, <2>2, <2>3, TransferMoves
  <2>5. x \in Nat
    BY <2>1 DEF Posts
  <2>6. Posting(s) /\ IsList(s) /\ n \in Nat
    BY <2>1, ListParts DEF Accounted, Posting
  <2>7. IsUnused(s, t.id)
    BY <2>1, <2>2, <2>6, ListParts DEF TransferIds, IsUnused
  <2>8. /\ Posting(u) /\ Len(u) = n + 1
        /\ \A side, id : Posted(u, side, id, n + 1) = Posted(s, side, id, n) + (IF OnSide(t, side, id) THEN x ELSE 0)
    <3>1. Posts(t) \in Nat /\ Posting(s) /\ u = Append(s, t) /\ n = Len(s) /\ IsUnused(s, t.id)
      BY <2>1, <2>4, <2>5, <2>6, <2>7
    <3>2. Posting(u) /\ Len(u) = n + 1 /\ \A side, id : PostsMore(u, s, t, side, id, n)
      BY <3>1, PostingMore
    <3> QED
      BY <2>1, <3>2 DEF PostsMore
  <2>9. \A side, id : Posted(s, side, id, n) \in Nat
    <3>1. n \in 0..n
      BY <2>6
    <3> QED
      BY <2>1, <2>6, <3>1, PostsNumbers
  <2>10. ASSUME NEW id \in DOMAIN B PROVE HasPosted(B[id], id, u)
    <3>1. PICK a, e, f, m : /\ a = A[id] /\ m = n + 1 /\ m = Len(u) /\ HasPosted(a, id, s) /\ id \in DOMAIN A
                            /\ e = (IF OnSide(t, "debit", id) THEN x ELSE 0)
                            /\ f = (IF OnSide(t, "credit", id) THEN x ELSE 0)
      BY <2>1, <2>4, <2>8 DEF Accounted, TwoSides
    <3>2. /\ Posted(u, "debit", id, m) = Posted(s, "debit", id, n) + e
          /\ Posted(u, "credit", id, m) = Posted(s, "credit", id, n) + f
      BY <2>8, <3>1
    <3>3. Posted(s, "debit", id, n) \in Nat /\ Posted(s, "credit", id, n) \in Nat /\ n = Len(s)
      BY <2>1, <2>9
    <3>4. /\ e = x /\ f = 0 => HasPosted(Debited(a, x, y), id, u)
          /\ e = 0 /\ f = x => HasPosted(Credited(a, x, y), id, u)
          /\ e = 0 /\ f = 0 => HasPosted(a, id, u)
      BY <2>5, <3>1, <3>2, <3>3, SideMoved
    <3>5. CASE id = t.debit
      <4>1. B[id] = Debited(a, x, y)
        BY <2>4, <3>1, <3>5 DEF TwoSides
      <4>2. e = x /\ f = 0
        BY <2>2, <3>1, <3>5 DEF OnSide
      <4> QED
        BY <3>4, <4>1, <4>2
    <3>6. CASE id = t.credit
      <4>1. B[id] = Credited(a, x, y)
        BY <2>4, <3>1, <3>6 DEF TwoSides
      <4>2. e = 0 /\ f = x
        BY <2>2, <3>1, <3>6 DEF OnSide
      <4> QED
        BY <3>4, <4>1, <4>2
    <3>7. CASE id \notin {t.debit, t.credit}
      <4>1. B[id] = a
        BY <2>4, <3>1, <3>7 DEF TwoSides
      <4>2. e = 0 /\ f = 0
        BY <3>1, <3>7 DEF OnSide
      <4> QED
        BY <3>4, <4>1, <4>2
    <3> QED
      BY <3>5, <3>6, <3>7
  <2>11. DOMAIN B = DOMAIN A
    BY <2>4 DEF TwoSides
  <2>12. ASSUME NEW i \in 1..(n + 1) PROVE {u[i].debit, u[i].credit} \subseteq DOMAIN B
    <3>1. (\A j \in 1..n : u[j] = s[j]) /\ u[n + 1] = t
      BY <2>1, <2>4, <2>6, Appended
    <3>2. CASE i = n + 1
      BY <2>2, <2>11, <3>1, <3>2
    <3>3. CASE i # n + 1
      <4>1. i \in 1..n
        BY <2>6, <3>3
      <4> QED
        BY <2>1, <2>11, <3>1, <4>1 DEF Accounted
    <3> QED
      BY <3>2, <3>3
  <2>13. Range(u) = Range(s) \cup {t}
    BY <2>4, <2>6, Appended
  <2> QED
    BY <2>1, <2>4, <2>8, <2>10, <2>11, <2>12, <2>13 DEF Accounted
<1> QED
  BY <1>1, <1>2

LEMMA AccountsAccounted ==
  ASSUME NEW L, Accounted(L), NEW s, IsList(s), NEW R, R = CreateAccounts(L, s)
  PROVE  Accounted(R) /\ R.transfers = L.transfers
<1>1. PICK r : StepByStep(r, "accounts", 0, L, s, R)
  BY AccountsStepByStep
<1>2. PICK n \in Nat : /\ n = Len(s) /\ r[0] = L /\ r[n] = R
                       /\ \A i \in 1..n : r[i] = CreateAccount(r[i - 1], s[i])
  BY <1>1, ListParts DEF StepByStep, Fold
<1> DEFINE T == {k \in 0..n : Accounted(r[k]) /\ r[k].transfers = L.transfers}
<1>3. 0 \in T
  BY <1>2
<1>4. ASSUME NEW k \in 1..n, k - 1 \in T PROVE k \in T
  <2>1. PICK old, new, a : old = r[k - 1] /\ new = r[k] /\ a = s[k]
    OBVIOUS
  <2>2. Accounted(old) /\ old.transfers = L.transfers /\ new = CreateAccount(old, a)
    BY <1>2, <1>4, <2>1
  <2>3. Accounted(new) /\ new.transfers = L.transfers
    BY <2>2, AccountAccounted
  <2> QED
    BY <2>1, <2>3
<1> HIDE DEF T
<1>5. \A k \in 0..n : k \in T
  BY <1>3, <1>4, Upwards
<1>6. n \in T
  BY <1>5
<1> QED
  BY <1>2, <1>6 DEF T

LEMMA TransfersAccounted ==
  ASSUME NEW L, Accounted(L), NEW s, IsList(s), \A x \in Range(s) : x.amount \in Nat, NEW R, R = CreateTransfers(L, s)
  PROVE  Accounted(R) /\ DOMAIN R.accounts = DOMAIN L.accounts /\ Range(R.transfers) \subseteq Range(L.transfers) \cup Range(s)
<1>1. PICK r : StepByStep(r, "transfers", 0, L, s, R)
  BY TransfersStepByStep
<1>2. PICK n \in Nat : /\ n = Len(s) /\ r[0] = L /\ r[n] = R
                       /\ \A i \in 1..n : r[i] = CreateTransfer(r[i - 1], s[i]) /\ s[i] \in Range(s)
  BY <1>1, ListParts DEF StepByStep, Fold
<1> DEFINE P(x) == /\ Accounted(x) /\ DOMAIN x.accounts = DOMAIN L.accounts
                   /\ Range(x.transfers) \subseteq Range(L.transfers) \cup Range(s)
           T == {k \in 0..n : P(r[k])}
<1>3. 0 \in T
  BY <1>2
<1>4. ASSUME NEW k \in 1..n, k - 1 \in T PROVE k \in T
  <2>1. PICK old, new, t : old = r[k - 1] /\ new = r[k] /\ t = s[k]
    OBVIOUS
  <2>2. P(old) /\ new = CreateTransfer(old, t) /\ t \in Range(s)
    BY <1>2, <1>4, <2>1
  <2>3. /\ Accounted(new) /\ DOMAIN new.accounts = DOMAIN old.accounts
        /\ Range(new.transfers) \subseteq Range(old.transfers) \cup {t}
    BY <2>2, TransferAccounted
  <2>4. P(new)
    BY <2>2, <2>3
  <2> QED
    BY <2>1, <2>4
<1> HIDE DEF T
<1>5. \A k \in 0..n : k \in T
  BY <1>3, <1>4, Upwards
<1>6. n \in T
  BY <1>5
<1> QED
  BY <1>2, <1>6 DEF T

-----------------------------------------------------------------------------
(***************************************************************************)
(* Some transfers of a plan post no more than all of them.                 *)
(***************************************************************************)

\* Of f, the numbers in the first j places that w names.
Marked(f, w, j, n) == [i \in 1..n |-> IF \E h \in 1..j : w[h] = i THEN f[i] ELSE 0]

\* Numbers of a list, each taken once, sum up to no more than all of them.
LEMMA SumOfSome ==
  ASSUME NEW n \in Nat, NEW f, Amounted(f, n), NEW k \in Nat, NEW w, \A j \in 1..k : w[j] \in 1..n,
         \A i \in 1..k : \A j \in 1..k : w[i] = w[j] => i = j, NEW g, \A j \in 1..k : g[j] = f[w[j]]
  PROVE  SumTo(g, k) <= SumTo(f, n)
<1>1. Numbers(f, n) /\ Numbers(g, k)
  BY DEF Amounted, Numbers
<1>2. ASSUME NEW j \in 0..k
      PROVE  Numbers(Marked(f, w, j, n), n) /\ \A i \in 1..n : Marked(f, w, j, n)[i] <= f[i]
  BY DEF Amounted, Numbers, Marked
<1> DEFINE T == {j \in 0..k : SumTo(Marked(f, w, j, n), n) = SumTo(g, j)}
<1>3. 0 \in T
  <2>1. \A i \in 1..n : Marked(f, w, 0, n)[i] = 0
    BY DEF Marked
  <2>2. SumTo(Marked(f, w, 0, n), n) = 0
    BY <2>1, SumNothing
  <2>3. SumTo(g, 0) = 0
    BY <1>1, SumSteps
  <2> QED
    BY <2>2, <2>3
<1>4. ASSUME NEW j \in 1..k, j - 1 \in T PROVE j \in T
  <2>1. PICK o, e, d, p : o = j - 1 /\ e = Marked(f, w, o, n) /\ d = Marked(f, w, j, n) /\ p = w[j]
    OBVIOUS
  <2>2. o \in 0..k /\ p \in 1..n /\ j \in 0..k
    BY <2>1
  <2>3. Numbers(e, n) /\ Numbers(d, n)
    BY <1>2, <2>1, <2>2
  <2>4. \A h \in 1..j : h \in 1..o \/ h = j
    BY <2>1
  <2>5. ASSUME NEW i \in 1..n, i # p PROVE d[i] = e[i]
    <3>1. (\E h \in 1..j : w[h] = i) <=> (\E h \in 1..o : w[h] = i)
      <4>1. \A h \in 1..o : h \in 1..j
        BY <2>1
      <4> QED
        BY <2>1, <2>4, <2>5, <4>1
    <3> QED
      BY <2>1, <3>1 DEF Marked
  <2>6. d[p] = f[p] /\ e[p] = 0
    <3>1. ~ \E h \in 1..o : w[h] = p
      <4>1. ASSUME NEW h \in 1..o, w[h] = p PROVE FALSE
        <5>1. h \in 1..k /\ h # j
          BY <2>1
        <5> QED
          BY <2>1, <4>1, <5>1
      <4> QED
        BY <4>1
    <3>2. \E h \in 1..j : w[h] = p
      BY <2>1
    <3> QED
      BY <2>1, <2>2, <3>1, <3>2 DEF Marked
  <2>7. SumTo(d, n) = SumTo(e, n) + (d[p] - e[p])
    BY <2>2, <2>3, <2>5, SumChanged
  <2>8. SumTo(g, j) = SumTo(g, o) + g[j]
    BY <1>1, <2>1, SumSteps
  <2>9. g[j] = f[p] /\ f[p] \in Nat
    BY <2>1, <2>2 DEF Amounted
  <2>10. SumTo(e, n) = SumTo(g, o)
    BY <1>4, <2>1
  <2>11. SumTo(d, n) = SumTo(g, j)
    BY <2>6, <2>7, <2>8, <2>9, <2>10
  <2> QED
    BY <2>1, <2>2, <2>11
<1> HIDE DEF T
<1>5. \A j \in 0..k : j \in T
  BY <1>3, <1>4, Upwards
<1>6. PICK e : e = Marked(f, w, k, n) /\ SumTo(e, n) = SumTo(g, k)
  <2>1. k \in T
    BY <1>5
  <2> QED
    BY <2>1 DEF T
<1>7. \A i \in 0..n : SumTo(e, i) <= SumTo(f, i)
  <2>1. k \in 0..k
    OBVIOUS
  <2>2. Numbers(e, n) /\ \A i \in 1..n : e[i] <= f[i]
    BY <1>2, <1>6, <2>1
  <2> QED
    BY <1>1, <2>2, SumLesser
<1>8. SumTo(e, n) <= SumTo(f, n)
  BY <1>7
<1> QED
  BY <1>6, <1>8

\* Transfers that are among others post no more than those.
LEMMA CountedOnce ==
  ASSUME NEW s, Posting(s), NEW W, IsList(W), NEW n, n = Len(W), AllPost(W, n),
         Range(s) \subseteq Range(W), NEW side, NEW id
  PROVE  Posted(s, side, id, Len(s)) <= Posted(W, side, id, n)
<1>1. PICK k, f, g : k = Len(s) /\ f = Postings(W, side, id) /\ g = Postings(s, side, id)
  OBVIOUS
<1>2. k \in Nat /\ n \in Nat /\ \A j \in 1..k : \E i \in 1..n : W[i] = s[j]
  <2>1. k \in Nat /\ \A j \in 1..k : s[j] \in Range(W)
    BY <1>1, ListParts DEF Posting
  <2> QED
    BY <2>1, ListParts
<1>3. PICK w : w = [j \in 1..k |-> CHOOSE i \in 1..n : W[i] = s[j]]
  OBVIOUS
<1>4. ASSUME NEW j \in 1..k PROVE w[j] \in 1..n /\ W[w[j]] = s[j]
  BY <1>2, <1>3
<1>5. ASSUME NEW i \in 1..k, NEW j \in 1..k, w[i] = w[j] PROVE i = j
  <2>1. s[i] = s[j]
    BY <1>4, <1>5
  <2> QED
    BY <1>1, <2>1 DEF Posting
<1>6. Amounted(f, n)
  BY <1>1 DEF Amounted, Postings, AllPost
<1>7. ASSUME NEW j \in 1..k PROVE g[j] = f[w[j]]
  <2>1. PICK i \in 1..n : i = w[j] /\ W[i] = s[j]
    BY <1>4
  <2>2. f[i] = IF OnSide(W[i], side, id) THEN Posts(W[i]) ELSE 0
    BY <1>1 DEF Postings
  <2>3. g[j] = IF OnSide(s[j], side, id) THEN Posts(s[j]) ELSE 0
    BY <1>1 DEF Postings
  <2> QED
    BY <2>1, <2>2, <2>3
<1>8. SumTo(g, k) <= SumTo(f, n)
  <2>1. /\ \A j \in 1..k : w[j] \in 1..n
        /\ \A i \in 1..k : \A j \in 1..k : w[i] = w[j] => i = j
        /\ \A j \in 1..k : g[j] = f[w[j]]
    BY <1>4, <1>5, <1>7
  <2> QED
    BY <1>2, <1>6, <2>1, SumOfSome
<1> QED
  BY <1>1, <1>8 DEF Posted

LEMMA SyntheticAmounts ==
  ASSUME NEW q, IsList(q), NEW floor \in Nat, NEW N, N = Len(q),
         \A i \in 1..N : q[i].cr \in Nat /\ q[i].dr \in Nat, NEW S, S = SyntheticTransfers(q, floor)
  PROVE  \A i \in 1..Len(S) : S[i].kind = "single" /\ S[i].amount \in Nat
<1>0. N \in Nat /\ DOMAIN q = 1..N
  BY ListParts
<1>1. PICK seqs : seqs = [i \in DOMAIN q |-> RebuildAccount(q[i])]
  OBVIOUS
<1>2. ASSUME NEW i \in 1..N
      PROVE  IsList(RebuildAccount(q[i])) /\ \A m \in Range(RebuildAccount(q[i])) : m.amount \in Nat
  <2>1. PICK a, x, y : /\ a = q[i] /\ x = Moved(GenesisCredit(a.ledger), a.id, a.cr, a.ledger)
                       /\ y = Moved(a.id, GenesisDebit(a.ledger), a.dr, a.ledger)
    OBVIOUS
  <2>2. IsList(x) /\ IsList(y) /\ RebuildAccount(a) = x \o y
    BY <2>1, MovedLists DEF RebuildAccount
  <2>3. ASSUME NEW d, NEW c, NEW n \in Nat, NEW l, NEW m \in Range(Moved(d, c, n, l)) PROVE m.amount \in Nat
    <3>1. CASE n > 0
      <4>1. PICK o : o = [debit |-> d, credit |-> c, amount |-> n, ledger |-> l] /\ Moved(d, c, n, l) = <<o>>
        BY <3>1 DEF Moved
      <4>2. m = o
        BY <2>3, <4>1 DEF Range
      <4> QED
        BY <4>1, <4>2
    <3>2. CASE ~(n > 0)
      BY <2>3, <3>2, NoList DEF Moved
    <3> QED
      BY <3>1, <3>2
  <2>4. (\A m \in Range(x) : m.amount \in Nat) /\ (\A m \in Range(y) : m.amount \in Nat)
    BY <2>1, <2>3
  <2>5. IsList(x \o y) /\ Range(x \o y) = Range(x) \cup Range(y)
    BY <2>2, Joined
  <2> QED
    BY <2>1, <2>2, <2>4, <2>5
<1>3. /\ IsList(seqs) /\ Len(seqs) = N
      /\ \A i \in 1..N : seqs[i] = RebuildAccount(q[i]) /\ IsList(seqs[i])
  <2>1. seqs = [i \in DOMAIN q |-> seqs[i]]
    BY <1>1
  <2>2. IsList(seqs) /\ Len(seqs) = N
    BY <1>0, <2>1, Mapped
  <2> QED
    BY <1>0, <1>1, <1>2, <2>2
<1>4. PICK g, rebuild : Flattens(g, seqs, rebuild) /\ rebuild = FlattenSeq(seqs)
  BY <1>3, FlattensStepByStep
<1>5. /\ g[0] = <<>> /\ g[N] = rebuild
      /\ \A i \in 1..N : g[i] = g[i - 1] \o RebuildAccount(q[i])
      /\ \A i \in 0..N : IsList(g[i])
  BY <1>3, <1>4 DEF Flattens
<1> DEFINE T == {k \in 0..N : \A m \in Range(g[k]) : m.amount \in Nat}
<1>6. 0 \in T
  BY <1>0, <1>5, NoList
<1>7. ASSUME NEW k \in 1..N, k - 1 \in T PROVE k \in T
  <2>1. PICK s, t : s = g[k - 1] /\ t = RebuildAccount(q[k])
    OBVIOUS
  <2>2. k - 1 \in 0..N /\ k \in 0..N
    BY <1>0
  <2>3. IsList(s) /\ IsList(t) /\ g[k] = s \o t
    BY <1>2, <1>5, <2>1, <2>2
  <2>4. Range(g[k]) = Range(s) \cup Range(t)
    BY <2>3, Joined
  <2> QED
    BY <1>2, <1>7, <2>1, <2>2, <2>4
<1> HIDE DEF T
<1>8. \A k \in 0..N : k \in T
  BY <1>0, <1>6, <1>7, Upwards
<1>9. N \in T
  BY <1>0, <1>8
<1>10. S = SyntheticOf(rebuild, floor)
  BY <1>1, <1>4 DEF SyntheticTransfers, SyntheticOf
<1>11. IsList(rebuild) /\ DOMAIN rebuild = 1..Len(rebuild) /\ \A i \in 1..Len(rebuild) : rebuild[i] \in Range(rebuild)
  <2>1. N \in 0..N
    BY <1>0
  <2> QED
    BY <1>5, <2>1, ListParts
<1>12. S = [i \in DOMAIN rebuild |-> S[i]] /\ \A i \in 1..Len(rebuild) : S[i] = Synthetic(rebuild[i], i, floor + i)
  BY <1>10, <1>11 DEF SyntheticOf
<1>13. IsList(S) /\ Len(S) = Len(rebuild)
  BY <1>11, <1>12, Mapped
<1> QED
  <2> TAKE i \in 1..Len(S)
  <2>1. S[i] = Synthetic(rebuild[i], i, floor + i)
    BY <1>12, <1>13
  <2>2. rebuild[i].amount \in Nat
    BY <1>5, <1>9, <1>11, <1>13 DEF T
  <2> QED
    BY <2>1, <2>2 DEF Synthetic

\* Accounts without limits, older than anything: those of q, and the genesis
\* accounts of their ledgers.
LedgerFor(q, id) ==
  CHOOSE l \in LedgersIn(q) :
     \/ id \in {GenesisCredit(l), GenesisDebit(l)}
     \/ \E j \in 1..Len(q) : q[j].id = id /\ q[j].ledger = l
Unlimited(q) ==
  [id \in {q[j].id : j \in 1..Len(q)} \cup UNION {{GenesisCredit(l), GenesisDebit(l)} : l \in LedgersIn(q)} |->
     Account(id, LedgerFor(q, id), "none", 0, 0, 0, 0, 0)]

LEMMA UnlimitedPrepares ==
  ASSUME NEW S, Plannable(S), NEW q, IsRegular(q, S), NEW floor \in Nat, NEW base, base = Unlimited(q)
  PROVE  Prepares(base, q, floor)
<1>1. PICK n, Ls : n = Len(q) /\ Ls = LedgersIn(q) /\ Ls = LedgersOf(S) /\ IsList(q) /\ n \in Nat
  BY ListParts DEF IsRegular
<1>2. ASSUME NEW j \in 1..n
      PROVE  /\ q[j] \in S /\ q[j].dr \in Nat /\ q[j].cr \in Nat /\ q[j].ledger \in Ls
             /\ \A l \in Ls : q[j].id # GenesisCredit(l) /\ q[j].id # GenesisDebit(l)
             /\ \A k \in 1..n : q[k].id = q[j].id => k = j
  BY <1>1 DEF IsRegular, Plannable, LedgersIn
<1>3. PICK D : /\ D = DOMAIN base /\ (\A id \in D : base[id] = Account(id, LedgerFor(q, id), "none", 0, 0, 0, 0, 0))
               /\ (\A j \in 1..n : q[j].id \in D) /\ (\A l \in Ls : GenesisCredit(l) \in D /\ GenesisDebit(l) \in D)
  <2>1. PICK D : D = {q[j].id : j \in 1..n} \cup UNION {{GenesisCredit(l), GenesisDebit(l)} : l \in Ls}
    OBVIOUS
  <2>2. base = [id \in D |-> Account(id, LedgerFor(q, id), "none", 0, 0, 0, 0, 0)]
    BY <1>1, <2>1 DEF Unlimited
  <2>3. ASSUME NEW l \in Ls PROVE GenesisCredit(l) \in D /\ GenesisDebit(l) \in D
    BY <2>1
  <2>4. ASSUME NEW j \in 1..n PROVE q[j].id \in D
    BY <2>1
  <2>5. D = DOMAIN base /\ \A id \in D : base[id] = Account(id, LedgerFor(q, id), "none", 0, 0, 0, 0, 0)
    BY <2>2
  <2> QED
    BY <2>3, <2>4, <2>5
<1>4. ASSUME NEW j \in 1..n PROVE LedgerFor(q, q[j].id) = q[j].ledger
  <2>1. \A l \in Ls : (\E k \in 1..n : q[k].id = q[j].id /\ q[k].ledger = l) => l = q[j].ledger
    BY <1>2
  <2>2. \A l \in Ls : q[j].id \notin {GenesisCredit(l), GenesisDebit(l)}
    BY <1>2
  <2>3. q[j].ledger \in Ls /\ \E k \in 1..n : q[k].id = q[j].id /\ q[k].ledger = q[j].ledger
    BY <1>2
  <2> QED
    BY <1>1, <2>1, <2>2, <2>3 DEF LedgerFor
<1>5. ASSUME NEW l \in Ls, NEW id \in {GenesisCredit(l), GenesisDebit(l)} PROVE LedgerFor(q, id) = l
  <2>1. \A k \in Ls : id \in {GenesisCredit(k), GenesisDebit(k)} => k = l
    BY DEF GenesisCredit, GenesisDebit
  <2>2. ~ \E j \in 1..n : q[j].id = id
    BY <1>2
  <2> QED
    BY <1>1, <2>1, <2>2 DEF LedgerFor
<1>6. ASSUME NEW id \in D
      PROVE  base[id].ledger = LedgerFor(q, id) /\ base[id].limit = "none" /\ base[id].ts = 0
  BY <1>3, AccountHas
<1>7. IsBase(base)
  <2>1. base = [id \in DOMAIN base |-> base[id]]
    BY DEF Unlimited
  <2>2. ASSUME NEW id \in D PROVE base[id] = Account(id, base[id].ledger, base[id].limit, base[id].ts, 0, 0, 0, 0)
    BY <1>3, <1>6
  <2> QED
    BY <1>3, <1>6, <2>1, <2>2 DEF IsBase
<1>8. \A j \in 1..n : /\ q[j].id \in D /\ base[q[j].id].ledger = q[j].ledger /\ base[q[j].id].ts = 0
                      /\ base[q[j].id].limit = "none"
  BY <1>3, <1>4, <1>6
<1>9. \A l \in Ls : \A g \in {GenesisCredit(l), GenesisDebit(l)} :
         g \in D /\ base[g].ledger = l /\ base[g].limit = "none" /\ base[g].ts = 0
  BY <1>3, <1>5, <1>6
<1> QED
  BY <1>1, <1>2, <1>3, <1>7, <1>8, <1>9 DEF Prepares

LEMMA StartAccounted ==
  ASSUME NEW base, IsBase(base), NEW L, L = Start(base)
  PROVE  Accounted(L) /\ L.transfers = <<>> /\ DOMAIN L.accounts = DOMAIN base
<1>1. L.accounts = [id \in DOMAIN base |-> Holding(base[id], Nothing(base)[id], Nothing(base)[id])] /\ L.transfers = <<>>
      /\ L = [accounts |-> L.accounts, transfers |-> L.transfers]
  BY DEF Start, LedgerAt
<1>2. Posting(<<>>)
  BY NoList DEF Posting
<1>3. ASSUME NEW side, NEW id PROVE Posted(<<>>, side, id, Len(<<>>)) = 0
  <2>1. PICK f, n : f = Postings(<<>>, side, id) /\ n = 0 /\ n \in Nat
    OBVIOUS
  <2>2. \A i \in 1..n : f[i] = 0
    BY <2>1
  <2>3. SumTo(f, n) = 0
    <3>1. n \in Nat /\ n \in 0..n
      BY <2>1
    <3>2. \A k \in 0..n : SumTo(f, k) = 0
      BY <2>2, <3>1, SumNothing
    <3> QED
      BY <3>1, <3>2
  <2> QED
    BY <2>1, <2>3, NoList DEF Posted
<1>4. ASSUME NEW id \in DOMAIN base PROVE HasPosted(L.accounts[id], id, <<>>)
  <2>1. PICK b, l, m, ts, z : /\ b = base[id] /\ b = Account(id, l, m, ts, 0, 0, 0, 0) /\ z = 0
                              /\ L.accounts[id] = Holding(b, z, z)
    BY <1>1 DEF IsBase, Nothing
  <2>2. Holding(b, z, z) = Account(id, l, m, ts, z, z, 0, 0)
    BY <2>1, AccountWith
  <2> QED
    BY <1>3, <2>1, <2>2 DEF HasPosted
<1> QED
  BY <1>1, <1>2, <1>4, NoList DEF Accounted

\* The synthetic transfers of a plan post the balances of its accounts.
LEMMA SyntheticPosts ==
  ASSUME NEW S, Plannable(S), NEW q, IsRegular(q, S), NEW floor \in Nat, NEW X, X = SyntheticTransfers(q, floor)
  PROVE  /\ Posting(X) /\ \A i \in 1..Len(X) : X[i].amount \in Nat /\ X[i].id = i
         /\ \A a \in S : Posted(X, "debit", a.id, Len(X)) = a.dr /\ Posted(X, "credit", a.id, Len(X)) = a.cr
<1>1. PICK n : n = Len(q) /\ n \in Nat /\ IsList(q) /\ \A i \in 1..n : q[i].cr \in Nat /\ q[i].dr \in Nat
  BY ListParts DEF IsRegular, Plannable
<1>2. IsList(X) /\ \A i \in 1..Len(X) : X[i].id = i /\ X[i].kind = "single" /\ X[i].amount \in Nat
  <2>1. IsList(X) /\ \A i \in 1..Len(X) : X[i].id = i
    BY <1>1, SyntheticPlaces
  <2>2. \A i \in 1..Len(X) : X[i].kind = "single" /\ X[i].amount \in Nat
    BY <1>1, SyntheticAmounts
  <2> QED
    BY <2>1, <2>2
<1>3. Posting(X) /\ \A x \in Range(X) : x.amount \in Nat
  BY <1>2, ListParts DEF Posting, Posts
<1>4. PICK base, T : base = Unlimited(q) /\ T = CreateTransfers(Start(base), X)
  OBVIOUS
<1>5. Prepares(base, q, floor)
  BY <1>4, UnlimitedPrepares
<1>6. PICK dr, cr : T = LedgerAt(base, dr, cr, X) /\ Rebuilt(base, q, n, n, dr, cr)
  BY <1>1, <1>4, <1>5, SyntheticTaken
<1>7. Accounted(T)
  <2>1. IsBase(base)
    BY <1>5 DEF Prepares
  <2>2. Accounted(Start(base))
    BY <2>1, StartAccounted
  <2> QED
    BY <1>2, <1>3, <1>4, <2>2, TransfersAccounted
<1>8. T.transfers = X /\ DOMAIN T.accounts = DOMAIN base /\ \A id \in DOMAIN base : T.accounts[id] = Holding(base[id], dr[id], cr[id])
  BY <1>6 DEF LedgerAt
<1>9. ASSUME NEW a \in S PROVE Posted(X, "debit", a.id, Len(X)) = a.dr /\ Posted(X, "credit", a.id, Len(X)) = a.cr
  <2>1. PICK j \in 1..n : a = q[j]
    BY <1>1, ListParts DEF IsRegular
  <2>2. PICK id, d, c : id = a.id /\ d = dr[id] /\ c = cr[id]
    OBVIOUS
  <2>3. d = a.dr /\ c = a.cr /\ id \in DOMAIN base
    BY <1>1, <1>5, <1>6, <2>1, <2>2 DEF Rebuilt, Prepares
  <2>4. PICK b, l, m, ts : b = base[id] /\ b = Account(id, l, m, ts, 0, 0, 0, 0)
    BY <1>5, <2>3 DEF Prepares, IsBase
  <2>5. T.accounts[id] = Account(id, l, m, ts, d, c, 0, 0)
    <3>1. Holding(b, d, c) = Account(id, l, m, ts, d, c, 0, 0)
      BY <2>4, AccountWith
    <3> QED
      BY <1>8, <2>2, <2>3, <2>4, <3>1
  <2>6. T.accounts[id].dr = d /\ T.accounts[id].cr = c
    BY <2>5, AccountHas
  <2>7. HasPosted(T.accounts[id], id, X)
    BY <1>7, <1>8, <2>3 DEF Accounted
  <2>8. T.accounts[id].dr = Posted(X, "debit", id, Len(X)) /\ T.accounts[id].cr = Posted(X, "credit", id, Len(X))
    BY <2>7, AccountHas DEF HasPosted
  <2> QED
    BY <2>2, <2>3, <2>6, <2>8
<1> QED
  BY <1>2, <1>3, <1>9

-----------------------------------------------------------------------------
(***************************************************************************)
(* Transfers of one plan move no account by more than the source did.      *)
(***************************************************************************)

\* The transfers of a plan, and what they may post at most.
PlanTransfers(p) == p.synthetic \o p.windowed
PostsNoMore(W, s, id) ==
  \A side \in {"debit", "credit"} : Posted(W, side, id, Len(W)) <= Posted(s, side, id, Len(s))
Fitting(p, L) ==
  /\ IsList(p.synthetic) /\ IsList(p.windowed) /\ IsList(PlanTransfers(p))
  /\ \A t \in Range(PlanTransfers(p)) : t.amount \in Nat
  /\ \A id \in DOMAIN L.accounts : PostsNoMore(PlanTransfers(p), L.transfers, id)

\* Each of them comes once, and they post what the source has posted, or more.
PostsAll(W, s, id) ==
  \A side \in {"debit", "credit"} : Posted(s, side, id, Len(s)) <= Posted(W, side, id, Len(W))
Restoring(p, L) ==
  Posting(PlanTransfers(p)) /\ \A id \in DOMAIN L.accounts : PostsAll(PlanTransfers(p), L.transfers, id)

\* No account of both has moved more in T.
NoMore(T, L) ==
  \A id \in DOMAIN L.accounts \cap DOMAIN T.accounts :
     /\ T.accounts[id].dr <= L.accounts[id].dr
     /\ T.accounts[id].cr <= L.accounts[id].cr

LEMMA PostedInt ==
  ASSUME NEW s, NEW n \in Nat, n = Len(s), AllPost(s, n), NEW side, NEW id
  PROVE  Posted(s, side, id, n) \in Int
<1>1. PICK f : f = Postings(s, side, id)
  OBVIOUS
<1>2. Numbers(f, n)
  BY <1>1, PostingsAt
<1>3. \A k \in 0..n : SumTo(f, k) \in Int
  BY <1>2, SumSteps
<1>4. n \in 0..n
  OBVIOUS
<1> QED
  BY <1>1, <1>3, <1>4 DEF Posted

\* Transfers of such a plan alone move no account by more than the source did.
LEMMA FittingBounds ==
  ASSUME NEW L, NEW now, IsSource(L, now), NEW p, Fitting(p, L), NEW T, Accounted(T),
         Range(T.transfers) \subseteq Range(PlanTransfers(p))
  PROVE  NoMore(T, L)
<1>1. PICK W, n, s, r : W = PlanTransfers(p) /\ n = Len(W) /\ s = T.transfers /\ r = L.transfers
  OBVIOUS
<1>2. IsList(W) /\ AllPost(W, n) /\ n \in Nat /\ Posting(s) /\ Range(s) \subseteq Range(W) /\ IsHistory(r)
  <2>1. IsList(W) /\ \A t \in Range(W) : t.amount \in Nat
    BY <1>1 DEF Fitting
  <2>2. n \in Nat /\ \A i \in 1..n : W[i].amount \in Nat
    BY <1>1, <2>1, ListParts
  <2> QED
    BY <1>1, <2>1, <2>2 DEF AllPost, Posts, Accounted, IsSource
<1>3. ASSUME NEW id \in DOMAIN L.accounts, id \in DOMAIN T.accounts
      PROVE  T.accounts[id].dr <= L.accounts[id].dr /\ T.accounts[id].cr <= L.accounts[id].cr
  <2>1. ASSUME NEW side \in {"debit", "credit"}
        PROVE  Posted(s, side, id, Len(s)) <= Posted(r, side, id, Len(r))
    <3>1. PICK x, y, z : x = Posted(s, side, id, Len(s)) /\ y = Posted(W, side, id, n) /\ z = Posted(r, side, id, Len(r))
      OBVIOUS
    <3>2. x <= y
      BY <1>1, <1>2, <3>1, CountedOnce
    <3>3. y <= z
      BY <1>1, <1>3, <3>1 DEF Fitting, PostsNoMore
    <3>4. x \in Nat
      <4>1. Len(s) \in Nat /\ \A k \in 0..Len(s) : Posted(s, side, id, k) \in Nat
        BY <1>2, PostsNumbers
      <4>2. Len(s) \in 0..Len(s)
        BY <4>1
      <4> QED
        BY <3>1, <4>1, <4>2
    <3>5. z \in Nat
      <4>1. Len(r) \in Nat /\ \A k \in 0..Len(r) : Posted(r, side, id, k) \in Nat
        BY <1>2, PostedNumbers
      <4>2. Len(r) \in 0..Len(r)
        BY <4>1
      <4> QED
        BY <3>1, <4>1, <4>2
    <3>6. y \in Int
      BY <1>1, <1>2, <3>1, PostedInt
    <3> QED
      BY <3>1, <3>2, <3>3, <3>4, <3>5, <3>6
  <2>2. HasPosted(T.accounts[id], id, s)
    BY <1>1, <1>3 DEF Accounted
  <2>3. T.accounts[id].dr = Posted(s, "debit", id, Len(s)) /\ T.accounts[id].cr = Posted(s, "credit", id, Len(s))
    BY <2>2, AccountHas DEF HasPosted
  <2>4. PICK l, m, ts, d, c, h, g :
           /\ l = LedgerOf[id] /\ m = LimitOf[id] /\ ts = L.accounts[id].ts
           /\ d = Posted(r, "debit", id, Len(r)) /\ c = Posted(r, "credit", id, Len(r))
           /\ h = Held(r, "debit", id) /\ g = Held(r, "credit", id)
    OBVIOUS
  <2>5. L.accounts[id] = Account(id, l, m, ts, d, c, h, g)
    BY <1>1, <1>3, <2>4 DEF IsSource, Tallied
  <2>6. L.accounts[id].dr = d /\ L.accounts[id].cr = c
    BY <2>5, AccountHas
  <2> QED
    BY <2>1, <2>3, <2>4, <2>6
<1> QED
  BY <1>3 DEF NoMore

\* The synthetic transfers of a snapshot post the balances it was made of.
LEMMA SnapshotPosts ==
  ASSUME NEW S, Plannable(S), NEW windowed \in BOOLEAN, NEW p, p = BuildSnapshot(S, windowed),
         NEW X, X = p.synthetic
  PROVE  /\ Posting(X) /\ \A i \in 1..Len(X) : X[i].amount \in Nat /\ X[i].id = i
         /\ \A a \in S : Posted(X, "debit", a.id, Len(X)) = a.dr /\ Posted(X, "credit", a.id, Len(X)) = a.cr
<1>1. PICK G, Ls, m : G = GenesisAccounts(S) /\ Ls = LedgersOf(S) /\ m = 2 * Cardinality(Ls)
  OBVIOUS
<1>2. IsFiniteSet(S) /\ \A a \in S : a.ledger \in Nat
  BY DEF Plannable
<1>3. IsGenesis(G, Ls) /\ IsFiniteSet(Ls)
  BY <1>1, <1>2, GenesisParts
<1>4. m \in Nat /\ m = Len(G)
  <2>1. Cardinality(Ls) \in Nat
    BY <1>3, FS_CardinalityType
  <2> QED
    BY <1>1, <1>3, <2>1 DEF IsGenesis
<1>5. PICK q, floor : q = RegularAccounts(S, m) /\ floor = TransferTsFloor(q, m, windowed)
  OBVIOUS
<1>6. X = SyntheticTransfers(q, floor)
  BY <1>1, <1>4, <1>5 DEF BuildSnapshot
<1>7. IsRegular(q, S)
  BY <1>1, <1>4, <1>5, RegularParts
<1>8. floor \in Nat
  BY <1>1, <1>4, <1>5, <1>7, Floors
<1> QED
  BY <1>6, <1>7, <1>8, SyntheticPosts

\* Transfers with ids of the planner, and ones that applications made.
PlannedIds(X, m) ==
  /\ IsList(X) /\ m = Len(X) /\ m \in Nat
  /\ \A i \in 1..m : X[i].id \in Nat /\ X[i].id < FirstAppId
  /\ \A i \in 1..m : \A j \in 1..m : X[i].id = X[j].id => i = j
HistoryIds(W, k, v) ==
  /\ IsList(W) /\ v = Len(W) /\ v \in Nat /\ k \in Nat
  /\ \A i \in 1..v : W[i].id = FirstAppId + (k + i) - 1

\* One after the other, they all have ids of their own.
LEMMA JoinedPosting ==
  ASSUME NEW X, NEW m, PlannedIds(X, m), NEW W, NEW k, NEW v, HistoryIds(W, k, v),
         NEW Z, Z = X \o W, NEW w, w = m + v, AllPost(Z, w)
  PROVE  Posting(Z)
<1>0. /\ m \in Nat /\ v \in Nat /\ k \in Nat
      /\ \A i \in 1..m : X[i].id \in Nat /\ X[i].id < FirstAppId
      /\ \A i \in 1..m : \A j \in 1..m : X[i].id = X[j].id => i = j
      /\ \A i \in 1..v : W[i].id = FirstAppId + (k + i) - 1
  BY DEF PlannedIds, HistoryIds
<1>1. IsList(Z) /\ InTurn(Z, X, W, m, v)
  BY InTurns DEF PlannedIds, HistoryIds
<1>2. Len(Z) = w /\ w \in Nat
  <2>1. Len(Z) = m + v
    BY <1>1 DEF InTurn
  <2>2. m + v \in Nat
    BY <1>0
  <2> QED
    BY <2>1, <2>2
<1>3. FirstAppId \in Nat
  BY IdAssumption
<1>4. ASSUME NEW i \in 1..w
      PROVE  \/ i \in 1..m /\ Z[i].id = X[i].id
             \/ i \notin 1..m /\ Z[i].id = FirstAppId + (k + (i - m)) - 1
  <2>1. CASE i <= m
    <3>1. i \in 1..m
      BY <1>0, <2>1
    <3> QED
      BY <1>1, <3>1 DEF InTurn
  <2>2. CASE ~(i <= m)
    <3>1. PICK j \in 1..v : i = m + j /\ j = i - m
      <4>1. i - m \in 1..v /\ i = m + (i - m)
        BY <1>0, <2>2
      <4> QED
        BY <4>1
    <3>2. Z[i] = W[j]
      BY <1>1, <3>1 DEF InTurn
    <3>3. Z[i].id = FirstAppId + (k + j) - 1
      BY <1>0, <3>1, <3>2
    <3>4. i \notin 1..m
      BY <2>2
    <3> QED
      BY <3>1, <3>3, <3>4
  <2> QED
    BY <2>1, <2>2
<1>5. ASSUME NEW i \in 1..w, NEW j \in 1..w, Z[i].id = Z[j].id PROVE i = j
  <2>1. PICK x, y : x = Z[i].id /\ y = Z[j].id /\ x = y
    BY <1>5
  <2>2. CASE i \in 1..m /\ j \in 1..m
    BY <1>0, <1>4, <1>5, <2>2
  <2>3. CASE i \notin 1..m /\ j \notin 1..m
    <3>1. x = FirstAppId + (k + (i - m)) - 1 /\ y = FirstAppId + (k + (j - m)) - 1
      BY <1>4, <2>1, <2>3
    <3> QED
      BY <1>0, <1>3, <2>1, <3>1
  <2>4. CASE i \in 1..m /\ j \notin 1..m
    <3>1. x = X[i].id
      BY <1>4, <2>1, <2>4
    <3>2. x \in Nat /\ x < FirstAppId
      BY <1>0, <2>4, <3>1
    <3>3. y = FirstAppId + (k + (j - m)) - 1
      BY <1>4, <2>1, <2>4
    <3>4. j - m >= 1
      BY <1>0, <2>4
    <3> QED
      BY <1>0, <1>3, <2>1, <3>2, <3>3, <3>4
  <2>5. CASE i \notin 1..m /\ j \in 1..m
    <3>1. y = X[j].id
      BY <1>4, <2>1, <2>5
    <3>2. y \in Nat /\ y < FirstAppId
      BY <1>0, <2>5, <3>1
    <3>3. x = FirstAppId + (k + (i - m)) - 1
      BY <1>4, <2>1, <2>5
    <3>4. i - m >= 1
      BY <1>0, <2>5
    <3> QED
      BY <1>0, <1>3, <2>1, <3>2, <3>3, <3>4
  <2> QED
    BY <2>2, <2>3, <2>4, <2>5
<1> QED
  BY <1>1, <1>2, <1>5 DEF Posting, AllPost

\* A plan of the source posts what its history has posted, or less; and not
\* less if its window has one phase.
LEMMA SourceFits ==
  ASSUME NEW L, NEW now, IsSource(L, now), NEW c \in Nat, NEW plan, plan = PlanOf(L, c)
  PROVE  Fitting(plan, L) /\ (SinglePhase(WindowOf(L, c)) => Restoring(plan, L))
<1>1. PICK k, W, S, p : Planned(L, c, k, W, S, p)
  BY SourcePlanned
<1>2. PICK s, n, X, m, v, Z, w : /\ s = L.transfers /\ n = Len(s) /\ X = p.synthetic /\ m = Len(X) /\ v = n - k
                                 /\ Z = X \o W /\ w = m + v
  OBVIOUS
<1>3. IsHistory(s) /\ n \in Nat /\ k \in 0..n /\ v \in Nat /\ IsPiece(W, s, k, n) /\ Standing(L, S, k)
  <2>1. IsHistory(s) /\ n \in Nat
    BY <1>2, ListParts DEF IsSource, IsHistory
  <2>2. k \in 0..n /\ IsPiece(W, s, k, n) /\ Standing(L, S, k)
    BY <1>1, <1>2 DEF Planned, Divides
  <2> QED
    BY <1>2, <2>1, <2>2
<1>4. /\ Posting(X) /\ \A i \in 1..m : X[i].amount \in Nat /\ X[i].id = i
      /\ \A a \in S : Posted(X, "debit", a.id, m) = a.dr /\ Posted(X, "credit", a.id, m) = a.cr
  <2>1. PICK windowed \in BOOLEAN : p = BuildSnapshot(S, windowed)
    <3>1. Plannable(S) /\ p = SnapshotOf(S, c)
      BY <1>1 DEF Planned
    <3>2. p = BuildSnapshot(S, TRUE) \/ p = BuildSnapshot(S, FALSE)
      BY <3>1 DEF SnapshotOf
    <3> QED
      BY <3>2
  <2>2. Plannable(S)
    BY <1>1 DEF Planned
  <2>3. X = p.synthetic /\ m = Len(X)
    BY <1>2
  <2>4. /\ Posting(X) /\ \A i \in 1..Len(X) : X[i].amount \in Nat /\ X[i].id = i
        /\ \A a \in S : Posted(X, "debit", a.id, Len(X)) = a.dr /\ Posted(X, "credit", a.id, Len(X)) = a.cr
    BY <2>1, <2>2, <2>3, SnapshotPosts
  <2> QED
    BY <2>3, <2>4
<1>5. plan.synthetic = X /\ plan.windowed = W
  BY <1>1, <1>2 DEF Planned, HasWindow
<1>6. IsList(X) /\ IsList(W) /\ Len(W) = v /\ \A i \in 1..v : W[i] = s[k + i]
  BY <1>2, <1>3, <1>4 DEF Posting, IsPiece
<1>7. IsList(Z) /\ InTurn(Z, X, W, m, v) /\ m \in Nat /\ Len(Z) = w /\ w \in Nat
  <2>1. IsList(Z) /\ InTurn(Z, X, W, m, v) /\ m \in Nat
    BY <1>2, <1>6, InTurns
  <2>2. w \in Nat
    <3>1. PICK a \in Nat, b \in Nat : a = m /\ b = v
      BY <1>3, <2>1
    <3>2. w = a + b
      BY <1>2, <3>1
    <3> QED
      BY <3>2
  <2>3. Len(Z) = w
    BY <1>2, <2>1 DEF InTurn
  <2> QED
    BY <2>1, <2>2, <2>3
<1>8. AllPost(s, n) /\ AllPost(X, m) /\ PostsRest(W, v, s, k)
  <2>1. AllPost(s, n)
    BY <1>2, <1>3 DEF IsHistory, AllPost, Posts
  <2>2. AllPost(X, m)
    BY <1>2, <1>4 DEF Posting, AllPost
  <2>3. PostsRest(W, v, s, k)
    BY <1>6 DEF PostsRest, SamePosting
  <2> QED
    BY <2>1, <2>2, <2>3
<1>9. ASSUME NEW t \in Range(Z) PROVE t.amount \in Nat
  <2>1. Range(Z) = Range(X) \cup Range(W)
    BY <1>2, <1>6, Joined
  <2>2. ASSUME t \in Range(X) PROVE t.amount \in Nat
    BY <1>2, <1>4, <1>6, <2>2, ListParts
  <2>3. ASSUME t \in Range(W) PROVE t.amount \in Nat
    <3>1. PICK i \in 1..v : t = s[k + i] /\ k + i \in 1..n
      <4>1. PICK i \in 1..v : t = W[i]
        BY <1>6, <2>3, ListParts
      <4>2. k + i \in 1..n
        BY <1>2, <1>3, <4>1
      <4> QED
        BY <1>6, <4>1, <4>2
    <3> QED
      BY <1>2, <1>3, <3>1 DEF IsHistory
  <2> QED
    BY <2>1, <2>2, <2>3
<1>10. ASSUME NEW id \in DOMAIN L.accounts, NEW side \in {"debit", "credit"}
       PROVE  /\ Posted(Z, side, id, w) <= Posted(s, side, id, n)
              /\ SinglePhase(W) => Posted(s, side, id, n) <= Posted(Z, side, id, w)
  <2>1. PICK b, x, y, z, r : /\ b = Posted(s, side, id, k) /\ x = Posted(X, side, id, m) /\ y = Posted(W, side, id, v)
                             /\ z = Posted(Z, side, id, w) /\ r = Posted(s, side, id, n)
    OBVIOUS
  <2>2. AllPost(W, v) /\ r = b + y
    <3>1. AllPost(W, v) /\ Posted(s, side, id, n) = Posted(s, side, id, k) + Posted(W, side, id, v)
      BY <1>2, <1>3, <1>8, PostedRest
    <3> QED
      BY <2>1, <3>1
  <2>3. z = x + y
    <3>1. Len(X) = m /\ w = m + v
      BY <1>2
    <3>2. m \in Nat /\ v \in Nat /\ Len(W) = v /\ InTurn(Z, X, W, m, v) /\ AllPost(X, m) /\ AllPost(W, v)
      BY <1>3, <1>6, <1>7, <1>8, <2>2
    <3>3. Posted(Z, side, id, w) = Posted(X, side, id, m) + Posted(W, side, id, v)
      BY <3>1, <3>2, PostedJoin
    <3> QED
      BY <2>1, <3>3
  <2>4. x <= b /\ x \in Nat /\ (SinglePhase(W) => x = b)
    <3>1. PICK a \in S : a.id = id
      BY <1>3 DEF Standing
    <3>2. /\ a.dr <= Posted(s, "debit", id, k) /\ a.cr <= Posted(s, "credit", id, k)
          /\ a.dr \in Nat /\ a.cr \in Nat
      BY <1>2, <1>3, <3>1 DEF Standing
    <3>3. Posted(X, "debit", id, m) = a.dr /\ Posted(X, "credit", id, m) = a.cr
      BY <1>4, <3>1
    <3>4. SinglePhase(W) => a.dr = Posted(s, "debit", id, k) /\ a.cr = Posted(s, "credit", id, k)
      <4>1. PICK T : T = S /\ T = PlannedOf(L, c, W) /\ Divides(L, c, k, W)
        BY <1>1 DEF Planned
      <4>2. SinglePhase(W) => StandingAt(S, s, k)
        BY <1>2, <4>1, CutoffAccounts
      <4> QED
        BY <3>1, <4>2 DEF StandingAt
    <3> QED
      BY <2>1, <3>2, <3>3, <3>4
  <2>5. y \in Int
    BY <1>3, <1>6, <2>1, <2>2, PostedInt
  <2>6. b \in Nat
    BY <1>2, <1>3, <2>1, PostedNumbers
  <2> QED
    BY <2>1, <2>2, <2>3, <2>4, <2>5, <2>6
<1>11. Fitting(plan, L)
  BY <1>2, <1>5, <1>6, <1>7, <1>9, <1>10 DEF Fitting, PlanTransfers, PostsNoMore
<1>12. Posting(Z)
  <2>1. m < FirstAppId /\ FirstAppId \in Nat
    <3>1. Plannable(S) /\ p = SnapshotOf(S, c)
      BY <1>1 DEF Planned
    <3>2. PICK windowed \in BOOLEAN : p = BuildSnapshot(S, windowed)
      BY <3>1 DEF SnapshotOf
    <3>3. PICK floor : Starts(p, S, windowed, floor)
      BY <3>1, <3>2, SnapshotTaken
    <3>4. m <= 2 * Cardinality(WithBalance(S))
      BY <1>2, <3>3 DEF Starts
    <3> QED
      BY <1>2, <1>3, <1>7, <3>1, <3>4, SyntheticIds
  <2>2. \A i \in 1..m : X[i].id = i /\ X[i].id \in Nat /\ X[i].id < FirstAppId
    BY <1>4, <1>7, <2>1
  <2>3. ASSUME NEW i \in 1..v PROVE W[i].id = FirstAppId + (k + i) - 1
    <3>1. k + i \in 1..n
      BY <1>2, <1>3
    <3>2. s[k + i].id = FirstAppId + (k + i) - 1
      BY <1>2, <1>3, <3>1 DEF IsHistory
    <3> QED
      BY <1>6, <3>2
  <2>4. AllPost(Z, w)
    <3>1. \A i \in 1..w : Z[i].amount \in Nat
      BY <1>7, <1>9, ListParts
    <3> QED
      BY <3>1 DEF AllPost, Posts
  <2>5. k \in Nat /\ v \in Nat /\ m = Len(X) /\ w = m + v /\ Z = X \o W
    BY <1>2, <1>3
  <2>6. PlannedIds(X, m)
    BY <1>6, <1>7, <2>2, <2>5 DEF PlannedIds
  <2>7. HistoryIds(W, k, v)
    BY <1>6, <2>3, <2>5 DEF HistoryIds
  <2> QED
    BY <2>4, <2>5, <2>6, <2>7, JoinedPosting
<1>13. SinglePhase(WindowOf(L, c)) => Restoring(plan, L)
  <2>1. W = WindowOf(L, c)
    BY <1>1 DEF Planned
  <2> QED
    BY <1>2, <1>5, <1>7, <1>10, <1>12, <2>1 DEF Restoring, PlanTransfers, PostsAll
<1> QED
  BY <1>11, <1>13

\* So does a plan of its transfers alone.
LEMMA CsvFits ==
  ASSUME NEW L, NEW now, IsSource(L, now), NEW base, Reopened(base, L), NEW s, s = L.transfers,
         NEW n \in Nat, n = Len(s), NEW plan, NEW k, NEW v, NEW m, NEW floor, NEW Q, NEW D,
         SplitsAt(plan, base, s, n, k, v, m, floor, Q, D)
  PROVE  Fitting(plan, L) /\ Restoring(plan, L)
<1>1. /\ plan = CsvPlan(Q, D) /\ k \in 0..n /\ v \in Nat /\ v = n - k /\ m \in Nat
      /\ CopyFrom(D, s, k, v) /\ Leads(Q, m, base, s, k, floor) /\ SameSums(Q, m, s, k)
  BY DEF SplitsAt
<1>2. PICK W, w : W = Q \o D /\ w = m + v /\ w \in Nat
  <2>1. m + v \in Nat
    BY <1>1
  <2> QED
    BY <2>1
<1>3. plan.synthetic = Q /\ plan.windowed = D
  BY <1>1 DEF CsvPlan
<1>4. IsList(Q) /\ Len(Q) = m /\ IsList(D) /\ Len(D) = v
  BY <1>1 DEF Leads, CopyFrom
<1>5. IsList(W) /\ InTurn(W, Q, D, m, v) /\ Len(W) = w
  <2>1. IsList(W) /\ InTurn(W, Q, D, m, v)
    BY <1>2, <1>4, InTurns
  <2> QED
    BY <1>2, <2>1 DEF InTurn
<1>6. IsHistory(s) /\ AllPost(s, n)
  <2>1. IsHistory(s)
    BY DEF IsSource
  <2> QED
    BY <2>1 DEF IsHistory, AllPost, Posts
<1>7. \A i \in 1..m : Q[i].amount \in Nat
  BY <1>1 DEF Leads, Single
<1>8. SameSums(W, w, s, n)
  <2>1. AllPost(Q, m)
    BY <1>7 DEF AllPost, Posts
  <2> QED
    BY <1>1, <1>2, <1>4, <1>5, <1>6, <2>1, BothSum
<1>9. ASSUME NEW t \in Range(W) PROVE t.amount \in Nat
  <2>1. Range(W) = Range(Q) \cup Range(D)
    BY <1>2, <1>4, Joined
  <2>2. ASSUME t \in Range(Q) PROVE t.amount \in Nat
    BY <1>4, <1>7, <2>2, ListParts
  <2>3. ASSUME t \in Range(D) PROVE t.amount \in Nat
    <3>1. PICK i \in 1..v : t = D[i] /\ k + i \in 1..n
      <4>1. PICK i \in 1..v : t = D[i]
        BY <1>4, <2>3, ListParts
      <4> QED
        BY <1>1, <4>1
    <3>2. t.amount = s[k + i].amount
      BY <1>1, <3>1 DEF CopyFrom, Repeats, AtTime
    <3> QED
      BY <1>6, <3>1, <3>2 DEF IsHistory
  <2> QED
    BY <2>1, <2>2, <2>3
<1>10. ASSUME NEW id, NEW side
       PROVE  Posted(W, side, id, w) <= Posted(s, side, id, n) /\ Posted(s, side, id, n) <= Posted(W, side, id, w)
  <2>1. PICK x : x = Posted(s, side, id, n)
    OBVIOUS
  <2>2. x \in Int
    BY <1>6, <2>1, PostedInt
  <2>3. Posted(W, side, id, w) = x
    BY <1>8, <2>1 DEF SameSums
  <2> QED
    BY <2>1, <2>2, <2>3
<1>11. Fitting(plan, L)
  BY <1>2, <1>3, <1>4, <1>5, <1>9, <1>10 DEF Fitting, PlanTransfers, PostsNoMore
<1>12. Posting(W)
  <2>1. \A i \in 1..m : Q[i].id \in Nat /\ Q[i].id < FirstAppId
    BY <1>1 DEF Leads
  <2>2. ASSUME NEW i \in 1..m, NEW j \in 1..m, Q[i].id = Q[j].id PROVE i = j
    <3>1. ~(i < j) /\ ~(j < i)
      BY <1>1, <2>2 DEF Leads
    <3> QED
      BY <1>1, <3>1
  <2>3. ASSUME NEW i \in 1..v PROVE D[i].id = FirstAppId + (k + i) - 1
    <3>1. k + i \in 1..n /\ D[i].id = s[k + i].id
      BY <1>1 DEF CopyFrom, Repeats, AtTime
    <3> QED
      BY <1>6, <3>1 DEF IsHistory
  <2>4. AllPost(W, w)
    <3>1. \A i \in 1..w : W[i].amount \in Nat
      BY <1>5, <1>9, ListParts
    <3> QED
      BY <3>1 DEF AllPost, Posts
  <2>5. k \in Nat /\ v \in Nat /\ m \in Nat
    BY <1>1
  <2>6. PlannedIds(Q, m)
    BY <1>4, <2>1, <2>2, <2>5 DEF PlannedIds
  <2>7. HistoryIds(D, k, v)
    BY <1>4, <2>3, <2>5 DEF HistoryIds
  <2>8. W = Q \o D /\ w = m + v
    BY <1>2
  <2> QED
    BY <2>4, <2>6, <2>7, <2>8, JoinedPosting
<1>13. Restoring(plan, L)
  BY <1>2, <1>3, <1>5, <1>10, <1>12 DEF Restoring, PlanTransfers, PostsAll
<1> QED
  BY <1>11, <1>13

\* Transfers that are known already are all refused.
LEMMA KnownRefused ==
  ASSUME NEW L, NEW s, IsList(s), \A x \in Range(s) : x.id \in TransferIds(L)
  PROVE  CreateTransfers(L, s) = L
<1>1. PICK n, R : n = Len(s) /\ R = CreateTransfers(L, s) /\ n \in Nat
  BY ListParts
<1>2. PICK r : StepByStep(r, "transfers", 0, L, s, R)
  BY <1>1, TransfersStepByStep
<1>3. r[0] = L /\ r[n] = R /\ \A i \in 1..n : r[i] = CreateTransfer(r[i - 1], s[i])
  BY <1>1, <1>2 DEF StepByStep, Fold
<1>4. PICK T : T = {i \in 0..n : r[i] = L}
  OBVIOUS
<1>5. ASSUME NEW i \in 1..n, i - 1 \in T PROVE i \in T
  <2>1. r[i - 1] = L /\ r[i] = CreateTransfer(r[i - 1], s[i])
    BY <1>3, <1>4, <1>5
  <2>2. s[i].id \in TransferIds(L)
    BY <1>1, ListParts
  <2>3. r[i] = L
    BY <2>1, <2>2 DEF CreateTransfer, TransferRefused
  <2> QED
    BY <1>1, <1>4, <2>3
<1>6. 0 \in T
  BY <1>1, <1>3, <1>4
<1>7. \A i \in 0..n : i \in T
  BY <1>1, <1>5, <1>6, Upwards
<1>8. n \in T
  BY <1>1, <1>7
<1> QED
  BY <1>1, <1>3, <1>4, <1>8

-----------------------------------------------------------------------------
(***************************************************************************)
(* What a batch brings of a plan, and what the first batch brings.         *)
(***************************************************************************)

\* b brings no transfers but those of p.
Fit(b, p) == b.kind = "transfers" => Range(b.objects) \subseteq Range(PlanTransfers(p))

LEMMA BatchesFit ==
  ASSUME NEW p, PlanLists(p), NEW b \in Range(Batches(p))
  PROVE  Fit(b, p)
<1>1. PICK q1, q2, q3, q4 :
         /\ q1 = Chunks("accounts", p.genesis) /\ q2 = Chunks("accounts", p.regular)
         /\ q3 = Chunks("transfers", p.synthetic) /\ q4 = Chunks("transfers", p.windowed)
         /\ Batches(p) = q1 \o q2 \o q3 \o q4
  BY DEF Batches
<1>2. /\ IsList(q1) /\ \A x \in Range(q1) : x.kind = "accounts"
      /\ IsList(q2) /\ \A x \in Range(q2) : x.kind = "accounts"
  BY <1>1, ChunksCover DEF PlanLists
<1>3. IsList(q3) /\ \A x \in Range(q3) : Range(x.objects) \subseteq Range(p.synthetic)
  BY <1>1, ChunksCover DEF PlanLists
<1>4. IsList(q4) /\ \A x \in Range(q4) : Range(x.objects) \subseteq Range(p.windowed)
  BY <1>1, ChunksCover DEF PlanLists
<1>5. IsList(q1 \o q2) /\ Range(q1 \o q2) = Range(q1) \cup Range(q2)
  BY <1>2, Joined
<1>6. IsList(q1 \o q2 \o q3) /\ Range(q1 \o q2 \o q3) = Range(q1) \cup Range(q2) \cup Range(q3)
  BY <1>3, <1>5, Joined
<1>7. Range(Batches(p)) = Range(q1) \cup Range(q2) \cup Range(q3) \cup Range(q4)
  BY <1>1, <1>4, <1>6, Joined
<1>8. Range(PlanTransfers(p)) = Range(p.synthetic) \cup Range(p.windowed)
  BY Joined DEF PlanLists, PlanTransfers
<1> QED
  BY <1>2, <1>3, <1>4, <1>7, <1>8 DEF Fit

\* The first batch of a list.
IsFirst(b, kind, s, n) ==
  \E e \in 1..n : e = Min({BatchSize, n}) /\ b = [kind |-> kind, objects |-> SubSeq(s, 1, e)]

LEMMA FirstChunk ==
  ASSUME NEW s, IsList(s), NEW n \in Nat \ {0}, n = Len(s), NEW kind, NEW q, q = Chunks(kind, s)
  PROVE  IsList(q) /\ Len(q) >= 1 /\ IsFirst(q[1], kind, s, n)
<1>1. PICK B \in Nat \ {0} : B = BatchSize
  BY SizeAssumption
<1>2. PICK m \in Nat : m = (n + B - 1) \div B /\ m >= 1
  <2>1. PICK a \in Nat : a = n + B - 1 /\ a >= B
    OBVIOUS
  <2>2. a \div B \in Nat /\ a < B * (a \div B) + B
    BY <2>1
  <2>3. PICK d \in Nat : d = a \div B
    BY <2>2
  <2>4. d # 0
    <3> SUFFICES ASSUME d = 0 PROVE FALSE
      OBVIOUS
    <3>1. B * d = 0
      OBVIOUS
    <3> QED
      BY <2>1, <2>2, <2>3, <3>1
  <2> QED
    BY <2>1, <2>3, <2>4
<1>3. q = [i \in 1..m |-> q[i]] /\ 1 \in 1..m
  BY <1>1, <1>2 DEF Chunks
<1>4. IsList(q) /\ Len(q) = m
  BY <1>3, ListOf
<1>5. PICK e \in 1..n : e = Min({B, n})
  <2>1. Min({B, n}) = IF B <= n THEN B ELSE n
    BY Lesser
  <2>2. Min({B, n}) \in 1..n
    BY <2>1
  <2> QED
    BY <2>2
<1>6. q[1] = [kind |-> kind, objects |-> SubSeq(s, 1, e)]
  <2>1. (1 - 1) * B + 1 = 1 /\ 1 * B = B
    OBVIOUS
  <2>2. q[1] = [kind |-> kind, objects |-> SubSeq(s, (1 - 1) * B + 1, Min({1 * B, n}))]
    BY <1>1, <1>2, <1>3 DEF Chunks
  <2> QED
    BY <1>5, <2>1, <2>2
<1> QED
  BY <1>1, <1>2, <1>4, <1>5, <1>6 DEF IsFirst

\* The first batch of a plan of transfers whose first part is not empty.
LEMMA FirstBatch ==
  ASSUME NEW Q, IsList(Q), NEW D, IsList(D), NEW m \in Nat \ {0}, m = Len(Q), NEW q, q = Batches(CsvPlan(Q, D))
  PROVE  q # <<>> /\ IsFirst(Head(q), "transfers", Q, m)
<1>1. PICK z, x, y : z = Chunks("accounts", <<>>) /\ x = Chunks("transfers", Q) /\ y = Chunks("transfers", D)
  OBVIOUS
<1>2. q = z \o z \o x \o y
  BY <1>1 DEF Batches, CsvPlan
<1>3. z = <<>>
  <2>1. PICK B \in Nat \ {0} : B = BatchSize
    BY SizeAssumption
  <2>2. (0 + B - 1) \div B = 0
    OBVIOUS
  <2>3. Len(<<>>) = 0 /\ 1..0 = {}
    OBVIOUS
  <2> QED
    BY <1>1, <2>1, <2>2, <2>3 DEF Chunks
<1>4. IsList(x) /\ Len(x) >= 1 /\ IsFirst(x[1], "transfers", Q, m)
  BY <1>1, FirstChunk
<1>5. IsList(y)
  BY <1>1, ChunksCover
<1>6. PICK S : x \in Seq(S) /\ y \in Seq(S) /\ z \in Seq(S)
  <2>1. PICK S : S = Range(x) \cup Range(y)
    OBVIOUS
  <2>2. x \in Seq(Range(x)) /\ y \in Seq(Range(y))
    BY <1>4, <1>5 DEF IsList
  <2>3. x \in Seq(S) /\ y \in Seq(S)
    BY <2>1, <2>2
  <2> QED
    BY <1>3, <2>3
<1>7. q = x \o y
  <2>1. z \o z = <<>> /\ <<>> \o x = x
    BY <1>3, <1>6
  <2> QED
    BY <1>2, <2>1
<1>8. q # <<>> /\ Head(q) = x[1]
  <2>1. Len(q) \in Nat /\ Len(q) >= 1 /\ q[1] = x[1]
    BY <1>4, <1>6, <1>7
  <2> QED
    BY <1>6, <1>7, <2>1
<1> QED
  BY <1>4, <1>8

-----------------------------------------------------------------------------
(***************************************************************************)
(* What a step does to a call.                                             *)
(***************************************************************************)

\* What a step does to a call: nothing that brings a batch further, or one of
\* these.
Early == {"connecting", "ready", "waiting"}
Rests(c) ==
  /\ request'[c] = request[c] \/ request'[c] = None
  /\ job'[c].todo = job[c].todo
  /\ job'[c].stage \in Early => job[c].stage \in Early
  /\ job'[c].stage = "reporting" => job[c].stage = "reporting"
Begins(c) ==
  /\ request'[c] = request[c] /\ job'[c].stage = "connecting"
  /\ \E part \in parts : \E plan \in Plans(part) : job'[c].todo = Batches(plan)
Submits(c) ==
  /\ job[c].stage = "ready" /\ job[c].todo # <<>> /\ request'[c] = Head(job[c].todo)
  /\ job'[c].stage = "waiting" /\ job'[c].todo = job[c].todo
Reports(c) ==
  /\ job[c].stage = "reporting" /\ job[c].todo # <<>> /\ request'[c] = request[c]
  /\ job'[c].stage = "ready" /\ job'[c].todo = Tail(job[c].todo)
Answered(c) ==
  /\ request[c] # None /\ target' = Applied(request[c]) /\ request'[c] = None /\ job'[c].todo = job[c].todo
  /\ IF job[c].stage = "waiting"
     THEN \/ job'[c].stage = "reporting" /\ Size(target') = Size(target) + Len(request[c].objects)
          \/ job'[c].stage = "ended"
     ELSE job'[c].stage = job[c].stage
OthersRest(c) == \A e \in Calls : e # c => job'[e] = job[e] /\ request'[e] = request[e]
CallDoes(c) ==
  \/ target' = target /\ (Rests(c) \/ Begins(c) \/ Submits(c) \/ Reports(c))
  \/ Answered(c)

LEMMA OneCallDoes ==
  ASSUME Inv, NEW c \in Calls,
         \/ Refuse(c) \/ StartImport(c) \/ JobStep(c)
         \/ TargetAnswers(c) \/ RequestFails(c) \/ RequestLost(c)
         \/ ReadProgress(c) \/ ReadOutcome(c) \/ Leave(c)
  PROVE  UNCHANGED fixed /\ OthersRest(c) /\ CallDoes(c)
<1>1. Shape /\ JobInv(c)
  BY DEF Inv
<1>2. CASE Refuse(c)
  <2>1. /\ job'[c].stage = "ended" /\ job'[c].todo = job[c].todo /\ \A e \in Calls : e # c => job'[e] = job[e]
        /\ request' = request /\ target' = target /\ UNCHANGED fixed
    BY <1>1, <1>2, Refusing DEF Refuse
  <2> QED
    BY <2>1 DEF OthersRest, CallDoes, Rests, Early
<1>3. CASE StartImport(c)
  <2>1. PICK part \in parts : \E plan \in Plans(part) :
           job' = [job EXCEPT ![c] = [part |-> part, stage |-> "connecting", todo |-> Batches(plan)]]
    BY <1>3 DEF StartImport
  <2>2. PICK plan \in Plans(part) :
           job' = [job EXCEPT ![c] = [part |-> part, stage |-> "connecting", todo |-> Batches(plan)]]
    BY <2>1
  <2>3. /\ job'[c].stage = "connecting" /\ job'[c].todo = Batches(plan)
        /\ \A e \in Calls : e # c => job'[e] = job[e]
    BY <1>1, <2>2 DEF Shape
  <2>4. request' = request /\ target' = target /\ UNCHANGED fixed
    BY <1>3 DEF StartImport
  <2> QED
    BY <2>3, <2>4 DEF OthersRest, CallDoes, Begins
<1>4. CASE Connect(c)
  <2>1. At(c, "connecting") /\ request' = request /\ target' = target /\ UNCHANGED fixed
    BY <1>4 DEF Connect
  <2>2. \E stage \in {"ready", "ended"} : Goto(c, stage)
    BY <1>4 DEF Connect, EndJob
  <2>3. PICK stage \in {"ready", "ended"} : Goto(c, stage)
    BY <2>2
  <2>4. job'[c].stage = stage /\ job'[c].todo = job[c].todo /\ \A e \in Calls : e # c => job'[e] = job[e]
    BY <1>1, <2>3, Going
  <2> QED
    BY <2>1, <2>4 DEF OthersRest, CallDoes, Rests, Early, At
<1>5. CASE SubmitBatch(c)
  <2>1. At(c, "ready") /\ job[c].todo # <<>> /\ Goto(c, "waiting") /\ target' = target /\ UNCHANGED fixed
    BY <1>5 DEF SubmitBatch
  <2>2. request'[c] = Head(job[c].todo) /\ \A e \in Calls : e # c => request'[e] = request[e]
    BY <1>1, <1>5 DEF SubmitBatch, Shape
  <2>3. job'[c].stage = "waiting" /\ job'[c].todo = job[c].todo /\ \A e \in Calls : e # c => job'[e] = job[e]
    BY <1>1, <2>1, Going
  <2> QED
    BY <2>1, <2>2, <2>3 DEF OthersRest, CallDoes, Submits, At
<1>6. CASE SendProgress(c)
  <2>1. At(c, "reporting") /\ request' = request /\ target' = target /\ UNCHANGED fixed
    BY <1>6 DEF SendProgress
  <2>2. /\ job'[c].stage = "ready" /\ job'[c].todo = Tail(job[c].todo)
        /\ \A e \in Calls : e # c => job'[e] = job[e]
    BY <1>1, <1>6, Progressing
  <2> QED
    BY <1>1, <2>1, <2>2 DEF OthersRest, CallDoes, Reports, At, JobInv
<1>7. CASE AllImported(c) \/ RequestFails(c)
  <2>1. Goto(c, "ended") /\ request' = request /\ target' = target /\ UNCHANGED fixed
    BY <1>7 DEF AllImported, RequestFails, EndJob
  <2>2. job'[c].stage = "ended" /\ job'[c].todo = job[c].todo /\ \A e \in Calls : e # c => job'[e] = job[e]
    BY <1>1, <2>1, Going
  <2> QED
    BY <2>1, <2>2 DEF OthersRest, CallDoes, Rests, Early
<1>8. CASE RequestLost(c)
  <2>1. job' = job /\ target' = target /\ UNCHANGED fixed
    BY <1>8 DEF RequestLost
  <2>2. request'[c] = None /\ \A e \in Calls : e # c => request'[e] = request[e]
    BY <1>1, <1>8 DEF RequestLost, Shape
  <2> QED
    BY <2>1, <2>2 DEF OthersRest, CallDoes, Rests
<1>9. CASE ReadProgress(c) \/ ReadOutcome(c) \/ Leave(c)
  <2>1. job' = job /\ request' = request /\ target' = target /\ UNCHANGED fixed
    BY <1>9 DEF ReadProgress, ReadOutcome, Leave
  <2> QED
    BY <2>1 DEF OthersRest, CallDoes, Rests
<1>10. CASE TargetAnswers(c)
  <2>1. request[c] # None /\ target' = Applied(request[c]) /\ UNCHANGED fixed
    BY <1>10 DEF TargetAnswers
  <2>2. request'[c] = None /\ \A e \in Calls : e # c => request'[e] = request[e]
    BY <1>1, <1>10 DEF TargetAnswers, Shape
  <2>3. CASE ~At(c, "waiting")
    <3>1. job' = job
      BY <1>10, <2>3 DEF TargetAnswers
    <3> QED
      BY <2>1, <2>2, <2>3, <3>1 DEF OthersRest, CallDoes, Answered, At
  <2>4. CASE At(c, "waiting")
    <3>1. \/ Goto(c, "reporting") /\ Size(target') = Size(target) + Len(request[c].objects)
          \/ Goto(c, "ended")
      BY <1>10, <2>4 DEF TargetAnswers, EndJob
    <3>2. ASSUME NEW stage, Goto(c, stage)
          PROVE  job'[c].stage = stage /\ job'[c].todo = job[c].todo /\ \A e \in Calls : e # c => job'[e] = job[e]
      BY <1>1, <3>2, Going
    <3>3. /\ job'[c].todo = job[c].todo /\ \A e \in Calls : e # c => job'[e] = job[e]
          /\ \/ job'[c].stage = "reporting" /\ Size(target') = Size(target) + Len(request[c].objects)
             \/ job'[c].stage = "ended"
      BY <3>1, <3>2
    <3> QED
      BY <2>1, <2>2, <2>4, <3>3 DEF OthersRest, CallDoes, Answered, At
  <2> QED
    BY <2>3, <2>4
<1> QED
  BY <1>2, <1>3, <1>4, <1>5, <1>6, <1>7, <1>8, <1>9, <1>10 DEF JobStep

LEMMA StepDoes ==
  ASSUME Inv, [Next]_vars
  PROVE  /\ UNCHANGED fixed
         /\ \/ target' = target /\ \A c \in Calls : Rests(c)
            \/ \E c \in Calls : OthersRest(c) /\ CallDoes(c)
<1>1. CASE NodeDies
  <2>1. target' = target /\ request' = request /\ UNCHANGED fixed
    BY <1>1 DEF NodeDies
  <2>2. ASSUME NEW c \in Calls PROVE Rests(c)
    <3>1. job[c] = [part |-> job[c].part, stage |-> job[c].stage, todo |-> job[c].todo]
      BY DEF Inv, Shape
    <3>2. job'[c] = IF job[c].stage \in {"new", "ended"} THEN job[c] ELSE [job[c] EXCEPT !.stage = "dead"]
      BY <1>1 DEF NodeDies
    <3>3. job'[c].todo = job[c].todo /\ (job'[c].stage = job[c].stage \/ job'[c].stage = "dead")
      BY <3>1, <3>2
    <3> QED
      BY <2>1, <3>3 DEF Rests, Early
  <2> QED
    BY <2>1, <2>2
<1>2. ASSUME NEW c \in Calls,
             \/ Refuse(c) \/ StartImport(c) \/ JobStep(c)
             \/ TargetAnswers(c) \/ RequestFails(c) \/ RequestLost(c)
             \/ ReadProgress(c) \/ ReadOutcome(c) \/ Leave(c)
      PROVE  UNCHANGED fixed /\ OthersRest(c) /\ CallDoes(c)
  BY <1>2, OneCallDoes
<1>3. CASE UNCHANGED vars
  <2>1. target' = target /\ request' = request /\ job' = job /\ UNCHANGED fixed
    BY <1>3 DEF vars, fixed
  <2>2. \A c \in Calls : Rests(c)
    BY <2>1 DEF Rests
  <2> QED
    BY <2>1, <2>2
<1> QED
  BY <1>1, <1>2, <1>3 DEF Next

-----------------------------------------------------------------------------
(***************************************************************************)
(* One plan alone reaches the target (Settled).                            *)
(***************************************************************************)

\* All ids of a batch of transfers are known to T.
Stale(b, T) == b.kind = "transfers" /\ b.objects # <<>> /\ IdsIn(b) \subseteq TransferIds(T)
AllFit(todo, p) == \A b \in Range(todo) : Fit(b, p)
\* Batches of p's transfers alone; or the first will be refused, and no other
\* sent.
Harmless(todo, p, T) == AllFit(todo, p) \/ (todo # <<>> /\ Stale(Head(todo), T))

Bound(c, p) ==
  /\ request[c] # None => Fit(request[c], p) \/ Stale(request[c], target)
  /\ job[c].stage \in Early => Harmless(job[c].todo, p, target)
  /\ job[c].stage = "reporting" => AllFit(job[c].todo, p)

\* The target has transfers of the plan p alone, and will not take others.
Settled(p) ==
  /\ Range(target.transfers) \subseteq Range(PlanTransfers(p))
  /\ \A part \in parts : \A q \in Plans(part) : Harmless(Batches(q), p, target)
  /\ \A c \in Calls : Bound(c, p)

LEMMA HarmlessStays ==
  ASSUME NEW T, NEW R, Grown(T, R), NEW p
  PROVE  /\ \A b : Stale(b, T) => Stale(b, R)
         /\ \A todo : Harmless(todo, p, T) => Harmless(todo, p, R)
<1>1. TransferIds(T) \subseteq TransferIds(R)
  BY DEF Grown, TransferIds
<1>2. \A b : Stale(b, T) => Stale(b, R)
  BY <1>1 DEF Stale
<1> QED
  BY <1>2 DEF Harmless

LEMMA RestsBound ==
  ASSUME Grown(target, target'), NEW c, Rests(c) \/ (job'[c] = job[c] /\ request'[c] = request[c]), NEW p, Bound(c, p)
  PROVE  Bound(c, p)'
<1>1. /\ request'[c] = request[c] \/ request'[c] = None
      /\ job'[c].todo = job[c].todo
      /\ job'[c].stage \in Early => job[c].stage \in Early
      /\ job'[c].stage = "reporting" => job[c].stage = "reporting"
  BY DEF Rests
<1>2. request'[c] # None => Fit(request'[c], p) \/ Stale(request'[c], target')
  BY <1>1, HarmlessStays DEF Bound
<1>3. job'[c].stage \in Early => Harmless(job'[c].todo, p, target')
  BY <1>1, HarmlessStays DEF Bound
<1>4. job'[c].stage = "reporting" => AllFit(job'[c].todo, p)
  BY <1>1 DEF Bound
<1> QED
  BY <1>2, <1>3, <1>4 DEF Bound

\* What is left is to look at one call.
LEMMA SettledStays ==
  ASSUME NEW p, Settled(p), UNCHANGED fixed, Grown(target, target'),
         Range(target'.transfers) \subseteq Range(PlanTransfers(p)), NEW c \in Calls, OthersRest(c), Bound(c, p)'
  PROVE  Settled(p)'
<1>1. parts' = parts /\ \A part : Plans(part)' = Plans(part)
  BY SamePlans
<1>2. \A part \in parts : \A q \in Plans(part) : Harmless(Batches(q), p, target')
  BY HarmlessStays DEF Settled
<1>3. ASSUME NEW e \in Calls, e # c PROVE Bound(e, p)'
  <2>1. job'[e] = job[e] /\ request'[e] = request[e] /\ Bound(e, p)
    BY <1>3 DEF OthersRest, Settled
  <2> QED
    BY <2>1, RestsBound
<1>4. \A e \in Calls : Bound(e, p)'
  BY <1>3
<1>5. (\A part \in parts : \A q \in Plans(part) : Harmless(Batches(q), p, target))'
  BY <1>1, <1>2
<1> QED
  BY <1>4, <1>5 DEF Settled

\* A batch that fits, or is stale, keeps the target to the plan.
LEMMA BatchKeepsPlan ==
  ASSUME LedgerShape(target), Accounted(target), NEW L, NEW p, Fitting(p, L), Range(target.transfers) \subseteq Range(PlanTransfers(p)),
         NEW b, GoodBatch(b), Fit(b, p) \/ Stale(b, target), NEW R, R = Applied(b)
  PROVE  /\ Accounted(R) /\ Range(R.transfers) \subseteq Range(PlanTransfers(p))
         /\ LedgerShape(R) /\ Grown(target, R) /\ (Stale(b, target) => R = target)
<1>1. LedgerShape(R) /\ Grown(target, R) /\ IsList(b.objects)
  BY BatchApplied DEF GoodBatch
<1>2. ASSUME Stale(b, target) PROVE R = target
  <2>1. b.kind = "transfers" /\ \A x \in Range(b.objects) : x.id \in TransferIds(target)
    BY <1>2 DEF Stale, IdsIn
  <2>2. R = CreateTransfers(target, b.objects)
    BY <2>1 DEF Applied
  <2> QED
    BY <1>1, <2>1, <2>2, KnownRefused
<1>3. CASE b.kind = "accounts"
  <2>1. R = CreateAccounts(target, b.objects)
    BY <1>3 DEF Applied
  <2>2. Accounted(R) /\ R.transfers = target.transfers
    BY <1>1, <2>1, AccountsAccounted
  <2> QED
    BY <1>1, <1>2, <2>2
<1>4. CASE b.kind = "transfers" /\ Fit(b, p)
  <2>1. R = CreateTransfers(target, b.objects)
    BY <1>4 DEF Applied
  <2>2. Range(b.objects) \subseteq Range(PlanTransfers(p))
    BY <1>4 DEF Fit
  <2>3. \A x \in Range(b.objects) : x.amount \in Nat
    BY <2>2 DEF Fitting
  <2>4. Accounted(R) /\ Range(R.transfers) \subseteq Range(target.transfers) \cup Range(b.objects)
    BY <1>1, <2>1, <2>3, TransfersAccounted
  <2> QED
    BY <1>1, <1>2, <2>2, <2>4
<1>5. CASE Stale(b, target)
  BY <1>1, <1>2, <1>5
<1> QED
  BY <1>3, <1>4, <1>5 DEF GoodBatch

LEMMA AnsweredBound ==
  ASSUME Inv, NEW p, Fitting(p, source), Accounted(target), Settled(p), NEW c \in Calls, Answered(c)
  PROVE  /\ Accounted(target') /\ Range(target'.transfers) \subseteq Range(PlanTransfers(p))
         /\ Grown(target, target') /\ Bound(c, p)'
<1>1. PICK b : b = request[c] /\ b # None /\ GoodBatch(b) /\ target' = Applied(b)
  BY DEF Inv, JobInv, Answered
<1>2. Bound(c, p) /\ JobInv(c) /\ LedgerShape(target)
  BY DEF Settled, Inv, Shape
<1>3. Fit(b, p) \/ Stale(b, target)
  BY <1>1, <1>2 DEF Bound
<1>4. /\ Accounted(target') /\ Range(target'.transfers) \subseteq Range(PlanTransfers(p))
      /\ Grown(target, target') /\ (Stale(b, target) => target' = target)
  BY <1>1, <1>2, <1>3, BatchKeepsPlan DEF Settled
<1>5. request'[c] = None /\ job'[c].todo = job[c].todo
  BY DEF Answered
<1>6. CASE job[c].stage # "waiting"
  <2>1. Rests(c)
    BY <1>5, <1>6 DEF Answered, Rests
  <2> QED
    BY <1>2, <1>4, <2>1, RestsBound
<1>7. CASE job[c].stage = "waiting" /\ job'[c].stage = "ended"
  BY <1>4, <1>5, <1>7 DEF Bound, Early
<1>8. CASE /\ job[c].stage = "waiting" /\ job'[c].stage = "reporting"
           /\ Size(target') = Size(target) + Len(b.objects)
  <2>1. Harmless(job[c].todo, p, target) /\ b = Head(job[c].todo)
    BY <1>1, <1>2, <1>8 DEF Bound, Early, JobInv, At
  <2>2. ~Stale(b, target)
    <3> SUFFICES ASSUME Stale(b, target) PROVE FALSE
      OBVIOUS
    <3>1. target' = target /\ b.objects # <<>> /\ IsList(b.objects)
      BY <1>1, <1>4 DEF Stale, GoodBatch
    <3>2. Size(target) \in Nat
      BY <1>2, Sizes
    <3>3. Len(b.objects) \in Nat /\ Len(b.objects) # 0
      BY <3>1 DEF IsList
    <3> QED
      BY <1>8, <3>1, <3>2, <3>3
  <2>3. AllFit(job[c].todo, p)
    BY <2>1, <2>2 DEF Harmless
  <2> QED
    BY <1>4, <1>5, <1>8, <2>3 DEF Bound, Early
<1> QED
  BY <1>1, <1>6, <1>7, <1>8 DEF Answered

LEMMA SettledStep ==
  ASSUME Inv, [Next]_vars, NEW p, Fitting(p, source), Accounted(target), Settled(p)
  PROVE  Accounted(target)' /\ Settled(p)'
<1>1. /\ UNCHANGED fixed
      /\ \/ target' = target /\ \A c \in Calls : Rests(c)
         \/ \E c \in Calls : OthersRest(c) /\ CallDoes(c)
  BY StepDoes
<1>2. parts' = parts /\ \A part : Plans(part)' = Plans(part)
  BY <1>1, SamePlans
<1>3. CASE target' = target /\ \A c \in Calls : Rests(c)
  <2>1. Grown(target, target')
    BY <1>3 DEF Grown
  <2>2. \A c \in Calls : Bound(c, p)'
    BY <1>3, <2>1, RestsBound DEF Settled
  <2>3. (\A part \in parts : \A q \in Plans(part) : Harmless(Batches(q), p, target))'
    BY <1>2, <1>3 DEF Settled
  <2> QED
    BY <1>3, <2>2, <2>3 DEF Settled
<1>4. ASSUME NEW c \in Calls, OthersRest(c), CallDoes(c)
      PROVE  Accounted(target)' /\ Settled(p)'
  <2>1. Bound(c, p) /\ JobInv(c) /\ Range(target.transfers) \subseteq Range(PlanTransfers(p))
    BY DEF Settled, Inv
  <2>2. CASE Answered(c)
    <3>1. /\ Accounted(target') /\ Range(target'.transfers) \subseteq Range(PlanTransfers(p))
          /\ Grown(target, target') /\ Bound(c, p)'
      BY <2>2, AnsweredBound
    <3> QED
      BY <1>1, <1>4, <3>1, SettledStays
  <2>3. CASE ~Answered(c)
    <3>1. target' = target /\ (Rests(c) \/ Begins(c) \/ Submits(c) \/ Reports(c))
      BY <1>4, <2>3 DEF CallDoes
    <3>2. Grown(target, target')
      BY <3>1 DEF Grown
    <3>3. CASE Rests(c)
      <4>1. Bound(c, p)'
        BY <2>1, <3>2, <3>3, RestsBound
      <4> QED
        BY <1>1, <1>4, <2>1, <3>1, <3>2, <4>1, SettledStays
    <3>4. CASE Begins(c)
      <4>1. Harmless(job'[c].todo, p, target)
        BY <3>4 DEF Begins, Settled
      <4>2. Bound(c, p)'
        BY <2>1, <3>1, <3>4, <4>1 DEF Begins, Bound, Early
      <4> QED
        BY <1>1, <1>4, <2>1, <3>1, <3>2, <4>2, SettledStays
    <3>5. CASE Submits(c)
      <4>1. Harmless(job[c].todo, p, target) /\ job[c].todo # <<>> /\ IsList(job[c].todo)
        BY <2>1, <3>5 DEF Submits, Bound, Early, JobInv
      <4>2. Head(job[c].todo) \in Range(job[c].todo)
        BY <4>1, FirstAndRest
      <4>3. Fit(Head(job[c].todo), p) \/ Stale(Head(job[c].todo), target)
        BY <4>1, <4>2 DEF Harmless, AllFit
      <4>4. Bound(c, p)'
        BY <3>1, <3>5, <4>1, <4>3 DEF Submits, Bound, Early
      <4> QED
        BY <1>1, <1>4, <2>1, <3>1, <3>2, <4>4, SettledStays
    <3>6. CASE Reports(c)
      <4>1. AllFit(job[c].todo, p) /\ IsList(job[c].todo) /\ job[c].todo # <<>>
        BY <2>1, <3>6 DEF Reports, Bound, JobInv
      <4>2. Range(Tail(job[c].todo)) \subseteq Range(job[c].todo)
        BY <4>1, FirstAndRest
      <4>3. Harmless(Tail(job[c].todo), p, target)
        BY <4>1, <4>2 DEF Harmless, AllFit
      <4>4. Bound(c, p)'
        BY <2>1, <3>1, <3>6, <4>3 DEF Reports, Bound, Early
      <4> QED
        BY <1>1, <1>4, <2>1, <3>1, <3>2, <4>4, SettledStays
    <3> QED
      BY <3>1, <3>3, <3>4, <3>5, <3>6
  <2> QED
    BY <2>2, <2>3
<1> QED
  BY <1>1, <1>3, <1>4

-----------------------------------------------------------------------------
(***************************************************************************)
(* The first plan keeps the others out (Exclusive, Fresh).                 *)
(***************************************************************************)

\* The first batch of a plan brings transfers, all of which T takes.
FirstTaken(q, T) ==
  /\ Batches(q) # <<>> /\ Head(Batches(q)).kind = "transfers" /\ Head(Batches(q)).objects # <<>>
  /\ Size(CreateTransfers(T, Head(Batches(q)).objects)) = Size(T) + Len(Head(Batches(q)).objects)
SameFirst(q, r) == IdsIn(Head(Batches(q))) = IdsIn(Head(Batches(r)))

\* Transfers alone are imported, and whichever plan comes first keeps the others
\* out.
Exclusive ==
  /\ parts = {"transfers"} /\ Accounted(Prepared) /\ Prepared.transfers = <<>>
  /\ \A q \in Plans("transfers") : Fitting(q, source) /\ FirstTaken(q, Prepared)
  /\ \A q \in Plans("transfers") : \A r \in Plans("transfers") : SameFirst(q, r)

\* No batch has reached the target yet.
Untried(c) ==
  /\ job[c].stage # "reporting"
  /\ job[c].stage \in Early => \E q \in Plans("transfers") : job[c].todo = Batches(q)
  /\ request[c] # None => \E q \in Plans("transfers") : Batches(q) # <<>> /\ request[c] = Head(Batches(q))
Fresh == target = Prepared /\ \A c \in Calls : Untried(c)

LEMMA SamePrepared ==
  ASSUME UNCHANGED fixed
  PROVE  Prepared' = Prepared /\ (Exclusive => Exclusive')
<1>1. source' = source /\ cutoff' = cutoff /\ parts' = parts /\ Plans("transfers")' = Plans("transfers")
  BY SamePlans
<1>2. Prepared' = Prepared
  BY <1>1 DEF Prepared
<1> QED
  BY <1>1, <1>2 DEF Exclusive

LEMMA RestsUntried ==
  ASSUME UNCHANGED fixed, NEW c, Rests(c) \/ (job'[c] = job[c] /\ request'[c] = request[c]), Untried(c)
  PROVE  Untried(c)'
<1>1. Plans("transfers")' = Plans("transfers")
  BY SamePlans
<1>2. /\ request'[c] = request[c] \/ request'[c] = None
      /\ job'[c].todo = job[c].todo
      /\ job'[c].stage \in Early => job[c].stage \in Early
      /\ job'[c].stage = "reporting" => job[c].stage = "reporting"
  BY DEF Rests
<1> QED
  BY <1>1, <1>2 DEF Untried

\* The first batch that the target takes.
LEMMA FirstSettles ==
  ASSUME Inv, Exclusive, Fresh, NEW q \in Plans("transfers"), NEW b, b = Head(Batches(q)), target' = Applied(b)
  PROVE  /\ Accounted(target') /\ Range(target'.transfers) \subseteq Range(PlanTransfers(q))
         /\ AllFit(Batches(q), q)
         /\ \A r \in Plans("transfers") : Batches(r) # <<>> /\ Stale(Head(Batches(r)), target')
<1>1. /\ "transfers" \in parts /\ Shape /\ target = Prepared /\ target.transfers = <<>> /\ Accounted(target)
      /\ Fitting(q, source) /\ FirstTaken(q, target)
  BY DEF Exclusive, Fresh, Inv
<1>2. PlanLists(q) /\ IsList(Batches(q)) /\ Batches(q) # <<>>
  BY <1>1, PlansAreLists, BatchesCover DEF FirstTaken
<1>3. AllFit(Batches(q), q)
  BY <1>2, BatchesFit DEF AllFit
<1>4. b \in Range(Batches(q)) /\ GoodBatch(b) /\ b.kind = "transfers" /\ Fit(b, q)
  <2>1. b \in Range(Batches(q))
    BY <1>2, FirstAndRest
  <2> QED
    BY <1>1, <1>2, <1>3, <2>1, BatchesCover DEF AllFit, FirstTaken
<1>5. PICK s, R : s = b.objects /\ R = target' /\ R = CreateTransfers(target, s)
  BY <1>4 DEF Applied
<1>6. Range(s) \subseteq Range(PlanTransfers(q)) /\ IsList(s) /\ \A x \in Range(s) : x.amount \in Nat
  BY <1>1, <1>4, <1>5 DEF Fit, GoodBatch, Fitting
<1>7. Accounted(R) /\ Range(R.transfers) \subseteq Range(PlanTransfers(q))
  <2>1. Accounted(R) /\ Range(R.transfers) \subseteq Range(target.transfers) \cup Range(s)
    BY <1>1, <1>5, <1>6, TransfersAccounted
  <2> QED
    BY <1>1, <1>6, <2>1, NoList
<1>8. IdsIn(b) \subseteq TransferIds(R)
  <2>1. Size(R) = Size(target) + Len(b.objects)
    BY <1>1, <1>5 DEF FirstTaken
  <2>2. Taken(b, R)
    BY <1>1, <1>4, <1>5, <2>1, BatchApplied DEF Shape
  <2> QED
    BY <1>4, <2>2 DEF Taken, IdsIn, TransferIds
<1>9. ASSUME NEW r \in Plans("transfers") PROVE Batches(r) # <<>> /\ Stale(Head(Batches(r)), R)
  <2>1. FirstTaken(r, Prepared) /\ SameFirst(q, r)
    BY DEF Exclusive
  <2> QED
    BY <1>8, <2>1 DEF FirstTaken, SameFirst, Stale
<1> QED
  BY <1>3, <1>5, <1>7, <1>9

LEMMA FreshStep ==
  ASSUME Inv, [Next]_vars, Exclusive, Fresh
  PROVE  \/ Fresh'
         \/ Accounted(target)' /\ \E p : Fitting(p, source) /\ Settled(p)'
<1>1. /\ UNCHANGED fixed
      /\ \/ target' = target /\ \A c \in Calls : Rests(c)
         \/ \E c \in Calls : OthersRest(c) /\ CallDoes(c)
  BY StepDoes
<1>2. parts' = parts /\ parts = {"transfers"} /\ Plans("transfers")' = Plans("transfers") /\ Prepared' = Prepared
  BY <1>1, SamePlans, SamePrepared DEF Exclusive
<1>3. CASE target' = target /\ \A c \in Calls : Rests(c)
  BY <1>1, <1>2, <1>3, RestsUntried DEF Fresh
<1>4. ASSUME NEW c \in Calls, OthersRest(c), target' = target, Untried(c)'
      PROVE  Fresh'
  <2>1. ASSUME NEW e \in Calls, e # c PROVE Untried(e)'
    <3>1. job'[e] = job[e] /\ request'[e] = request[e] /\ Untried(e)
      BY <1>4, <2>1 DEF OthersRest, Fresh
    <3> QED
      BY <1>1, <3>1, RestsUntried
  <2> QED
    BY <1>2, <1>4, <2>1 DEF Fresh
<1>5. ASSUME NEW c \in Calls, OthersRest(c), CallDoes(c), ~Answered(c)
      PROVE  Fresh'
  <2>1. target' = target /\ (Rests(c) \/ Begins(c) \/ Submits(c) \/ Reports(c)) /\ Untried(c) /\ JobInv(c)
    BY <1>5 DEF CallDoes, Fresh, Inv
  <2>2. CASE Rests(c)
    BY <1>1, <1>4, <1>5, <2>1, <2>2, RestsUntried
  <2>3. CASE Begins(c)
    <3>1. \E q \in Plans("transfers") : job'[c].todo = Batches(q)
      BY <1>2, <2>3 DEF Begins
    <3>2. job'[c].stage # "reporting" /\ request'[c] = request[c]
      BY <2>3 DEF Begins
    <3>3. Untried(c)'
      BY <1>2, <2>1, <3>1, <3>2 DEF Untried
    <3> QED
      BY <1>4, <1>5, <2>1, <3>3
  <2>4. CASE Submits(c)
    <3>1. job[c].todo # <<>> /\ \E q \in Plans("transfers") : job[c].todo = Batches(q)
      BY <2>1, <2>4 DEF Submits, Untried, Early
    <3>2. job'[c].stage = "waiting" /\ job'[c].todo = job[c].todo /\ request'[c] = Head(job[c].todo)
      BY <2>4 DEF Submits
    <3>3. Untried(c)'
      BY <1>2, <3>1, <3>2 DEF Untried
    <3> QED
      BY <1>4, <1>5, <2>1, <3>3
  <2>5. CASE Reports(c)
    BY <2>1, <2>5 DEF Reports, Untried
  <2> QED
    BY <2>1, <2>2, <2>3, <2>4, <2>5
<1>6. ASSUME NEW c \in Calls, OthersRest(c), Answered(c)
      PROVE  Accounted(target)' /\ \E p : Fitting(p, source) /\ Settled(p)'
  <2>1. PICK b : b = request[c] /\ b # None /\ target' = Applied(b) /\ request'[c] = None /\ job'[c].todo = job[c].todo
    BY <1>6 DEF Answered
  <2>2. Untried(c) /\ JobInv(c)
    BY DEF Fresh, Inv
  <2>3. PICK q \in Plans("transfers") : b = Head(Batches(q)) /\ (job[c].stage = "waiting" => job[c].todo = Batches(q))
    <3>1. CASE job[c].stage = "waiting"
      <4>1. PICK q \in Plans("transfers") : job[c].todo = Batches(q)
        BY <2>2, <3>1 DEF Untried, Early
      <4>2. b = Head(job[c].todo)
        BY <2>1, <2>2, <3>1 DEF JobInv, At
      <4> QED
        BY <4>1, <4>2
    <3>2. CASE job[c].stage # "waiting"
      BY <2>1, <2>2, <3>2 DEF Untried
    <3> QED
      BY <3>1, <3>2
  <2>4. /\ Accounted(target') /\ Range(target'.transfers) \subseteq Range(PlanTransfers(q))
        /\ AllFit(Batches(q), q)
        /\ \A r \in Plans("transfers") : Batches(r) # <<>> /\ Stale(Head(Batches(r)), target')
    BY <2>1, <2>3, FirstSettles
  <2>5. \A r \in Plans("transfers") : Harmless(Batches(r), q, target')
    BY <2>4 DEF Harmless
  <2>6. ASSUME NEW e \in Calls, job'[e].todo = job[e].todo, job'[e].stage = job[e].stage,
               request'[e] = request[e] \/ request'[e] = None
        PROVE  Bound(e, q)'
    <3>1. Untried(e)
      BY DEF Fresh
    <3>2. request'[e] # None => Stale(request'[e], target')
      BY <2>4, <2>6, <3>1 DEF Untried
    <3>3. job'[e].stage \in Early => Harmless(job'[e].todo, q, target')
      BY <2>5, <2>6, <3>1 DEF Untried
    <3> QED
      BY <2>6, <3>1, <3>2, <3>3 DEF Bound, Untried
  <2>7. Bound(c, q)'
    <3>1. CASE job[c].stage # "waiting"
      <4>1. job'[c].stage = job[c].stage
        BY <1>6, <3>1 DEF Answered
      <4> QED
        BY <2>1, <2>6, <4>1
    <3>2. CASE job[c].stage = "waiting"
      <4>1. job'[c].stage = "reporting" \/ job'[c].stage = "ended"
        BY <1>6, <3>2 DEF Answered
      <4>2. AllFit(job'[c].todo, q)
        BY <2>1, <2>3, <2>4, <3>2
      <4> QED
        BY <2>1, <4>1, <4>2 DEF Bound, Early
    <3> QED
      BY <3>1, <3>2
  <2>8. ASSUME NEW e \in Calls PROVE Bound(e, q)'
    <3>1. CASE e # c
      BY <1>6, <2>6, <3>1 DEF OthersRest
    <3>2. CASE e = c
      BY <2>7, <3>2
    <3> QED
      BY <3>1, <3>2
  <2>9. (\A part \in parts : \A r \in Plans(part) : Harmless(Batches(r), q, target))'
    BY <1>2, <2>5
  <2>10. Settled(q)'
    BY <2>4, <2>8, <2>9 DEF Settled
  <2>11. Fitting(q, source)
    BY DEF Exclusive
  <2> QED
    BY <2>4, <2>10, <2>11
<1> QED
  BY <1>1, <1>3, <1>5, <1>6

\* Accounts that nothing has moved.
LEMMA UnmovedBounds ==
  ASSUME NEW L, NEW now, IsSource(L, now), NEW T, Accounted(T), T.transfers = <<>>
  PROVE  NoMore(T, L)
<1>1. PICK p, W : p = [synthetic |-> <<>>, windowed |-> <<>>] /\ W = PlanTransfers(p)
  OBVIOUS
<1>2. p.synthetic = <<>> /\ p.windowed = <<>> /\ W = <<>> /\ IsList(<<>>) /\ Range(<<>>) = {} /\ Len(<<>>) = 0
  BY <1>1, NoList DEF PlanTransfers
<1>3. ASSUME NEW side, NEW id PROVE Posted(W, side, id, Len(W)) <= Posted(L.transfers, side, id, Len(L.transfers))
  <2>1. PICK s, n : s = L.transfers /\ n = Len(s) /\ IsHistory(s)
    BY DEF IsSource
  <2>2. n \in Nat /\ \A k \in 0..n : Posted(s, side, id, k) \in Nat
    BY <2>1, PostedNumbers
  <2>3. Posted(s, side, id, n) \in Nat
    <3>1. n \in 0..n
      BY <2>2
    <3> QED
      BY <2>2, <3>1
  <2>4. Posted(W, side, id, Len(W)) = 0
    <3>1. PICK f : f = Postings(W, side, id)
      OBVIOUS
    <3>2. 0 \in Nat /\ Numbers(f, 0)
      BY DEF Numbers
    <3>3. SumTo(f, 0) = 0
      BY <3>2, SumSteps
    <3> QED
      BY <1>2, <3>1, <3>3 DEF Posted
  <2> QED
    BY <2>1, <2>3, <2>4
<1>4. Fitting(p, L)
  BY <1>1, <1>2, <1>3 DEF Fitting, PostsNoMore
<1>5. Range(T.transfers) \subseteq Range(PlanTransfers(p))
  BY <1>2
<1> QED
  BY <1>4, <1>5, FittingBounds

\* The first batch of transfers that have their places as ids.
LEMMA FirstIds ==
  ASSUME NEW Q, IsList(Q), NEW m \in Nat \ {0}, m = Len(Q), \A i \in 1..m : Q[i].id = i,
         NEW b, IsFirst(b, "transfers", Q, m)
  PROVE  \E e \in 1..m : /\ e = Min({BatchSize, m}) /\ IdsIn(b) = 1..e
                         /\ b.kind = "transfers" /\ IsPiece(b.objects, Q, 0, e)
<1>1. PICK e \in 1..m : e = Min({BatchSize, m}) /\ b = [kind |-> "transfers", objects |-> SubSeq(Q, 1, e)]
  BY DEF IsFirst
<1>2. PICK o : o = SubSeq(Q, 1, e) /\ o = b.objects /\ b.kind = "transfers"
  BY <1>1
<1>3. IsList(o) /\ Len(o) = e /\ \A i \in 1..e : o[i] = Q[i]
  <2>1. IsList(o)
    BY <1>2, Piece
  <2>2. Len(o) = e /\ \A i \in 1..e : o[i] = Q[i]
    BY <1>2 DEF IsList
  <2> QED
    BY <2>1, <2>2
<1>4. IsPiece(o, Q, 0, e)
  BY <1>3 DEF IsPiece
<1>5. \A i \in 1..e : o[i].id = i
  BY <1>3
<1>6. \A x : x \in Range(o) <=> \E i \in 1..e : x = o[i]
  BY <1>3, ListParts
<1>7. IdsIn(b) = 1..e
  <2>1. IdsIn(b) = {x.id : x \in Range(o)}
    BY <1>2 DEF IdsIn
  <2>2. ASSUME NEW i \in 1..e PROVE i \in IdsIn(b)
    <3>1. o[i] \in Range(o) /\ o[i].id = i
      BY <1>5, <1>6
    <3> QED
      BY <2>1, <3>1
  <2>3. ASSUME NEW j \in IdsIn(b) PROVE j \in 1..e
    <3>1. PICK x \in Range(o) : j = x.id
      BY <2>1
    <3> QED
      BY <1>5, <1>6, <3>1
  <2> QED
    BY <2>2, <2>3
<1> QED
  BY <1>1, <1>2, <1>4, <1>7

\* As many as there are pairs.
LEMMA PairsNumbered ==
  ASSUME NEW P, IsList(P), NEW R, R = {PairOf(t) : t \in Range(P)}, NEW pairs \in SetToSeqs(R), NEW c,
         NEW Q, Q = Aggregated(P, pairs, c), IsList(Q)
  PROVE  Len(Q) = Cardinality(R) /\ Len(Q) \in Nat /\ \A i \in 1..Len(Q) : Q[i].id = i
<1>1. IsList(pairs) /\ IsFiniteSet(R)
  BY PairLists
<1>2. PICK n \in Nat : n = Cardinality(R)
  BY <1>1, FS_CardinalityType
<1>3. DOMAIN pairs = 1..n
  BY <1>2 DEF SetToSeqs
<1>4. DOMAIN Q = 1..n /\ \A i \in 1..n : Q[i].id = i
  BY <1>3 DEF Aggregated, Synthetic
<1>5. Len(Q) = n
  <2>1. Len(Q) \in Nat /\ DOMAIN Q = 1..Len(Q)
    BY ListParts
  <2> QED
    BY <1>4, <2>1
<1> QED
  BY <1>2, <1>4, <1>5

\* The first of them are taken too.
LEMMA PieceTaken ==
  ASSUME NEW base, IsBase(base), Cardinality(DOMAIN base) \in Nat, NEW Q, NEW m \in Nat, NEW s, NEW k, NEW floor, Leads(Q, m, base, s, k, floor),
         NEW e \in 1..m, NEW o, IsPiece(o, Q, 0, e), NEW T, T = Start(base)
  PROVE  Size(CreateTransfers(T, o)) = Size(T) + Len(o)
<1>1. IsList(o) /\ Len(o) = e /\ e \in Nat /\ \A i \in 1..e : o[i] = Q[i] /\ i \in 1..m
  BY DEF IsPiece
<1>2. Acceptable(base, o)
  BY <1>1 DEF Acceptable, Leads
<1>3. AllThere(base, CreateTransfers(T, o), o, e)
  BY <1>1, <1>2, ListTaken
<1>4. Size(T) = Cardinality(DOMAIN base) + 0
  BY AtStart
<1>5. Size(CreateTransfers(T, o)) = Cardinality(DOMAIN base) + e
  BY <1>3 DEF AllThere
<1>6. PICK z \in Nat : z = Cardinality(DOMAIN base)
  OBVIOUS
<1> QED
  BY <1>1, <1>4, <1>5, <1>6

\* How a CSV file of the source's transfers is planned.
LEMMA SourceSplits ==
  ASSUME NEW now, NEW L, L = source, IsSource(L, now), NEW s, s = L.transfers, IsBounded(s), NEW n \in Nat, n = Len(s),
         NEW c \in Nat, c = cutoff, AggregatesFit, NEW base, Reopened(base, L), DOMAIN base \subseteq DOMAIN L.accounts
  PROVE  \A plan \in FromCsv(s, c) : \E k, v, m, floor, Q, D : SplitsAt(plan, base, s, n, k, v, m, floor, Q, D)
<1>1. IsList(s) /\ InTime(s) /\ Tallied(L.accounts, s) /\ \A i \in 1..n : Opposite(L.accounts, s[i])
  BY DEF IsSource, IsHistory, Timely
<1>2. n <= MaxTransfers /\ \A i \in 1..n : IsTransfer(s[i])
  BY DEF IsBounded
<1>3. Rounded(s, s, n)
  <2>1. ASSUME NEW i \in 1..n PROVE Repeats(s[i], s[i])
    <3>1. s[i].ts \in Nat
      BY <1>1 DEF InTime
    <3>2. AtTime(s[i], s[i])
      BY <1>2 DEF AtTime
    <3> QED
      BY <3>1, <3>2 DEF Repeats
  <2>2. Ordered(s)
    BY <1>1 DEF InTime, Ordered
  <2> QED
    BY <1>1, <2>1, <2>2 DEF Rounded
<1>4. ASSUME NEW id \in DOMAIN L.accounts PROVE LimitOf[id] = "none"
  <2>1. PICK l, m, ts, d, x, h, g : L.accounts[id] = Account(id, l, m, ts, d, x, h, g) /\ m = LimitOf[id]
    BY <1>1 DEF Tallied
  <2>2. L.accounts[id].limit = LimitOf[id]
    BY <2>1, AccountHas
  <2>3. L.accounts[id] \in AccountsOf(L)
    BY DEF AccountsOf, Range
  <2> QED
    BY <2>2, <2>3 DEF AggregatesFit
<1>5. PlainBefore(s, s, n, c)
  <2>1. ASSUME NEW k \in 0..n, \A i \in 1..n : s[i].ts < c <=> i <= k, NEW i \in 1..k
        PROVE  /\ s[i].kind = "single" /\ IsTransfer(s[i])
               /\ LimitOf[s[i].debit] = "none" /\ LimitOf[s[i].credit] = "none"
    <3>1. i \in 1..n /\ s[i].ts < c
      BY <2>1
    <3>2. s[i] \in Range(s)
      BY <1>1, <3>1, ListParts
    <3>3. s[i].kind = "single"
      BY <3>1, <3>2 DEF AggregatesFit
    <3> QED
      BY <1>1, <1>2, <1>4, <3>1, <3>3 DEF Opposite
  <2>2. \A k \in 0..n : k <= Len(s)
    OBVIOUS
  <2> QED
    BY <2>1, <2>2 DEF PlainBefore, Plain
<1>6. RowsFit(base, s, c, n)
  <2>1. ASSUME c # 0, NEW id \in DOMAIN base PROVE base[id].ts < c - n
    <3>1. After(c - n, AccountTs(L))
      BY <2>1 DEF AggregatesFit
    <3>2. id \in DOMAIN L.accounts /\ base[id].ts = L.accounts[id].ts
      BY DEF Reopened
    <3>3. L.accounts[id].ts \in AccountTs(L)
      BY <3>2 DEF AccountTs, Timestamps, Range
    <3> QED
      BY <3>1, <3>2, <3>3 DEF After
  <2>2. AllPostdate(base, s, n)
    BY SourcePostdates DEF AllPostdate
  <2> QED
    BY <2>1, <2>2 DEF HasRoom, RowsFit
<1> QED
  BY <1>2, <1>3, <1>5, <1>6, CsvSplit

\* Without transfers to aggregate there is one plan.
LEMMA OnePlan ==
  ASSUME NEW s, IsList(s), NEW c, c = 0 \/ {PairOf(t) : t \in Range(Until(s, c))} = {}
  PROVE  \A p \in FromCsv(s, c) : \A q \in FromCsv(s, c) : p = q
<1>1. CASE c = 0
  BY <1>1 DEF FromCsv
<1>2. CASE c # 0
  <2>1. PICK pre, D : pre = Until(s, c) /\ D = DedupeTimestamps(SortedByTimestamp(Since(s, c)), Minus(c, 1))
    OBVIOUS
  <2>2. IsList(pre) /\ {PairOf(t) : t \in Range(pre)} = {}
    BY <1>2, <2>1, SplitLists
  <2>3. ASSUME NEW p \in FromCsv(s, c) PROVE p = CsvPlan(Aggregated(pre, <<>>, c), D)
    <3>1. PICK pairs \in SetToSeqs({PairOf(t) : t \in Range(pre)}) : p = CsvPlan(Aggregated(pre, pairs, c), D)
      BY <1>2, <2>1, CsvParts
    <3>2. IsList(pairs)
      BY <2>2, <3>1, PairLists
    <3>3. DOMAIN pairs = {}
      <4>1. Cardinality({}) = 0 /\ 1..0 = {}
        BY FS_EmptySet
      <4> QED
        BY <2>2, <3>1, <4>1 DEF SetToSeqs
    <3>4. pairs = <<>>
      BY <3>2, <3>3 DEF IsList
    <3> QED
      BY <3>1, <3>4
  <2> QED
    BY <2>3
<1> QED
  BY <1>1, <1>2

\* Otherwise every plan starts with aggregated transfers.
LEMMA ManyPlans ==
  ASSUME NEW base, IsBase(base), Cardinality(DOMAIN base) \in Nat, NEW s, IsList(s), NEW c, c # 0, NEW R,
         R = {PairOf(t) : t \in Range(Until(s, c))}, R # {}, NEW plan \in FromCsv(s, c), NEW n, NEW k, NEW v, NEW w,
         NEW floor, NEW X, NEW Y, SplitsAt(plan, base, s, n, k, v, w, floor, X, Y), NEW T, T = Start(base)
  PROVE  FirstTaken(plan, T) /\ IdsIn(Head(Batches(plan))) = 1..Min({BatchSize, Cardinality(R)})
<1>1. PICK pre : pre = Until(s, c) /\ IsList(pre)
  BY SplitLists
<1>2. PICK pairs \in SetToSeqs(R) :
         plan = CsvPlan(Aggregated(pre, pairs, c), DedupeTimestamps(SortedByTimestamp(Since(s, c)), Minus(c, 1)))
  BY <1>1, CsvParts
<1>3. PICK Q, D, m : Q = X /\ D = Y /\ m = w /\ Q = Aggregated(pre, pairs, c) /\ plan = CsvPlan(Q, D)
  <2>1. plan.synthetic = Aggregated(pre, pairs, c)
    BY <1>2 DEF CsvPlan
  <2>2. plan = CsvPlan(X, Y)
    BY DEF SplitsAt
  <2>3. plan.synthetic = X
    BY <2>2 DEF CsvPlan
  <2> QED
    BY <2>1, <2>2, <2>3
<1>4. Leads(Q, m, base, s, k, floor) /\ IsList(Q) /\ Len(Q) = m /\ m \in Nat /\ IsList(D)
  <2>1. Leads(Q, m, base, s, k, floor) /\ m \in Nat /\ CopyFrom(D, s, k, v)
    BY <1>3 DEF SplitsAt
  <2>2. IsList(Q) /\ Len(Q) = m
    BY <2>1 DEF Leads
  <2>3. IsList(D)
    BY <2>1 DEF CopyFrom
  <2> QED
    BY <2>1, <2>2, <2>3
<1>5. m = Cardinality(R) /\ \A i \in 1..m : Q[i].id = i
  BY <1>1, <1>2, <1>3, <1>4, PairsNumbered
<1>6. m \in Nat \ {0}
  <2>1. IsFiniteSet(R)
    BY <1>1, <1>2, PairLists
  <2> QED
    BY <1>4, <1>5, <2>1, FS_EmptySet
<1>7. PICK q, b : q = Batches(plan) /\ b = Head(q)
  OBVIOUS
<1>8. q # <<>> /\ IsFirst(b, "transfers", Q, m)
  BY <1>3, <1>4, <1>6, <1>7, FirstBatch
<1>9. PICK e \in 1..m : /\ e = Min({BatchSize, m}) /\ IdsIn(b) = 1..e
                        /\ b.kind = "transfers" /\ IsPiece(b.objects, Q, 0, e)
  BY <1>4, <1>5, <1>6, <1>8, FirstIds
<1>10. PICK o : o = b.objects /\ IsPiece(o, Q, 0, e)
  BY <1>9
<1>11. Size(CreateTransfers(T, o)) = Size(T) + Len(o)
  BY <1>4, <1>6, <1>10, PieceTaken
<1>12. o # <<>>
  BY <1>10, NoList DEF IsPiece
<1> QED
  BY <1>5, <1>7, <1>8, <1>9, <1>10, <1>11, <1>12 DEF FirstTaken

-----------------------------------------------------------------------------
(***************************************************************************)
(* No account moves more than it did in the source.                        *)
(***************************************************************************)

Counted == parts = {"all"} \/ (parts = {"transfers"} /\ AggregatesFit)
Kept == Accounted(target) /\ ((\E p : Fitting(p, source) /\ Settled(p)) \/ (Exclusive /\ Fresh))

\* Before the first call, with one plan.
LEMMA StartsSettled ==
  ASSUME Shape, target.transfers = <<>>, \A c \in Calls : request[c] = None /\ job[c].stage = "new",
         NEW p, NEW part, parts = {part}, p \in Plans(part), \A q \in Plans(part) : q = p
  PROVE  Settled(p)
<1>1. PlanLists(p)
  BY PlansAreLists
<1>2. AllFit(Batches(p), p)
  BY <1>1, BatchesFit DEF AllFit
<1>3. \A r \in parts : \A q \in Plans(r) : Harmless(Batches(q), p, target)
  BY <1>2 DEF Harmless
<1>4. \A c \in Calls : Bound(c, p)
  BY DEF Bound, Early
<1>5. Range(target.transfers) = {}
  BY NoList
<1> QED
  BY <1>3, <1>4, <1>5 DEF Settled

LEMMA AllStarts ==
  ASSUME Init, Inv, parts = {"all"}, NEW now, IsSource(source, now)
  PROVE  Kept
<1>1. Prepared = EmptyLedger /\ target = EmptyLedger
  <2>1. parts # {"transfers"}
    OBVIOUS
  <2> QED
    BY <2>1 DEF Prepared, Init
<1>2. Accounted(target) /\ target.transfers = <<>>
  BY <1>1, AccountedNothing DEF EmptyLedger
<1>3. PICK p : p = PlanOf(source, cutoff) /\ Plans("all") = {p}
  BY DEF Plans
<1>4. Fitting(p, source)
  BY <1>3, SourceFits, SourcesAssumption DEF Init
<1>5. Settled(p)
  <2>1. \A c \in Calls : request[c] = None /\ job[c].stage = "new"
    BY DEF Init
  <2>2. Shape
    BY DEF Inv
  <2> QED
    BY <1>2, <1>3, <2>1, <2>2, StartsSettled
<1> QED
  BY <1>2, <1>4, <1>5 DEF Kept

\* Transfers alone, onto accounts that are all there.
Alone(base) ==
  /\ IsBase(base) /\ Cardinality(DOMAIN base) \in Nat /\ Prepared = Start(base)
  /\ DOMAIN source.accounts \subseteq DOMAIN base
  /\ Plans("transfers") = FromCsv(source.transfers, cutoff)
  /\ \A q \in Plans("transfers") :
        /\ Fitting(q, source) /\ Restoring(q, source)
        /\ \E n, k, v, m, floor, Q, D : SplitsAt(q, base, source.transfers, n, k, v, m, floor, Q, D)

LEMMA TransfersAlone ==
  ASSUME Shape, parts = {"transfers"}, AggregatesFit, NEW now, IsSource(source, now), IsBounded(source.transfers)
  PROVE  \E base : Alone(base)
<1>1. PICK L, s, n, c, e : /\ L = source /\ s = L.transfers /\ n = Len(s) /\ c = cutoff
                           /\ e = AccountsOnly(PlanOf(L, c)).regular
  OBVIOUS
<1>2. c \in Nat
  BY <1>1, SourcesAssumption DEF Shape
<1>3. IsSource(L, now) /\ IsHistory(s) /\ IsList(s) /\ n \in Nat
  <2>1. IsHistory(s)
    BY <1>1 DEF IsSource
  <2> QED
    BY <1>1, <2>1, ListParts DEF IsHistory
<1>4. PICK base : OpenedAlone(base, L, e)
  BY <1>1, <1>2, <1>3, AccountsOpened
<1>5. /\ IsBase(base) /\ Reopened(base, L) /\ DOMAIN base \subseteq DOMAIN L.accounts
      /\ DOMAIN L.accounts \subseteq DOMAIN base /\ Cardinality(DOMAIN base) \in Nat
  BY <1>4 DEF OpenedAlone, Reopened
<1>6. Prepared = Start(base)
  <2>1. Prepared = CreateAccounts(EmptyLedger, e)
    BY <1>1 DEF Prepared
  <2> QED
    BY <1>4, <2>1 DEF OpenedAlone
<1>7. Plans("transfers") = FromCsv(s, c)
  BY <1>1 DEF Plans
<1>8. \A q \in FromCsv(s, c) : \E k, v, m, floor, Q, D : SplitsAt(q, base, s, n, k, v, m, floor, Q, D)
  BY <1>1, <1>2, <1>3, <1>5, SourceSplits
<1>9. ASSUME NEW q \in FromCsv(s, c)
      PROVE  /\ Fitting(q, L) /\ Restoring(q, L)
             /\ \E x, k, v, m, floor, Q, D : SplitsAt(q, base, s, x, k, v, m, floor, Q, D)
  <2>1. PICK k, v, m, floor, Q, D : SplitsAt(q, base, s, n, k, v, m, floor, Q, D)
    BY <1>8
  <2>2. Fitting(q, L) /\ Restoring(q, L)
    BY <1>1, <1>3, <1>5, <2>1, CsvFits
  <2> QED
    BY <2>1, <2>2
<1>10. Alone(base)
  BY <1>1, <1>5, <1>6, <1>7, <1>9 DEF Alone
<1> QED
  BY <1>10

LEMMA TransfersStart ==
  ASSUME Init, Inv, parts = {"transfers"}, AggregatesFit, NEW now, IsSource(source, now), IsBounded(source.transfers)
  PROVE  Kept
<1>1. PICK s, c : s = source.transfers /\ c = cutoff
  OBVIOUS
<1>2. IsList(s)
  BY <1>1 DEF IsSource, IsHistory
<1>3. Shape
  BY DEF Inv
<1>4. PICK base : Alone(base)
  BY <1>3, TransfersAlone
<1>5. IsBase(base) /\ Cardinality(DOMAIN base) \in Nat /\ Plans("transfers") = FromCsv(s, c)
  BY <1>1, <1>4 DEF Alone
<1>6. PICK T : T = Start(base) /\ Prepared = T /\ target = T
  BY <1>4 DEF Alone, Init
<1>7. Accounted(T) /\ T.transfers = <<>>
  BY <1>5, <1>6, StartAccounted
<1>8. \A q \in FromCsv(s, c) : \E n, k, v, m, floor, Q, D : SplitsAt(q, base, s, n, k, v, m, floor, Q, D)
  BY <1>1, <1>4 DEF Alone
<1>9. \A q \in FromCsv(s, c) : Fitting(q, source)
  BY <1>1, <1>4 DEF Alone
<1>10. CASE \E p \in FromCsv(s, c) : \A q \in FromCsv(s, c) : q = p
  <2>1. PICK p \in FromCsv(s, c) : \A q \in FromCsv(s, c) : q = p
    BY <1>10
  <2>2. \A d \in Calls : request[d] = None /\ job[d].stage = "new"
    BY DEF Init
  <2>3. Shape /\ target.transfers = <<>>
    BY <1>3, <1>6, <1>7
  <2>4. Settled(p)
    BY <1>5, <2>1, <2>2, <2>3, StartsSettled
  <2>5. Fitting(p, source)
    BY <1>9
  <2> QED
    BY <1>6, <1>7, <2>4, <2>5 DEF Kept
<1>11. CASE ~\E p \in FromCsv(s, c) : \A q \in FromCsv(s, c) : q = p
  <2>1. PICK R : R = {PairOf(t) : t \in Range(Until(s, c))}
    OBVIOUS
  <2>2. ASSUME NEW q \in FromCsv(s, c)
        PROVE  FirstTaken(q, T) /\ IdsIn(Head(Batches(q))) = 1..Min({BatchSize, Cardinality(R)})
    <3>1. c # 0 /\ R # {}
      BY <1>2, <1>11, <2>1, <2>2, OnePlan
    <3>2. PICK n, k, v, m, floor, Q, D : SplitsAt(q, base, s, n, k, v, m, floor, Q, D)
      BY <1>8
    <3> QED
      BY <1>2, <1>5, <1>6, <2>1, <3>1, <3>2, ManyPlans
  <2>3. Exclusive
    BY <1>5, <1>6, <1>7, <1>9, <2>2 DEF Exclusive, SameFirst
  <2>4. Fresh
    BY <1>6 DEF Fresh, Untried, Init, Early
  <2> QED
    BY <1>6, <1>7, <2>3, <2>4 DEF Kept
<1> QED
  BY <1>10, <1>11

LEMMA KeptStep ==
  ASSUME Inv, [Next]_vars, Kept
  PROVE  Kept'
<1>1. UNCHANGED fixed
  BY StepDoes
<1>2. source' = source
  BY <1>1, SamePlans
<1>3. ASSUME NEW p, Fitting(p, source), Settled(p) PROVE Kept'
  <2>1. Accounted(target)' /\ Settled(p)'
    BY <1>3, SettledStep DEF Kept
  <2> QED
    BY <1>2, <1>3, <2>1 DEF Kept
<1>4. CASE Exclusive /\ Fresh
  <2>1. Exclusive'
    BY <1>1, <1>4, SamePrepared
  <2>2. CASE Fresh'
    <3>1. Accounted(target)'
      BY <2>1, <2>2 DEF Exclusive, Fresh
    <3> QED
      BY <2>1, <2>2, <3>1 DEF Kept
  <2>3. CASE Accounted(target)' /\ \E p : Fitting(p, source) /\ Settled(p)'
    BY <1>2, <2>3 DEF Kept
  <2> QED
    BY <1>4, <2>2, <2>3, FreshStep
<1> QED
  BY <1>3, <1>4 DEF Kept

LEMMA KeptBounds ==
  ASSUME Kept, NEW now, IsSource(source, now)
  PROVE  NoMore(target, source)
<1>1. Accounted(target)
  BY DEF Kept
<1>2. CASE \E p : Fitting(p, source) /\ Settled(p)
  <2>1. PICK p : Fitting(p, source) /\ Settled(p)
    BY <1>2
  <2> QED
    BY <1>1, <2>1, FittingBounds DEF Settled
<1>3. CASE Exclusive /\ Fresh
  <2>1. target.transfers = <<>>
    BY <1>3 DEF Exclusive, Fresh
  <2> QED
    BY <1>1, <2>1, UnmovedBounds
<1> QED
  BY <1>2, <1>3 DEF Kept

\* Sources are what a cluster can have.
GoodSources == \A L \in Sources : IsBounded(L.transfers) /\ \E now : IsSource(L, now)

LEMMA AlwaysKept == GoodSources => (Spec => [](Counted => Kept))
<1> SUFFICES ASSUME GoodSources PROVE Spec => [](Counted => Kept)
  OBVIOUS
<1>1. Init /\ Inv => (Counted => Kept)
  <2> SUFFICES ASSUME Init, Inv, Counted PROVE Kept
    OBVIOUS
  <2>1. PICK now : IsBounded(source.transfers) /\ IsSource(source, now)
    BY DEF Init, GoodSources
  <2> QED
    BY <2>1, AllStarts, TransfersStart DEF Counted
<1>2. Inv /\ (Counted => Kept) /\ [Next]_vars => (Counted => Kept)'
  <2> SUFFICES ASSUME Inv, Counted => Kept, [Next]_vars PROVE Counted' => Kept'
    OBVIOUS
  <2>1. Counted' = Counted
    <3>1. UNCHANGED fixed
      BY StepDoes
    <3> QED
      BY <3>1 DEF fixed, Counted, AggregatesFit
  <2> QED
    BY <2>1, KeptStep
<1> QED
  BY <1>1, <1>2, Always, PTL DEF Spec

\* Whatever overlaps, dies, is lost or repeated, no account of the target is
\* moved by more than it was in the source (ExecuteMigration,
\* ImportCsvTransfers), if the sources are what a cluster can have: SourcesGrow.
THEOREM BalancesAreNeverExceeded ==
  ASSUME \A L \in Sources : IsBounded(L.transfers) /\ \E now : IsSource(L, now)
  PROVE  Spec => []NothingCountsTwice
<1>1. GoodSources
  BY DEF GoodSources
<1>2. Inv /\ (Counted => Kept) => NothingCountsTwice
  <2> SUFFICES ASSUME Inv, Counted, Kept PROVE NoMore(target, source)
    BY DEF NothingCountsTwice, Counted, NoMore
  <2>1. PICK now : IsSource(source, now)
    BY <1>1 DEF Inv, Shape, GoodSources
  <2> QED
    BY <2>1, KeptBounds
<1> QED
  BY <1>1, <1>2, AlwaysKept, Always, PTL

-----------------------------------------------------------------------------
(***************************************************************************)
(* A success leaves no balance out.                                        *)
(***************************************************************************)

\* The accounts that transfers are imported to stay.
AccountsStay == parts = {"transfers"} => DOMAIN Prepared.accounts \subseteq DOMAIN target.accounts

LEMMA StaysStep ==
  ASSUME Inv, [Next]_vars, AccountsStay
  PROVE  AccountsStay'
<1>1. /\ UNCHANGED fixed
      /\ \/ target' = target /\ \A c \in Calls : Rests(c)
         \/ \E c \in Calls : OthersRest(c) /\ CallDoes(c)
  BY StepDoes
<1>2. parts' = parts /\ Prepared' = Prepared
  BY <1>1, SamePlans, SamePrepared
<1>3. DOMAIN target.accounts \subseteq DOMAIN target'.accounts
  <2>1. ASSUME NEW c \in Calls, Answered(c) PROVE DOMAIN target.accounts \subseteq DOMAIN target'.accounts
    <3>1. PICK b : GoodBatch(b) /\ target' = Applied(b)
      BY <2>1 DEF Inv, JobInv, Answered
    <3>2. Grown(target, target')
      BY <3>1, BatchApplied DEF Inv, Shape
    <3> QED
      BY <3>2 DEF Grown
  <2> QED
    BY <1>1, <2>1 DEF CallDoes
<1> QED
  BY <1>2, <1>3 DEF AccountsStay

\* A target with all transfers of a plan has moved what the plan moves.
LEMMA PlanIsMoved ==
  ASSUME Kept, NEW now, IsSource(source, now), NEW q, PlanLists(q), IsIn(q), Restoring(q, source),
         NEW id \in DOMAIN source.accounts, id \in DOMAIN target.accounts
  PROVE  target.accounts[id].dr = source.accounts[id].dr /\ target.accounts[id].cr = source.accounts[id].cr
<1>1. PICK L, T, s, r, W, n : /\ L = source /\ T = target /\ s = T.transfers /\ r = L.transfers
                              /\ W = PlanTransfers(q) /\ n = Len(s)
  OBVIOUS
<1>2. Accounted(T) /\ Posting(s) /\ Posting(W) /\ IsList(s) /\ n \in Nat /\ AllPost(s, n)
  <2>1. Accounted(T)
    BY <1>1 DEF Kept
  <2>2. Posting(s)
    BY <1>1, <2>1 DEF Accounted
  <2>3. Posting(W)
    BY <1>1 DEF Restoring
  <2> QED
    BY <1>1, <2>1, <2>2, <2>3, ListParts DEF Posting, AllPost
<1>3. Range(W) \subseteq Range(s)
  <2>1. Range(W) = Range(q.synthetic) \cup Range(q.windowed)
    BY <1>1, Joined DEF PlanLists, PlanTransfers
  <2> QED
    BY <1>1, <2>1 DEF IsIn
<1>4. ASSUME NEW side \in {"debit", "credit"}
      PROVE  /\ Posted(r, side, id, Len(r)) <= Posted(s, side, id, n)
             /\ Posted(r, side, id, Len(r)) \in Int /\ Posted(s, side, id, n) \in Int
  <2>1. PICK x, y, z : x = Posted(r, side, id, Len(r)) /\ y = Posted(W, side, id, Len(W)) /\ z = Posted(s, side, id, n)
    OBVIOUS
  <2>2. x <= y
    BY <1>1, <2>1 DEF Restoring, PostsAll
  <2>3. y <= z
    BY <1>1, <1>2, <1>3, <2>1, CountedOnce
  <2>4. x \in Int
    <3>1. IsHistory(r)
      BY <1>1 DEF IsSource
    <3>2. Len(r) \in Nat /\ AllPost(r, Len(r))
      BY <3>1, ListParts DEF IsHistory, AllPost, Posts
    <3> QED
      BY <2>1, <3>2, PostedInt
  <2>5. y \in Int
    <3>1. Len(W) \in Nat /\ AllPost(W, Len(W))
      BY <1>2, ListParts DEF Posting, AllPost
    <3> QED
      BY <2>1, <3>1, PostedInt
  <2>6. z \in Int
    BY <1>1, <1>2, <2>1, PostedInt
  <2> QED
    BY <2>1, <2>2, <2>3, <2>4, <2>5, <2>6
<1>5. T.accounts[id].dr = Posted(s, "debit", id, n) /\ T.accounts[id].cr = Posted(s, "credit", id, n)
  <2>1. HasPosted(T.accounts[id], id, s)
    BY <1>1, <1>2 DEF Accounted
  <2> QED
    BY <1>1, <2>1, AccountHas DEF HasPosted
<1>6. L.accounts[id].dr = Posted(r, "debit", id, Len(r)) /\ L.accounts[id].cr = Posted(r, "credit", id, Len(r))
  <2>1. PICK l, m, ts, d, c, h, g :
           /\ l = LedgerOf[id] /\ m = LimitOf[id] /\ ts = L.accounts[id].ts
           /\ d = Posted(r, "debit", id, Len(r)) /\ c = Posted(r, "credit", id, Len(r))
           /\ h = Held(r, "debit", id) /\ g = Held(r, "credit", id)
    OBVIOUS
  <2>2. L.accounts[id] = Account(id, l, m, ts, d, c, h, g)
    BY <1>1, <2>1 DEF IsSource, Tallied
  <2> QED
    BY <2>1, <2>2, AccountHas
<1>7. T.accounts[id].dr <= L.accounts[id].dr /\ T.accounts[id].cr <= L.accounts[id].cr
  BY <1>1, KeptBounds DEF NoMore
<1> QED
  BY <1>1, <1>4, <1>5, <1>6, <1>7

\* The plans move what the source has moved.
Moving ==
  \/ parts = {"all"} /\ SinglePhase(WindowOf(source, cutoff))
  \/ parts = {"transfers"} /\ AggregatesFit

LEMMA SuccessIsWhole ==
  ASSUME Inv, Kept, AccountsStay, Moving, SuccessMeansImported, NEW now, IsSource(source, now), IsBounded(source.transfers),
         NEW c \in Calls, client[c] = "ok", job[c].part # "transfers" => AccountsAreThere
  PROVE  HasBalances
<1>1. Shape /\ cutoff \in Nat
  BY SourcesAssumption DEF Inv, Shape
<1>2. PICK q \in Plans(job[c].part) : IsIn(q)
  BY DEF SuccessMeansImported
<1>3. job[c].part \in parts
  BY Successes
<1>4. PlanLists(q)
  BY <1>1, <1>2, <1>3, PlansAreLists
<1>5. Restoring(q, source) /\ DOMAIN source.accounts \subseteq DOMAIN target.accounts
  <2>1. CASE parts = {"all"} /\ SinglePhase(WindowOf(source, cutoff))
    <3>1. q = PlanOf(source, cutoff)
      BY <1>2, <1>3, <2>1 DEF Plans
    <3>2. Restoring(q, source)
      BY <1>1, <2>1, <3>1, SourceFits
    <3> QED
      BY <1>3, <2>1, <3>2 DEF AccountsAreThere
  <2>2. CASE parts = {"transfers"} /\ AggregatesFit
    <3>1. PICK base : Alone(base)
      BY <1>1, <2>2, TransfersAlone
    <3>2. Restoring(q, source)
      BY <1>2, <1>3, <2>2, <3>1 DEF Alone
    <3>3. Prepared = Start(base) /\ IsBase(base) /\ DOMAIN source.accounts \subseteq DOMAIN base
      BY <3>1 DEF Alone
    <3>4. DOMAIN Prepared.accounts = DOMAIN base
      BY <3>3, StartAccounted
    <3> QED
      BY <2>2, <3>2, <3>3, <3>4 DEF AccountsStay
  <2> QED
    BY <2>1, <2>2 DEF Moving
<1> QED
  BY <1>4, <1>2, <1>5, PlanIsMoved DEF HasBalances

\* When a call has reported success, every account has in the target the
\* balances it has in the source, whatever other calls, failures and crashes
\* did meanwhile: of a migration at once whose window has no two-phase
\* transfers, and of transfers that repeat safely (ExecuteMigration,
\* ImportCsvTransfers).  Sources are what a cluster can have: SourcesGrow.
THEOREM SuccessMeansBalancesAreThere ==
  ASSUME \A L \in Sources : IsBounded(L.transfers) /\ \E now : IsSource(L, now)
  PROVE  Spec => [](Moving => \A c \in Calls : client[c] = "ok" => HasBalances)
<1>0. GoodSources
  BY DEF GoodSources
<1>1. Init => AccountsStay
  BY DEF Init, AccountsStay
<1>2. Inv /\ AccountsStay /\ [Next]_vars => AccountsStay'
  BY StaysStep
<1>3. Inv /\ (Counted => Kept) /\ AccountsStay /\ SuccessMeansImported
      /\ (\A c \in Calls : client[c] = "ok" /\ job[c].part # "transfers" => AccountsAreThere)
      => (Moving => \A c \in Calls : client[c] = "ok" => HasBalances)
  <2> SUFFICES ASSUME Inv, Counted => Kept, AccountsStay, SuccessMeansImported, Moving,
                      NEW c \in Calls, client[c] = "ok", job[c].part # "transfers" => AccountsAreThere
               PROVE  HasBalances
    OBVIOUS
  <2>1. PICK now : IsSource(source, now) /\ IsBounded(source.transfers)
    BY <1>0 DEF Inv, Shape, GoodSources
  <2>2. Kept
    BY DEF Moving, Counted
  <2> QED
    BY <2>1, <2>2, SuccessIsWhole
<1> QED
  BY <1>0, <1>1, <1>2, <1>3, AlwaysKept, Always, SuccessMeansEverythingWasTaken, SuccessMeansAccountsAreThere, PTL DEF Spec
=============================================================================
