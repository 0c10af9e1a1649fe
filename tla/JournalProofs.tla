---------------------------- MODULE JournalProofs ----------------------------
(***************************************************************************)
(* Proofs about ModelStream and the OutputJournal below it.  JournalInv    *)
(* and InvocationSettled are inductive together (StreamCore): the journal's *)
(* promises are kept by a producer that knows at each await what it has    *)
(* already written, and the stages say what that is: whether the stream is *)
(* still open and has its batch, whether the batch is empty, whether the   *)
(* attempt is settled and the operation over.                              *)
(*                                                                         *)
(* The lemmas go upwards: the order of a set of places, the drafts that    *)
(* are new and their cost; what each call of the repository keeps          *)
(* (AppendKeeps, OpenKeeps, EndKeeps, TerminateKeeps); what a flush adds   *)
(* to the content of a stream (FlushIsNew, FlushedContent), and that       *)
(* everything else leaves it alone (ContentKept); what an error may leave  *)
(* behind (Raising); then one lemma per action.                            *)
(***************************************************************************)
EXTENDS ModelStream, FiniteSetTheorems, TLAPS

-----------------------------------------------------------------------------
(* Sequences.                                                              *)

\* How many members a set of places has up to one of them.
LEMMA Ranks ==
    ASSUME NEW S \in SUBSET (Nat \ {0}), IsFiniteSet(S)
    PROVE  /\ Cardinality(S) \in Nat
           /\ \A x \in S : Cardinality(S \cap 1..x) \in 1..Cardinality(S)
           /\ \A x, y \in S : x < y => Cardinality(S \cap 1..x) < Cardinality(S \cap 1..y)
<1>1. Cardinality(S) \in Nat
  BY FS_CardinalityType
<1>2. ASSUME NEW x \in S
      PROVE  /\ IsFiniteSet(S \cap 1..x) /\ Cardinality(S \cap 1..x) \in Nat
             /\ Cardinality(S \cap 1..x) <= Cardinality(S) /\ S \cap 1..x # {}
  <2>1. S \cap 1..x \in SUBSET S /\ x \in S \cap 1..x
    OBVIOUS
  <2> QED BY <2>1, FS_Subset, FS_CardinalityType
<1>3. \A x \in S : Cardinality(S \cap 1..x) # 0
  BY <1>2, FS_EmptySet
<1>4. ASSUME NEW x \in S, NEW y \in S, x < y
      PROVE  Cardinality(S \cap 1..x) < Cardinality(S \cap 1..y)
  <2>1. S \cap 1..x \in SUBSET (S \cap 1..y)
    BY <1>4
  <2>2. y \in S \cap 1..y /\ y \notin S \cap 1..x
    BY <1>4
  <2>3. /\ Cardinality(S \cap 1..x) <= Cardinality(S \cap 1..y)
        /\ Cardinality(S \cap 1..x) # Cardinality(S \cap 1..y)
    <3> DEFINE A == S \cap 1..x
               B == S \cap 1..y
    <3>1. IsFiniteSet(B) /\ A \in SUBSET B /\ A # B
      BY <1>2, <2>1, <2>2
    <3> HIDE DEF A, B
    <3>2. Cardinality(A) <= Cardinality(B) /\ (Cardinality(B) = Cardinality(A) => B = A)
      BY <3>1, FS_Subset
    <3> QED BY <3>1, <3>2 DEF A, B
  <2>4. Cardinality(S \cap 1..x) \in Nat /\ Cardinality(S \cap 1..y) \in Nat
    BY <1>2
  <2> DEFINE a == Cardinality(S \cap 1..x)
             b == Cardinality(S \cap 1..y)
  <2> HIDE DEF a, b
  <2>5. a \in Nat /\ b \in Nat /\ a <= b /\ a # b
    BY <2>3, <2>4 DEF a, b
  <2>6. a < b
    BY <2>5
  <2> QED BY <2>6 DEF a, b
<1> QED BY <1>1, <1>2, <1>3, <1>4

\* InOrder lists a finite set of places, each once, in increasing order.
LEMMA Ordered ==
    ASSUME NEW S \in SUBSET (Nat \ {0}), IsFiniteSet(S)
    PROVE  /\ Cardinality(S) \in Nat
           /\ InOrder(S) \in [1..Cardinality(S) -> S]
           /\ \A k, l \in 1..Cardinality(S) : k < l => InOrder(S)[k] < InOrder(S)[l]
           /\ \A x \in S : \E k \in 1..Cardinality(S) : InOrder(S)[k] = x
<1> DEFINE n == Cardinality(S)
           rank == [x \in S |-> Cardinality(S \cap 1..x)]
<1>1. n \in Nat /\ \A x \in S : rank[x] \in 1..n
  BY Ranks
<1>2. \A x, y \in S : x < y => rank[x] < rank[y]
  BY Ranks
<1>3. \A x, y \in S : rank[x] = rank[y] => x = y
  BY <1>1, <1>2
<1>4. rank \in Injection(S, 1..n)
  BY <1>1, <1>3 DEF Injection, IsInjective
<1>5. IsFiniteSet(1..n) /\ Cardinality(1..n) = n
  BY <1>1, FS_Interval
<1>6. rank \in Surjection(S, 1..n)
  BY <1>4, <1>5, FS_Injection
<1>7. \A k \in 1..n : \E x \in S : rank[x] = k
  BY <1>6 DEF Surjection
<1>8. ASSUME NEW k \in 1..n
      PROVE  InOrder(S)[k] \in S /\ rank[InOrder(S)[k]] = k
  <2>1. InOrder(S)[k] = CHOOSE x \in S : Cardinality(S \cap 1..x) = k
    BY DEF InOrder
  <2>2. \E x \in S : Cardinality(S \cap 1..x) = k
    BY <1>7
  <2> QED BY <2>1, <2>2
<1>9. InOrder(S) \in [1..n -> S]
  BY <1>8 DEF InOrder
<1>10. ASSUME NEW k \in 1..n, NEW l \in 1..n, k < l
       PROVE  InOrder(S)[k] < InOrder(S)[l]
  <2>1. PICK x \in S, y \in S : x = InOrder(S)[k] /\ y = InOrder(S)[l] /\ rank[x] = k /\ rank[y] = l
    BY <1>8
  <2>2. ~(y < x) /\ y # x
    BY <1>1, <1>2, <1>10, <2>1
  <2>3. x \in Nat /\ y \in Nat
    OBVIOUS
  <2> QED BY <2>1, <2>2, <2>3
<1>11. \A x \in S : InOrder(S)[rank[x]] = x
  BY <1>1, <1>3, <1>8
<1> QED BY <1>1, <1>9, <1>10, <1>11

\* At picks the elements of a sequence at a set of places, in their order.
LEMMA Picked ==
    ASSUME NEW E, NEW q \in Seq(E), NEW S \in SUBSET (DOMAIN q)
    PROVE  /\ At(q, S) \in Seq(E) /\ Cardinality(S) \in Nat /\ Len(At(q, S)) = Cardinality(S)
           /\ \E f \in [1..Cardinality(S) -> S] :
                /\ \A k \in 1..Cardinality(S) : At(q, S)[k] = q[f[k]]
                /\ \A k, l \in 1..Cardinality(S) : k < l => f[k] < f[l]
                /\ \A x \in S : \E k \in 1..Cardinality(S) : f[k] = x
<1>1. DOMAIN q = 1..Len(q) /\ Len(q) \in Nat
  OBVIOUS
<1>2. IsFiniteSet(1..Len(q)) /\ Cardinality(1..Len(q)) = Len(q)
  <2>1. PICK n \in Nat : n = Len(q)
    BY <1>1
  <2>2. IsFiniteSet(1..n) /\ Cardinality(1..n) = n
    BY FS_Interval
  <2> QED BY <2>1, <2>2
<1>3. S \in SUBSET (Nat \ {0}) /\ IsFiniteSet(S)
  BY <1>1, <1>2, FS_Subset
<1>4. CASE S = DOMAIN q
  <2>1. At(q, S) = q /\ Cardinality(S) = Len(q)
    BY <1>1, <1>2, <1>4 DEF At
  <2> DEFINE f == [k \in 1..Len(q) |-> k]
  <2>2. /\ f \in [1..Len(q) -> S] /\ \A k \in 1..Len(q) : q[k] = q[f[k]]
        /\ \A k, l \in 1..Len(q) : k < l => f[k] < f[l]
        /\ \A x \in S : \E k \in 1..Len(q) : f[k] = x
    BY <1>1, <1>4
  <2> QED BY <1>1, <2>1, <2>2
<1>5. CASE S # DOMAIN q
  <2> DEFINE f == InOrder(S)
             n == Cardinality(S)
  <2>1. /\ n \in Nat /\ f \in [1..n -> S] /\ \A k, l \in 1..n : k < l => f[k] < f[l]
        /\ \A x \in S : \E k \in 1..n : f[k] = x
    BY <1>3, Ordered
  <2> HIDE DEF f
  <2>2. At(q, S) = [k \in 1..n |-> q[f[k]]]
    BY <1>5 DEF At, f
  <2>3. \A k \in 1..n : q[f[k]] \in E
    BY <1>1, <2>1
  <2>4. At(q, S) \in Seq(E) /\ Len(At(q, S)) = n
    BY <2>1, <2>2, <2>3
  <2> QED BY <2>1, <2>2, <2>4
<1> QED BY <1>4, <1>5

\* What is a sequence is a sequence of its elements.
LEMMA OwnElements ==
    ASSUME NEW E, NEW q \in Seq(E)
    PROVE  q \in Seq(Range(q))
<1>1. \A i \in 1..Len(q) : q[i] \in Range(q)
  BY DEF Range
<1>2. q = [i \in 1..Len(q) |-> q[i]] /\ Len(q) \in Nat
  OBVIOUS
<1> QED BY <1>1, <1>2

\* Two sequences, one behind the other.
LEMMA Joined ==
    ASSUME NEW a, NEW b, a \in Seq(Range(a)), b \in Seq(Range(b))
    PROVE  /\ a \o b \in Seq(Range(a \o b)) /\ Len(a) \in Nat /\ Len(b) \in Nat
           /\ DOMAIN a = 1..Len(a) /\ DOMAIN b = 1..Len(b)
           /\ Len(a \o b) = Len(a) + Len(b) /\ DOMAIN (a \o b) = 1..(Len(a) + Len(b))
           /\ \A i \in 1..Len(a) : (a \o b)[i] = a[i]
           /\ \A i \in 1..Len(b) : (a \o b)[Len(a) + i] = b[i]
           /\ \A i \in DOMAIN (a \o b) : i \notin DOMAIN a => i - Len(a) \in 1..Len(b) /\ (a \o b)[i] = b[i - Len(a)]
<1> DEFINE E == Range(a) \cup Range(b)
<1>1. a \in Seq(E) /\ b \in Seq(E)
  OBVIOUS
<1> HIDE DEF E
<1>2. /\ a \o b \in Seq(E) /\ Len(a) \in Nat /\ Len(b) \in Nat
      /\ DOMAIN a = 1..Len(a) /\ DOMAIN b = 1..Len(b)
      /\ Len(a \o b) = Len(a) + Len(b) /\ DOMAIN (a \o b) = 1..(Len(a) + Len(b))
      /\ \A i \in 1..Len(a) : (a \o b)[i] = a[i]
      /\ \A i \in 1..Len(b) : (a \o b)[Len(a) + i] = b[i]
  BY <1>1
<1>3. a \o b \in Seq(Range(a \o b))
  BY <1>2, OwnElements
<1>4. ASSUME NEW i \in DOMAIN (a \o b), i \notin DOMAIN a
      PROVE  i - Len(a) \in 1..Len(b) /\ (a \o b)[i] = b[i - Len(a)]
  BY <1>1, <1>2, <1>4
<1> QED BY <1>2, <1>3, <1>4

\* New: the drafts that the journal does not hold, in the order of the drafts.
LEMMA NewDrafts ==
    ASSUME NEW ds, ds \in Seq(Range(ds))
    PROVE  /\ New(ds) \in Seq(Range(New(ds)))
           /\ \A k \in DOMAIN New(ds) : \E i \in DOMAIN ds : New(ds)[k] = ds[i] /\ Places(ds[i]) = {}
           /\ \A i \in DOMAIN ds : Places(ds[i]) = {} => \E k \in DOMAIN New(ds) : New(ds)[k] = ds[i]
           /\ (\A i, j \in DOMAIN ds : ds[i].key = ds[j].key => i = j) =>
                \A k, l \in DOMAIN New(ds) : New(ds)[k].key = New(ds)[l].key => k = l
           /\ ds # <<>> /\ Places(ds[Len(ds)]) = {} =>
                New(ds) # <<>> /\ New(ds)[Len(New(ds))] = ds[Len(ds)]
           /\ (\A i \in DOMAIN ds : Places(ds[i]) # {}) => New(ds) = <<>>
           /\ (\A i \in DOMAIN ds : Places(ds[i]) = {}) => New(ds) = ds
<1> DEFINE S == {i \in DOMAIN ds : Places(ds[i]) = {}}
           new == New(ds)
           n == Cardinality(S)
<1>0. new = At(ds, S) /\ S \in SUBSET (DOMAIN ds) /\ DOMAIN ds = 1..Len(ds) /\ Len(ds) \in Nat
  BY DEF New
<1>4. \A i \in DOMAIN ds : i \in S <=> Places(ds[i]) = {}
  OBVIOUS
<1> HIDE DEF S, new
<1>1. /\ new \in Seq(Range(ds)) /\ n \in Nat /\ Len(new) = n
      /\ \E f \in [1..n -> S] :
                /\ \A k \in 1..n : new[k] = ds[f[k]]
                /\ \A k, l \in 1..n : k < l => f[k] < f[l]
                /\ \A x \in S : \E k \in 1..n : f[k] = x
  <2>1. PICK E : E = Range(ds)
    OBVIOUS
  <2>2. ds \in Seq(E)
    BY <2>1
  <2>3. /\ At(ds, S) \in Seq(E) /\ Cardinality(S) \in Nat /\ Len(At(ds, S)) = Cardinality(S)
        /\ \E f \in [1..Cardinality(S) -> S] :
                /\ \A k \in 1..Cardinality(S) : At(ds, S)[k] = ds[f[k]]
                /\ \A k, l \in 1..Cardinality(S) : k < l => f[k] < f[l]
                /\ \A x \in S : \E k \in 1..Cardinality(S) : f[k] = x
    BY <1>0, <2>2, Picked
  <2> QED BY <1>0, <2>1, <2>3
<1>2. PICK f \in [1..n -> S] :
                /\ \A k \in 1..n : new[k] = ds[f[k]]
                /\ \A k, l \in 1..n : k < l => f[k] < f[l]
                /\ \A x \in S : \E k \in 1..n : f[k] = x
  BY <1>1
<1>3. DOMAIN new = 1..n /\ new \in Seq(Range(new))
  BY <1>1, OwnElements
<1> HIDE DEF n
<1>5. \A k \in DOMAIN new : \E i \in DOMAIN ds : new[k] = ds[i] /\ Places(ds[i]) = {}
  BY <1>0, <1>2, <1>3, <1>4
<1>6. \A i \in DOMAIN ds : Places(ds[i]) = {} => \E k \in DOMAIN new : new[k] = ds[i]
  BY <1>0, <1>2, <1>3, <1>4
<1>7. ASSUME \A i, j \in DOMAIN ds : ds[i].key = ds[j].key => i = j,
             NEW k \in DOMAIN new, NEW l \in DOMAIN new, new[k].key = new[l].key
      PROVE  k = l
  <2>1. f[k] \in DOMAIN ds /\ f[l] \in DOMAIN ds /\ new[k] = ds[f[k]] /\ new[l] = ds[f[l]]
    BY <1>0, <1>2, <1>3
  <2>2. f[k] = f[l] /\ f[k] \in Int
    BY <1>0, <1>7, <2>1
  <2>3. k \in 1..n /\ l \in 1..n /\ ~(f[k] < f[l]) /\ ~(f[l] < f[k])
    BY <1>3, <2>2
  <2>4. ~(k < l) /\ ~(l < k)
    BY <1>2, <2>3
  <2> QED BY <1>1, <2>3, <2>4
<1>8. ASSUME ds # <<>>, Places(ds[Len(ds)]) = {}
      PROVE  new # <<>> /\ new[Len(new)] = ds[Len(ds)]
  <2>1. Len(ds) \in DOMAIN ds
    BY <1>0, <1>8
  <2>2. PICK k \in 1..n : f[k] = Len(ds)
    BY <1>2, <1>4, <1>8, <2>1
  <2>3. f[n] \in 1..Len(ds) /\ n \in 1..n
    BY <1>0, <1>1, <1>2, <2>2
  <2>4. ~(k < n)
    BY <1>0, <1>2, <2>2, <2>3
  <2>5. k = n
    BY <1>1, <2>3, <2>4
  <2>6. new[Len(new)] = ds[Len(ds)] /\ Len(new) > 0
    BY <1>1, <1>2, <2>2, <2>3, <2>5
  <2> QED BY <1>1, <2>6
<1>9. ASSUME \A i \in DOMAIN ds : Places(ds[i]) # {}
      PROVE  new = <<>>
  <2>1. n = 0
    BY <1>0, <1>1, <1>2, <1>4, <1>9
  <2> QED BY <1>1, <2>1
<1>10. ASSUME \A i \in DOMAIN ds : Places(ds[i]) = {}
       PROVE  new = ds
  BY <1>0, <1>4, <1>10 DEF At
<1> QED BY <1>3, <1>5, <1>6, <1>7, <1>8, <1>9, <1>10 DEF new

-----------------------------------------------------------------------------
(* Appending to the journal.                                               *)

\* The costs of drafts add up.
LEMMA CostsAdd ==
    ASSUME NEW a, NEW b, a \in Seq(Range(a)), b \in Seq(Range(b))
    PROVE  Costly(a) \in Nat /\ Costly(b) \in Nat /\ Costly(a \o b) = Costly(a) + Costly(b)
<1> DEFINE Text == {"batch", "text"}
           A == {i \in DOMAIN a : a[i].key[1] \in Text}
           B == {i \in DOMAIN b : b[i].key[1] \in Text}
           C == {i \in DOMAIN (a \o b) : (a \o b)[i].key[1] \in Text}
           D == {i \in C : i \notin DOMAIN a}
           n == Len(a)
           m == Len(b)
<1>1. /\ n \in Nat /\ m \in Nat /\ DOMAIN a = 1..n /\ DOMAIN b = 1..m /\ DOMAIN (a \o b) = 1..(n + m)
      /\ \A i \in 1..n : (a \o b)[i] = a[i]
      /\ \A i \in 1..m : (a \o b)[n + i] = b[i]
      /\ \A i \in DOMAIN (a \o b) : i \notin DOMAIN a => i - n \in 1..m /\ (a \o b)[i] = b[i - n]
  BY Joined
<1>2. /\ Costly(a) = Cardinality(A) /\ Costly(b) = Cardinality(B) /\ Costly(a \o b) = Cardinality(C)
      /\ A \in SUBSET (1..n) /\ B \in SUBSET (1..m) /\ D \in SUBSET ((n+1)..(n + m))
  BY <1>1 DEF Costly
<1>3. C = A \cup D /\ A \cap D = {}
  BY <1>1
<1>4. /\ \A i \in B : n + i \in D
      /\ \A i \in D : i - n \in B
  BY <1>1
<1> HIDE DEF A, B, C, D, n, m
<1>5. IsFiniteSet(1..n) /\ IsFiniteSet(1..m) /\ IsFiniteSet((n+1)..(n+m))
  <2>1. PICK x \in Int, y \in Int : x = n + 1 /\ y = n + m
    BY <1>1
  <2>2. IsFiniteSet(x..y)
    BY FS_Interval
  <2> QED BY <1>1, <2>1, <2>2, FS_Interval
<1>6. IsFiniteSet(A) /\ IsFiniteSet(B) /\ IsFiniteSet(D)
  BY <1>2, <1>5, FS_Subset
<1>7. Cardinality(A) \in Nat /\ Cardinality(B) \in Nat /\ Cardinality(D) \in Nat
  BY <1>6, FS_CardinalityType
<1>8. Cardinality(D) = Cardinality(B)
  <2> DEFINE f == [i \in B |-> n + i]
  <2>1. f \in [B -> D]
    BY <1>4
  <2>2. \A i, j \in B : f[i] = f[j] => i = j
    BY <1>1, <1>2
  <2>3. \A j \in D : \E i \in B : f[i] = j
    <3> TAKE j \in D
    <3>0. j \in (n + 1)..(n + m)
      BY <1>2
    <3>1. j - n \in B /\ j \in Int
      BY <1>1, <1>4, <3>0
    <3>2. f[j - n] = n + (j - n)
      BY <3>1
    <3>3. n + (j - n) = j
      BY <1>1, <3>1
    <3> QED BY <3>1, <3>2, <3>3
  <2>4. f \in Bijection(B, D)
    BY <2>1, <2>2, <2>3 DEF Bijection, Injection, Surjection, IsInjective
  <2>5. ExistsBijection(B, D)
    BY <2>4 DEF ExistsBijection
  <2> QED BY <1>6, <2>5, FS_Bijection
<1>9. Cardinality(A \cup D) = Cardinality(A) + Cardinality(D)
  <2>1. Cardinality(A \cup D) = Cardinality(A) + Cardinality(D) - Cardinality(A \cap D)
    BY <1>6, FS_Union
  <2>2. Cardinality(A \cap D) = 0
    BY <1>3, FS_EmptySet
  <2> QED BY <1>7, <2>1, <2>2
<1> QED BY <1>2, <1>3, <1>7, <1>8, <1>9

\* Drafts without text cost nothing.
LEMMA FreeOfCharge ==
    ASSUME NEW ds, \A i \in DOMAIN ds : ds[i].key[1] \notin {"batch", "text"}
    PROVE  Costly(ds) = 0
<1>1. {i \in DOMAIN ds : ds[i].key[1] \in {"batch", "text"}} = {}
  OBVIOUS
<1> QED BY <1>1, FS_EmptySet DEF Costly

\* Drafts that can be appended together.
Drafts(ds) ==
    /\ ds \in Seq(Range(ds))
    /\ \A i, j \in DOMAIN ds : ds[i].key = ds[j].key => i = j
    /\ \A i \in DOMAIN ds : EventOK(ds[i])

\* A log with its cost, and the state of the journal without what its streams say of it.
LogOK(log, used) ==
    /\ log \in Seq(Range(log)) /\ log # <<>> /\ log[1] = Lifecycle("running")
    /\ DOMAIN log = 1..Len(log) /\ Len(log) \in Nat
    /\ used = Costly(log) /\ used =< MaxOutput
    /\ \A i, j \in DOMAIN log : log[i].key = log[j].key => i = j
    /\ \A i \in DOMAIN log : EventOK(log[i])

JournalState(d) ==
    /\ d = [run |-> d.run, claim |-> d.claim, used |-> d.used, log |-> d.log,
            stream |-> d.stream, public |-> d.public]
    /\ LogOK(d.log, d.used)

\* The log is the journal with some of the drafts ds behind it, and no draft is missing.
Grown(log, ds) ==
    /\ Len(db.log) =< Len(log)
    /\ \A i \in DOMAIN db.log : i \in DOMAIN log /\ log[i] = db.log[i]
    /\ \A i \in DOMAIN log : i \notin DOMAIN db.log =>
         \E j \in DOMAIN ds : log[i] = ds[j] /\ Places(ds[j]) = {}
    /\ \A j \in DOMAIN ds : \E i \in DOMAIN log : log[i].key = ds[j].key
    /\ \A j \in DOMAIN ds : Places(ds[j]) = {} =>
         \E i \in DOMAIN log : log[i] = ds[j] /\ i \notin DOMAIN db.log

\* The journal's own state.
LEMMA OwnState ==
    ASSUME JournalTypeOK
    PROVE  JournalState(db) /\ db.used \in Nat
<1>1. db.log \in Seq(Range(db.log)) /\ <<>> \in Seq(Range(<<>>))
  BY OwnElements DEF JournalTypeOK
<1>2. Costly(db.log) \in Nat
  BY <1>1, CostsAdd
<1>3. DOMAIN db.log = 1..Len(db.log) /\ Len(db.log) \in Nat
  BY <1>1
<1> QED BY <1>2, <1>3 DEF JournalTypeOK, JournalState, LogOK

\* _append_events keeps the journal what it is and adds what is not there yet.
LEMMA Appending ==
    ASSUME JournalTypeOK, NEW ds, Drafts(ds), WithinBudget(ds), NEW d, d = Appended(ds)
    PROVE  /\ JournalState(d) /\ Grown(d.log, ds)
           /\ d.run = db.run /\ d.claim = db.claim /\ d.stream = db.stream /\ d.public = db.public
           /\ (\A i \in DOMAIN ds : Places(ds[i]) # {}) => d.log = db.log
           /\ (\A i \in DOMAIN ds : Places(ds[i]) = {}) => d.log = db.log \o ds
           /\ ds # <<>> /\ Places(ds[Len(ds)]) = {} => d.log[Len(d.log)] = ds[Len(ds)]
<1> DEFINE new == New(ds)
           log == db.log \o new
<1>1. JournalState(db) /\ db.used \in Nat
  BY OwnState
<1>2. d = [run |-> db.run, claim |-> db.claim, used |-> db.used + Costly(new), log |-> log,
           stream |-> db.stream, public |-> db.public]
  BY <1>1 DEF Appended, JournalState, LogOK
<1>3. /\ new \in Seq(Range(new))
      /\ \A k \in DOMAIN new : \E i \in DOMAIN ds : new[k] = ds[i] /\ Places(ds[i]) = {}
      /\ \A i \in DOMAIN ds : Places(ds[i]) = {} => \E k \in DOMAIN new : new[k] = ds[i]
      /\ \A k, l \in DOMAIN new : new[k].key = new[l].key => k = l
      /\ ds # <<>> /\ Places(ds[Len(ds)]) = {} => new # <<>> /\ new[Len(new)] = ds[Len(ds)]
      /\ (\A i \in DOMAIN ds : Places(ds[i]) # {}) => new = <<>>
      /\ (\A i \in DOMAIN ds : Places(ds[i]) = {}) => new = ds
  BY NewDrafts DEF Drafts
<1>4. db.used + Costly(new) =< MaxOutput
  BY DEF WithinBudget
<1> HIDE DEF new, log
<1>5. db.log \in Seq(Range(db.log))
  BY <1>1 DEF JournalState, LogOK
<1>6. /\ log \in Seq(Range(log)) /\ Len(db.log) \in Nat /\ Len(new) \in Nat
      /\ DOMAIN db.log = 1..Len(db.log) /\ DOMAIN new = 1..Len(new)
      /\ Len(log) = Len(db.log) + Len(new) /\ DOMAIN log = 1..(Len(db.log) + Len(new))
      /\ \A i \in 1..Len(db.log) : log[i] = db.log[i]
      /\ \A i \in 1..Len(new) : log[Len(db.log) + i] = new[i]
      /\ \A i \in DOMAIN log : i \notin DOMAIN db.log =>
           i - Len(db.log) \in 1..Len(new) /\ log[i] = new[i - Len(db.log)]
  BY <1>3, <1>5, Joined DEF log
<1>7. Costly(log) = db.used + Costly(new)
  BY <1>1, <1>3, <1>5, CostsAdd DEF log, JournalState, LogOK
<1>8. \A i \in DOMAIN db.log : i \in DOMAIN log /\ log[i] = db.log[i]
  BY <1>6
<1>9. \A i \in DOMAIN log : i \notin DOMAIN db.log =>
         \E j \in DOMAIN ds : log[i] = ds[j] /\ Places(ds[j]) = {}
  <2> TAKE i \in DOMAIN log
  <2> HAVE i \notin DOMAIN db.log
  <2>0. i - Len(db.log) \in 1..Len(new) /\ log[i] = new[i - Len(db.log)]
    BY <1>6
  <2>1. PICK k \in DOMAIN new : log[i] = new[k]
    BY <1>6, <2>0
  <2>2. \A x \in DOMAIN new : \E j \in DOMAIN ds : new[x] = ds[j] /\ Places(ds[j]) = {}
    BY <1>3
  <2> QED BY <2>1, <2>2
<1>10. \A j \in DOMAIN ds : Places(ds[j]) = {} =>
         \E i \in DOMAIN log : log[i] = ds[j] /\ i \notin DOMAIN db.log
  <2> TAKE j \in DOMAIN ds
  <2> HAVE Places(ds[j]) = {}
  <2>1. PICK k \in DOMAIN new : new[k] = ds[j]
    BY <1>3
  <2>2. k \in 1..Len(new) /\ k \in Nat
    BY <1>6
  <2>3. Len(db.log) + k \in DOMAIN log /\ log[Len(db.log) + k] = ds[j] /\ Len(db.log) + k \notin DOMAIN db.log
    BY <1>6, <2>1, <2>2
  <2> QED BY <2>3
<1>11. \A j \in DOMAIN ds : \E i \in DOMAIN log : log[i].key = ds[j].key
  <2> TAKE j \in DOMAIN ds
  <2>1. CASE Places(ds[j]) = {}
    BY <1>10, <2>1
  <2>2. CASE Places(ds[j]) # {}
    <3>1. PICK i \in DOMAIN db.log : db.log[i].key = ds[j].key
      BY <2>2 DEF Places
    <3> QED BY <1>8, <3>1
  <2> QED BY <2>1, <2>2
<1>12. \A i, j \in DOMAIN log : log[i].key = log[j].key => i = j
  <2> TAKE i, j \in DOMAIN log
  <2> HAVE log[i].key = log[j].key
  <2>0. i \in Nat /\ j \in Nat
    BY <1>6
  <2>1. CASE i \in DOMAIN db.log /\ j \in DOMAIN db.log
    BY <1>1, <1>8, <2>1 DEF JournalState, LogOK
  <2>2. CASE i \notin DOMAIN db.log /\ j \notin DOMAIN db.log
    <3>1. i - Len(db.log) = j - Len(db.log)
      BY <1>3, <1>6, <2>2
    <3> QED BY <1>6, <2>0, <3>1
  <2>3. CASE i \in DOMAIN db.log /\ j \notin DOMAIN db.log
    BY <1>8, <1>9, <2>3 DEF Places
  <2>4. CASE i \notin DOMAIN db.log /\ j \in DOMAIN db.log
    BY <1>8, <1>9, <2>4 DEF Places
  <2> QED BY <2>1, <2>2, <2>3, <2>4
<1>13. \A i \in DOMAIN log : EventOK(log[i])
  BY <1>1, <1>8, <1>9 DEF JournalState, LogOK, Drafts
<1>14. log # <<>> /\ log[1] = Lifecycle("running") /\ DOMAIN log = 1..Len(log) /\ Len(log) \in Nat
  BY <1>1, <1>6 DEF JournalState, LogOK
<1>15. new = <<>> => log = db.log
  BY <1>5 DEF log
<1>16. new # <<>> => log[Len(log)] = new[Len(new)]
  BY <1>3, <1>6
<1>17. JournalState(d)
  <2>1. LogOK(log, db.used + Costly(new))
    BY <1>4, <1>6, <1>7, <1>12, <1>13, <1>14 DEF LogOK
  <2> QED BY <1>2, <2>1 DEF JournalState
<1>18. Grown(d.log, ds)
  <2>1. d.log = log /\ Len(db.log) =< Len(log)
    BY <1>2, <1>6
  <2> QED BY <2>1, <1>8, <1>9, <1>10, <1>11 DEF Grown
<1>19. log = db.log \o new
  BY DEF log
<1>20. /\ d.log = log /\ d.run = db.run /\ d.claim = db.claim /\ d.stream = db.stream
       /\ d.public = db.public
  BY <1>2
<1>21. (\A i \in DOMAIN ds : Places(ds[i]) # {}) => log = db.log
  BY <1>3, <1>15
<1>22. (\A i \in DOMAIN ds : Places(ds[i]) = {}) => log = db.log \o ds
  BY <1>3, <1>19
<1>23. ds # <<>> /\ Places(ds[Len(ds)]) = {} => log[Len(log)] = ds[Len(ds)]
  BY <1>3, <1>16
<1> QED BY <1>17, <1>18, <1>20, <1>21, <1>22, <1>23

\* What is in the journal stays in it, and what comes is one of the drafts.
LEMMA LoggedGrows ==
    ASSUME NEW ds, Grown(db'.log, ds), NEW key
    PROVE  /\ Logged(key) => Logged(key)'
           /\ Logged(key)' => Logged(key) \/ \E j \in DOMAIN ds : ds[j].key = key
           /\ (\E j \in DOMAIN ds : ds[j].key = key) => Logged(key)'
BY DEF Grown, Logged

\* An append keeps the journal's invariants, as long as nothing without a stream is
\* written to a settled Run with a claim.
LEMMA AppendKeeps ==
    ASSUME JournalTypeOK, TerminalFence, NEW ds, Drafts(ds), NEW acc, CanAppend(ds, acc),
           db' = Appended(ds),
           \A i \in DOMAIN ds : ds[i].key[1] # "life",
           \A i \in DOMAIN ds, s \in Streams, how \in {"committed", "aborted"} :
             ds[i].key # <<"end", s, how>>,
           \/ db.run = "running" \/ ~db.claim
           \/ acc = {"open"} /\ \A i \in DOMAIN ds : ds[i].stream \in Streams
    PROVE  /\ JournalTypeOK' /\ TerminalFence' /\ Grown(db'.log, ds)
           /\ db'.run = db.run /\ db'.claim = db.claim /\ db'.stream = db.stream /\ db'.public = db.public
           /\ (\A i \in DOMAIN ds : Places(ds[i]) = {}) => db'.log = db.log \o ds
<1>1. /\ JournalState(db') /\ Grown(db'.log, ds)
      /\ db'.run = db.run /\ db'.claim = db.claim /\ db'.stream = db.stream /\ db'.public = db.public
      /\ (\A i \in DOMAIN ds : Places(ds[i]) # {}) => db'.log = db.log
      /\ (\A i \in DOMAIN ds : Places(ds[i]) = {}) => db'.log = db.log \o ds
  <2>1. WithinBudget(ds)
    BY DEF CanAppend
  <2> QED BY <2>1, Appending
<1>2. \A s \in Streams, how \in {"committed", "aborted"} :
         Logged(<<"end", s, how>>)' <=> Logged(<<"end", s, how>>)
  BY <1>1, LoggedGrows
<1>3. JournalTypeOK'
  BY <1>1, <1>2 DEF JournalState, LogOK, JournalTypeOK
<1>4. CASE db.run = "running"
  <2>1. \A i \in DOMAIN db'.log \ {1} : db'.log[i].key[1] = "life" => db'.run = db'.log[i].body
    BY <1>1 DEF Grown, TerminalFence
  <2> QED BY <1>1, <1>3, <1>4, <2>1 DEF TerminalFence
<1>5. CASE db.run # "running"
  <2>1. OpenStreams = {}
    BY <1>5 DEF TerminalFence
  <2>2. \A i \in DOMAIN ds : ~Admitted(ds[i], acc)
    <3> TAKE i \in DOMAIN ds
    <3>1. CASE ~db.claim
      BY <3>1 DEF Admitted
    <3>2. CASE acc = {"open"} /\ ds[i].stream \in Streams
      <4>1. ds[i].stream # 0 /\ db.stream[ds[i].stream] # "open"
        BY <2>1, <3>2, JournalAssumption DEF Streams, OpenStreams
      <4> QED BY <3>2, <4>1 DEF Admitted
    <3> QED BY <1>5, <3>1, <3>2
  <2>3. \A i \in DOMAIN ds : Places(ds[i]) # {}
    BY <2>2 DEF CanAppend
  <2>4. db'.log = db.log
    BY <1>1, <2>3
  <2>5. OpenStreams' = OpenStreams /\ OpenOperations' = OpenOperations
    BY <1>1, <2>4 DEF OpenStreams, OpenOperations, Logged
  <2> QED BY <1>1, <1>3, <2>4, <2>5 DEF TerminalFence
<1> QED BY <1>1, <1>3, <1>4, <1>5

\* Drafts without text fit any budget.
LEMMA FreeFits ==
    ASSUME JournalTypeOK, NEW ds, Drafts(ds), \A i \in DOMAIN ds : ds[i].key[1] \notin {"batch", "text"}
    PROVE  WithinBudget(ds)
<1>1. \A k \in DOMAIN New(ds) : \E i \in DOMAIN ds : New(ds)[k] = ds[i]
  BY NewDrafts DEF Drafts
<1>2. Costly(New(ds)) = 0
  BY <1>1, FreeOfCharge
<1>3. db.used \in Nat /\ db.used =< MaxOutput
  BY OwnState DEF JournalTypeOK
<1> QED BY <1>2, <1>3, JournalAssumption DEF WithinBudget

\* One draft.
LEMMA OneDraft ==
    ASSUME NEW e, EventOK(e)
    PROVE  /\ Drafts(<<e>>) /\ DOMAIN <<e>> = {1} /\ <<e>>[1] = e
<1>1. <<e>> \in Seq({e}) /\ DOMAIN <<e>> = {1} /\ <<e>>[1] = e
  OBVIOUS
<1>2. <<e>> \in Seq(Range(<<e>>))
  BY <1>1, OwnElements
<1> QED BY <1>1, <1>2 DEF Drafts

\* open_stream.
LEMMA OpenKeeps ==
    ASSUME JournalTypeOK, TerminalFence, NEW s \in Streams, NEW public \in BOOLEAN, CanOpen(s),
           db' = Opened(s, public)
    PROVE  /\ JournalTypeOK' /\ TerminalFence'
           /\ db'.log = db.log /\ db'.run = db.run /\ db'.claim = db.claim
           /\ db'.stream = [db.stream EXCEPT ![s] = "open"]
           /\ db'.public = [db.public EXCEPT ![s] = public]
<1>1. db' = [run |-> db.run, claim |-> db.claim, used |-> db.used, log |-> db.log,
             stream |-> [db.stream EXCEPT ![s] = "open"], public |-> [db.public EXCEPT ![s] = public]]
  BY DEF Opened, JournalTypeOK
<1>2. /\ db'.log = db.log /\ db'.run = db.run /\ db'.claim = db.claim /\ db'.used = db.used
      /\ db'.stream = [db.stream EXCEPT ![s] = "open"]
      /\ db'.public = [db.public EXCEPT ![s] = public]
  BY <1>1
<1>3. \A t \in Streams, how \in {"committed", "aborted"} : Logged(<<"end", t, how>>)' <=> db'.stream[t] = how
  <2>1. \A t \in Streams, how \in {"committed", "aborted"} : Logged(<<"end", t, how>>)' <=> Logged(<<"end", t, how>>)
    BY <1>2 DEF Logged
  <2> TAKE t \in Streams, how \in {"committed", "aborted"}
  <2>2. Logged(<<"end", t, how>>) <=> db.stream[t] = how
    BY DEF JournalTypeOK
  <2>3. db.stream[s] = "none" /\ s \in DOMAIN db.stream
    BY DEF JournalTypeOK, CanOpen
  <2>4. db'.stream[t] = IF t = s THEN "open" ELSE db.stream[t]
    BY <1>2 DEF JournalTypeOK
  <2> QED BY <2>1, <2>2, <2>3, <2>4
<1>4. /\ db' = [run |-> db'.run, claim |-> db'.claim, used |-> db'.used, log |-> db'.log,
                stream |-> db'.stream, public |-> db'.public]
      /\ db'.stream \in [Streams -> {"none", "open", "committed", "aborted"}]
      /\ db'.public \in [Streams -> BOOLEAN]
  BY <1>1, <1>2 DEF JournalTypeOK
<1>5. JournalTypeOK'
  BY <1>2, <1>3, <1>4 DEF JournalTypeOK
<1>6. TerminalFence'
  BY <1>2 DEF TerminalFence, CanOpen
<1> QED BY <1>2, <1>5, <1>6

\* commit_stream and abort_stream.
LEMMA EndKeeps ==
    ASSUME JournalTypeOK, TerminalFence, NEW s \in Streams, NEW how \in {"committed", "aborted"},
           CanEnd(s, how), db' = Ended(s, how)
    PROVE  /\ JournalTypeOK' /\ TerminalFence' /\ Grown(db'.log, <<StreamEnd(s, how)>>)
           /\ db'.run = db.run /\ db'.claim = db.claim /\ db'.public = db.public
           /\ db'.stream = [db.stream EXCEPT ![s] = how]
<1> DEFINE e == StreamEnd(s, how)
           ds == <<e>>
           d == Appended(ds)
<1>1. e.key = <<"end", s, how>> /\ e.key[1] = "end" /\ EventOK(e)
  BY DEF StreamEnd, Event, EventOK
<1>2. Drafts(ds) /\ DOMAIN ds = {1} /\ ds[1] = e
  BY <1>1, OneDraft
<1> HIDE DEF e, ds, d
<1>3. WithinBudget(ds)
  BY <1>1, <1>2, FreeFits
<1>4. /\ JournalState(d) /\ Grown(d.log, ds)
      /\ d.run = db.run /\ d.claim = db.claim /\ d.stream = db.stream /\ d.public = db.public
      /\ (\A i \in DOMAIN ds : Places(ds[i]) # {}) => d.log = db.log
  BY <1>2, <1>3, Appending DEF d
<1>5. db' = [d EXCEPT !.stream[s] = how]
  BY DEF Ended, d, ds, e
<1>6. /\ db' = [run |-> db.run, claim |-> db.claim, used |-> d.used, log |-> d.log,
                stream |-> [db.stream EXCEPT ![s] = how], public |-> db.public]
  BY <1>4, <1>5 DEF JournalState, LogOK
<1>7. /\ db'.run = db.run /\ db'.claim = db.claim /\ db'.public = db.public
      /\ db'.stream = [db.stream EXCEPT ![s] = how] /\ db'.log = d.log /\ db'.used = d.used
  BY <1>6
<1>8. Grown(db'.log, ds) /\ LogOK(db'.log, db'.used)
  BY <1>4, <1>7 DEF JournalState
<1>9. \A t \in Streams, h \in {"committed", "aborted"} : Logged(<<"end", t, h>>)' <=> db'.stream[t] = h
  <2> TAKE t \in Streams, h \in {"committed", "aborted"}
  <2>1. Logged(<<"end", t, h>>)' <=> Logged(<<"end", t, h>>) \/ (t = s /\ h = how)
    BY <1>1, <1>2, <1>8, LoggedGrows
  <2>2. db.stream[s] \in {"open", how}
    BY DEF CanEnd
  <2>3. Logged(<<"end", t, h>>) <=> db.stream[t] = h
    BY DEF JournalTypeOK
  <2> QED BY <1>7, <2>1, <2>2, <2>3 DEF JournalTypeOK
<1>10. /\ db' = [run |-> db'.run, claim |-> db'.claim, used |-> db'.used, log |-> db'.log,
                stream |-> db'.stream, public |-> db'.public]
       /\ db'.stream \in [Streams -> {"none", "open", "committed", "aborted"}]
       /\ db'.public \in [Streams -> BOOLEAN]
  BY <1>6, <1>7 DEF JournalTypeOK
<1>11. JournalTypeOK'
  BY <1>7, <1>8, <1>9, <1>10 DEF JournalTypeOK, LogOK
<1>12. TerminalFence'
  <2>1. CASE db.run = "running"
    <3>1. \A i \in DOMAIN db'.log \ {1} : db'.log[i].key[1] = "life" => db'.run = db'.log[i].body
      BY <1>1, <1>2, <1>7, <1>8 DEF Grown, TerminalFence
    <3> QED BY <1>7, <2>1, <3>1 DEF TerminalFence
  <2>2. CASE db.run # "running"
    <3>1. OpenStreams = {}
      BY <2>2 DEF TerminalFence
    <3>2. db.stream[s] = how
      BY <3>1 DEF CanEnd, OpenStreams
    <3>3. Places(e) # {}
      <4>1. Logged(<<"end", s, how>>)
        BY <3>2 DEF JournalTypeOK
      <4> QED BY <1>1, <4>1 DEF Logged, Places
    <3>4. db'.log = db.log /\ db'.stream = db.stream
      <4>1. [db.stream EXCEPT ![s] = how] = db.stream
        BY <3>2 DEF JournalTypeOK
      <4>2. d.log = db.log
        BY <1>2, <1>4, <3>3
      <4> QED BY <1>7, <4>1, <4>2
    <3>5. OpenStreams' = OpenStreams /\ OpenOperations' = OpenOperations
      BY <3>4 DEF OpenStreams, OpenOperations, Logged
    <3> QED BY <1>7, <3>4, <3>5 DEF TerminalFence
  <2> QED BY <2>1, <2>2
<1> QED BY <1>7, <1>8, <1>11, <1>12 DEF ds, e

-----------------------------------------------------------------------------
(* The terminal fence.                                                     *)

\* Drafts with different keys, one group behind the other.
Together(a, b, c) ==
    /\ \A k \in DOMAIN c : (\E i \in DOMAIN a : c[k] = a[i]) \/ (\E j \in DOMAIN b : c[k] = b[j])
    /\ \A i \in DOMAIN a : \E k \in DOMAIN c : c[k] = a[i]
    /\ \A j \in DOMAIN b : \E k \in DOMAIN c : c[k] = b[j]
    /\ b # <<>> => c # <<>> /\ c[Len(c)] = b[Len(b)]

\* Two groups of drafts with different keys make one.
LEMMA JoinDrafts ==
    ASSUME NEW a, NEW b, NEW c, c = a \o b, Drafts(a), Drafts(b),
           \A i \in DOMAIN a, j \in DOMAIN b : a[i].key # b[j].key
    PROVE  Drafts(c) /\ Together(a, b, c)
<1>1. /\ c \in Seq(Range(c)) /\ Len(a) \in Nat /\ Len(b) \in Nat
      /\ DOMAIN a = 1..Len(a) /\ DOMAIN b = 1..Len(b)
      /\ Len(c) = Len(a) + Len(b) /\ DOMAIN c = 1..(Len(a) + Len(b))
      /\ \A i \in 1..Len(a) : c[i] = a[i]
      /\ \A i \in 1..Len(b) : c[Len(a) + i] = b[i]
      /\ \A i \in DOMAIN c : i \notin DOMAIN a => i - Len(a) \in 1..Len(b) /\ c[i] = b[i - Len(a)]
  BY Joined DEF Drafts
<1>2. \A i \in DOMAIN a : i \in DOMAIN c /\ c[i] = a[i]
  BY <1>1
<1>3. \A j \in DOMAIN b : Len(a) + j \in DOMAIN c /\ c[Len(a) + j] = b[j]
  BY <1>1
<1>4. \A k \in DOMAIN c : k \notin DOMAIN a => k - Len(a) \in DOMAIN b /\ c[k] = b[k - Len(a)]
  BY <1>1
<1>5. \A k, l \in DOMAIN c : c[k].key = c[l].key => k = l
  <2> TAKE k, l \in DOMAIN c
  <2> HAVE c[k].key = c[l].key
  <2>0. k \in Nat /\ l \in Nat
    BY <1>1
  <2>1. CASE k \in DOMAIN a /\ l \in DOMAIN a
    BY <1>2, <2>1 DEF Drafts
  <2>2. CASE k \notin DOMAIN a /\ l \notin DOMAIN a
    <3>1. k - Len(a) = l - Len(a)
      BY <1>4, <2>2 DEF Drafts
    <3> QED BY <1>1, <2>0, <3>1
  <2>3. CASE (k \in DOMAIN a) # (l \in DOMAIN a)
    BY <1>2, <1>4, <2>3
  <2> QED BY <2>1, <2>2, <2>3
<1>6. \A k \in DOMAIN c : EventOK(c[k])
  BY <1>2, <1>4 DEF Drafts
<1>7. \A k \in DOMAIN c : (\E i \in DOMAIN a : c[k] = a[i]) \/ (\E j \in DOMAIN b : c[k] = b[j])
  BY <1>2, <1>4
<1>8. b # <<>> => c # <<>> /\ c[Len(c)] = b[Len(b)]
  <2> HAVE b # <<>>
  <2>1. b \in Seq(Range(b))
    BY DEF Drafts
  <2>2. Len(b) \in DOMAIN b
    BY <2>1
  <2> QED BY <1>1, <1>3, <2>2
<1>9. Drafts(c)
  BY <1>1, <1>5, <1>6 DEF Drafts
<1> QED BY <1>2, <1>3, <1>7, <1>8, <1>9 DEF Together

\* The streams of a set, in order.
LEMMA Listed ==
    ASSUME NEW S \in SUBSET Streams
    PROVE  /\ InOrder(S) \in Seq(S) /\ DOMAIN InOrder(S) = 1..Cardinality(S) /\ Cardinality(S) \in Nat
           /\ \A i, j \in DOMAIN InOrder(S) : InOrder(S)[i] = InOrder(S)[j] => i = j
           /\ \A s \in S : \E i \in DOMAIN InOrder(S) : InOrder(S)[i] = s
           /\ \A i \in DOMAIN InOrder(S) : InOrder(S)[i] \in S
<1>1. IsFiniteSet(Streams) /\ Streams \in SUBSET (Nat \ {0})
  BY JournalAssumption, FS_Interval DEF Streams
<1>2. IsFiniteSet(S) /\ S \in SUBSET (Nat \ {0})
  BY <1>1, FS_Subset
<1> DEFINE n == Cardinality(S)
           f == InOrder(S)
<1>3. /\ n \in Nat /\ f \in [1..n -> S]
      /\ \A k, l \in 1..n : k < l => f[k] < f[l]
      /\ \A x \in S : \E k \in 1..n : f[k] = x
  BY <1>2, Ordered
<1> HIDE DEF n, f
<1>4. f \in Seq(S)
  BY <1>3
<1>5. \A i, j \in 1..n : f[i] = f[j] => i = j
  <2> TAKE i, j \in 1..n
  <2> HAVE f[i] = f[j]
  <2>1. f[i] \in Nat
    BY <1>2, <1>3
  <2>2. ~(i < j) /\ ~(j < i)
    BY <1>3, <2>1
  <2> QED BY <1>3, <2>2
<1> QED BY <1>3, <1>4, <1>5 DEF f, n

\* One draft for each stream of a set.
LEMMA DraftsOf ==
    ASSUME NEW S \in SUBSET Streams, NEW E, \A s \in S : EventOK(E[s]),
           \A s, t \in S : E[s].key = E[t].key => s = t
    PROVE  LET ds == [i \in DOMAIN InOrder(S) |-> E[InOrder(S)[i]]]
           IN  /\ Drafts(ds)
               /\ \A i \in DOMAIN ds : \E s \in S : ds[i] = E[s]
               /\ \A s \in S : \E i \in DOMAIN ds : ds[i] = E[s]
<1> DEFINE f == InOrder(S)
           ds == [i \in DOMAIN f |-> E[f[i]]]
<1>1. /\ DOMAIN f = 1..Cardinality(S) /\ Cardinality(S) \in Nat
      /\ \A i, j \in DOMAIN f : f[i] = f[j] => i = j
      /\ \A s \in S : \E i \in DOMAIN f : f[i] = s
      /\ \A i \in DOMAIN f : f[i] \in S
  BY Listed
<1> HIDE DEF f
<1>2. DOMAIN ds = DOMAIN f /\ \A i \in DOMAIN ds : ds[i] = E[f[i]]
  OBVIOUS
<1>3. ds \in Seq({E[s] : s \in S})
  BY <1>1
<1>4. ds \in Seq(Range(ds))
  BY <1>3, OwnElements
<1> HIDE DEF ds
<1>5. \A i, j \in DOMAIN ds : ds[i].key = ds[j].key => i = j
  BY <1>1, <1>2
<1>6. \A i \in DOMAIN ds : EventOK(ds[i])
  BY <1>1, <1>2
<1>7. Drafts(ds)
  BY <1>4, <1>5, <1>6 DEF Drafts
<1> QED BY <1>1, <1>2, <1>7 DEF ds, f

\* The drafts that finish the open operations.
LEMMA OperationDrafts ==
    ASSUME NEW status
    PROVE  /\ Drafts(OperationAborts(status))
           /\ \A i \in DOMAIN OperationAborts(status) : \E s \in OpenOperations :
                OperationAborts(status)[i] = OperationFinished(s, Unfinished(status))
           /\ \A s \in OpenOperations : \E i \in DOMAIN OperationAborts(status) :
                OperationAborts(status)[i] = OperationFinished(s, Unfinished(status))
<1> DEFINE E == [s \in OpenOperations |-> OperationFinished(s, Unfinished(status))]
<1>1. OpenOperations \in SUBSET Streams
  BY DEF OpenOperations
<1>2. \A s \in OpenOperations : EventOK(E[s])
  BY DEF OperationFinished, Event, EventOK
<1>3. \A s, t \in OpenOperations : E[s].key = E[t].key => s = t
  BY DEF OperationFinished, Event
<1>4. OperationAborts(status) = [i \in DOMAIN InOrder(OpenOperations) |-> E[InOrder(OpenOperations)[i]]]
  BY <1>1, Listed DEF OperationAborts
<1>6. \A s \in OpenOperations : E[s] = OperationFinished(s, Unfinished(status))
  OBVIOUS
<1> HIDE DEF E
<1>5. LET ds == [i \in DOMAIN InOrder(OpenOperations) |-> E[InOrder(OpenOperations)[i]]]
      IN  /\ Drafts(ds)
          /\ \A i \in DOMAIN ds : \E s \in OpenOperations : ds[i] = E[s]
          /\ \A s \in OpenOperations : \E i \in DOMAIN ds : ds[i] = E[s]
  BY <1>1, <1>2, <1>3, DraftsOf
<1> QED BY <1>4, <1>5, <1>6

\* The drafts that abort the open streams.
LEMMA AbortDrafts ==
    /\ Drafts(StreamAborts)
    /\ \A i \in DOMAIN StreamAborts : \E s \in OpenStreams : StreamAborts[i] = StreamEnd(s, "aborted")
    /\ \A s \in OpenStreams : \E i \in DOMAIN StreamAborts : StreamAborts[i] = StreamEnd(s, "aborted")
<1> DEFINE E == [s \in OpenStreams |-> StreamEnd(s, "aborted")]
<1>1. OpenStreams \in SUBSET Streams
  BY DEF OpenStreams
<1>2. \A s \in OpenStreams : EventOK(E[s])
  BY DEF StreamEnd, Event, EventOK
<1>3. \A s, t \in OpenStreams : E[s].key = E[t].key => s = t
  BY DEF StreamEnd, Event
<1>4. StreamAborts = [i \in DOMAIN InOrder(OpenStreams) |-> E[InOrder(OpenStreams)[i]]]
  BY <1>1, Listed DEF StreamAborts
<1>6. \A s \in OpenStreams : E[s] = StreamEnd(s, "aborted")
  OBVIOUS
<1> HIDE DEF E
<1>5. LET ds == [i \in DOMAIN InOrder(OpenStreams) |-> E[InOrder(OpenStreams)[i]]]
      IN  /\ Drafts(ds)
          /\ \A i \in DOMAIN ds : \E s \in OpenStreams : ds[i] = E[s]
          /\ \A s \in OpenStreams : \E i \in DOMAIN ds : ds[i] = E[s]
  BY <1>1, <1>2, <1>3, DraftsOf
<1> QED BY <1>4, <1>5, <1>6

\* Two drafts.
LEMMA TwoDrafts ==
    ASSUME NEW e, NEW f, EventOK(e), EventOK(f), e.key # f.key
    PROVE  Drafts(<<e, f>>) /\ DOMAIN <<e, f>> = {1, 2} /\ <<e, f>>[1] = e /\ <<e, f>>[2] = f
<1>1. <<e, f>> \in Seq({e, f}) /\ DOMAIN <<e, f>> = {1, 2} /\ <<e, f>>[1] = e /\ <<e, f>>[2] = f
  OBVIOUS
<1>2. <<e, f>> \in Seq(Range(<<e, f>>))
  BY <1>1, OwnElements
<1> QED BY <1>1, <1>2 DEF Drafts

\* The answer that a terminal commit publishes, if it does.
FinalDrafts(final) == final = <<>> \/ \E s \in Streams : final = Verbatim(s)

\* The drafts of the answer.
LEMMA AnswerDrafts ==
    ASSUME NEW final, FinalDrafts(final)
    PROVE  /\ Drafts(final)
           /\ \A i \in DOMAIN final : \/ final[i].key[1] = "text"
                                      \/ \E s \in Streams : final[i].key = <<"end", s, "verbatim">>
<1>1. CASE final = <<>>
  <2>1. <<>> \in Seq(Range(<<>>)) /\ DOMAIN <<>> = {}
    BY OwnElements
  <2> QED BY <1>1, <2>1 DEF Drafts
<1>2. ASSUME NEW s \in Streams, final = Verbatim(s)
      PROVE  /\ Drafts(final)
             /\ \A i \in DOMAIN final : \/ final[i].key[1] = "text"
                                        \/ \E t \in Streams : final[i].key = <<"end", t, "verbatim">>
  <2> DEFINE e == Event(<<"text", s, "verbatim">>, s, TRUE, "content")
             f == Event(<<"end", s, "verbatim">>, s, TRUE, "committed")
  <2>1. /\ e.key = <<"text", s, "verbatim">> /\ f.key = <<"end", s, "verbatim">>
        /\ EventOK(e) /\ EventOK(f)
    BY DEF Event, EventOK
  <2>2. final = <<e, f>>
    BY <1>2 DEF Verbatim
  <2> HIDE DEF e, f
  <2>3. e.key # f.key /\ e.key[1] = "text"
    BY <2>1
  <2>4. Drafts(<<e, f>>) /\ DOMAIN <<e, f>> = {1, 2} /\ <<e, f>>[1] = e /\ <<e, f>>[2] = f
    BY <2>1, <2>3, TwoDrafts
  <2> QED BY <2>1, <2>2, <2>3, <2>4
<1> QED BY <1>1, <1>2 DEF FinalDrafts

\* The drafts of a terminal commit.
Terminal(ds, status) ==
    /\ Drafts(ds) /\ ds # <<>> /\ ds[Len(ds)] = Lifecycle(status)
    /\ \A i \in DOMAIN ds : ds[i].key[1] \in {"opEnd", "text", "end", "life"}
    /\ \A i \in DOMAIN ds : ds[i].key[1] = "life" => ds[i] = Lifecycle(status)
    /\ \A i \in DOMAIN ds, s \in Streams : ds[i].key # <<"end", s, "committed">>
    /\ \A i \in DOMAIN ds, s \in Streams : ds[i].key = <<"end", s, "aborted">> => s \in OpenStreams
    /\ \A s \in OpenStreams : \E i \in DOMAIN ds : ds[i].key = <<"end", s, "aborted">>
    /\ \A s \in OpenOperations : \E i \in DOMAIN ds : ds[i].key = <<"opEnd", s>>

\* _prepare_run_lifecycle makes such drafts.
LEMMA TerminalDrafts ==
    ASSUME NEW status, NEW final, FinalDrafts(final)
    PROVE  Terminal(TerminalEvents(status, final), status)
<1> DEFINE a == OperationAborts(status)
           b == StreamAborts
           c == <<Lifecycle(status)>>
           af == a \o final
           afb == af \o b
           all == afb \o c
<1>1. /\ Drafts(a) /\ \A i \in DOMAIN a : \E s \in OpenOperations : a[i].key = <<"opEnd", s>> /\ a[i].key[1] = "opEnd"
      /\ \A s \in OpenOperations : \E i \in DOMAIN a : a[i].key = <<"opEnd", s>>
  BY OperationDrafts DEF OperationFinished, Event
<1>2. /\ Drafts(b)
      /\ \A i \in DOMAIN b : \E s \in OpenStreams : b[i].key = <<"end", s, "aborted">> /\ b[i].key[1] = "end"
      /\ \A s \in OpenStreams : \E i \in DOMAIN b : b[i].key = <<"end", s, "aborted">>
  BY AbortDrafts DEF StreamEnd, Event
<1>3. /\ Drafts(final)
      /\ \A i \in DOMAIN final : \/ final[i].key[1] = "text"
                                 \/ \E s \in Streams : final[i].key = <<"end", s, "verbatim">>
  BY AnswerDrafts
<1>4. EventOK(Lifecycle(status)) /\ Lifecycle(status).key[1] = "life"
  BY DEF Lifecycle, Event, EventOK
<1>5. Drafts(c) /\ DOMAIN c = {1} /\ c[1] = Lifecycle(status) /\ c # <<>> /\ Len(c) = 1
  BY <1>4, OneDraft
<1>6. TerminalEvents(status, final) = all
  BY DEF TerminalEvents
<1>7. \A i \in DOMAIN final : final[i].key[1] \in {"text", "end"}
  BY <1>3
<1> HIDE DEF a, b, c, af, afb, all
<1>8. /\ Drafts(af)
      /\ \A k \in DOMAIN af : (\E i \in DOMAIN a : af[k] = a[i]) \/ (\E i \in DOMAIN final : af[k] = final[i])
      /\ \A i \in DOMAIN a : \E k \in DOMAIN af : af[k] = a[i]
  <2>1. \A i \in DOMAIN a, j \in DOMAIN final : a[i].key # final[j].key
    BY <1>1, <1>7
  <2>2. Drafts(a) /\ Drafts(final) /\ af = a \o final
    BY <1>1, <1>3 DEF af
  <2>3. Drafts(af) /\ Together(a, final, af)
    BY <2>1, <2>2, JoinDrafts
  <2> QED BY <2>3 DEF Together
<1>9. /\ Drafts(afb)
      /\ \A k \in DOMAIN afb : (\E i \in DOMAIN af : afb[k] = af[i]) \/ (\E i \in DOMAIN b : afb[k] = b[i])
      /\ \A i \in DOMAIN af : \E k \in DOMAIN afb : afb[k] = af[i]
      /\ \A i \in DOMAIN b : \E k \in DOMAIN afb : afb[k] = b[i]
  <2>1. ASSUME NEW i \in DOMAIN af, NEW j \in DOMAIN b PROVE af[i].key # b[j].key
    <3>1. PICK s \in OpenStreams : b[j].key = <<"end", s, "aborted">> /\ b[j].key[1] = "end"
      BY <1>2
    <3>2. \A t \in Streams : <<"end", t, "verbatim">> # <<"end", s, "aborted">>
      OBVIOUS
    <3> QED BY <1>1, <1>3, <1>8, <3>1, <3>2
  <2>2. Drafts(af) /\ Drafts(b) /\ afb = af \o b
    BY <1>2, <1>8 DEF afb
  <2>3. Drafts(afb) /\ Together(af, b, afb)
    BY <2>1, <2>2, JoinDrafts
  <2> QED BY <2>3 DEF Together
<1>10. \A k \in DOMAIN afb : afb[k].key[1] \in {"opEnd", "text", "end"}
  BY <1>1, <1>2, <1>7, <1>8, <1>9
<1>11. /\ Drafts(all)
       /\ \A k \in DOMAIN all : (\E i \in DOMAIN afb : all[k] = afb[i]) \/ (\E i \in DOMAIN c : all[k] = c[i])
       /\ \A i \in DOMAIN afb : \E k \in DOMAIN all : all[k] = afb[i]
       /\ all # <<>> /\ all[Len(all)] = c[Len(c)]
  <2>1. \A i \in DOMAIN afb, j \in DOMAIN c : afb[i].key # c[j].key
    BY <1>4, <1>5, <1>10
  <2>2. Drafts(afb) /\ Drafts(c) /\ all = afb \o c /\ c # <<>>
    BY <1>5, <1>9 DEF all
  <2>3. Drafts(all) /\ Together(afb, c, all)
    BY <2>1, <2>2, JoinDrafts
  <2> QED BY <2>2, <2>3 DEF Together
<1>12. /\ \A i \in DOMAIN all : all[i].key[1] \in {"opEnd", "text", "end", "life"}
       /\ \A i \in DOMAIN all : all[i].key[1] = "life" => all[i] = Lifecycle(status)
  BY <1>4, <1>5, <1>10, <1>11
<1>13. ASSUME NEW i \in DOMAIN all, NEW s \in Streams, NEW how \in {"committed", "aborted"},
              all[i].key = <<"end", s, how>>
       PROVE  how = "aborted" /\ s \in OpenStreams
  <2>1. all[i].key[1] = "end" /\ all[i].key[2] = s /\ all[i].key[3] = how
    BY <1>13
  <2>2. PICK k \in DOMAIN afb : all[i] = afb[k]
    BY <1>4, <1>5, <1>11, <2>1
  <2>3. CASE \E j \in DOMAIN b : all[i] = b[j]
    <3>1. PICK t \in OpenStreams : all[i].key = <<"end", t, "aborted">>
      BY <1>2, <2>3
    <3> QED BY <2>1, <3>1
  <2>4. CASE \E j \in DOMAIN af : all[i] = af[j]
    <3>1. PICK j \in DOMAIN final : all[i] = final[j]
      BY <1>1, <1>8, <2>1, <2>4
    <3>2. PICK t \in Streams : all[i].key = <<"end", t, "verbatim">>
      BY <1>3, <2>1, <3>1
    <3> QED BY <2>1, <3>2
  <2> QED BY <1>9, <2>2, <2>3, <2>4
<1>14. \A s \in OpenStreams : \E i \in DOMAIN all : all[i].key = <<"end", s, "aborted">>
  BY <1>2, <1>9, <1>11
<1>15. \A s \in OpenOperations : \E i \in DOMAIN all : all[i].key = <<"opEnd", s>>
  BY <1>1, <1>8, <1>9, <1>11
<1>16. all # <<>> /\ all[Len(all)] = Lifecycle(status)
  BY <1>5, <1>11
<1>17. Terminal(all, status)
  BY <1>11, <1>12, <1>13, <1>14, <1>15, <1>16 DEF Terminal
<1> QED BY <1>6, <1>17

\* A terminal commit settles the Run: its event is the last one, and whatever was open is closed.
LEMMA TerminateKeeps ==
    ASSUME JournalTypeOK, TerminalFence, NEW status \in {"done", "failed", "canceled"},
           NEW final, FinalDrafts(final), NEW ds, ds = TerminalEvents(status, final),
           NEW control, CanTerminate(ds, control), NEW c \in BOOLEAN,
           NEW d, d = Terminated(status, ds),
           db' = [d EXCEPT !.claim = c]
    PROVE  /\ JournalTypeOK' /\ TerminalFence' /\ Grown(db'.log, ds)
           /\ db'.run = status /\ db'.claim = c /\ db'.public = db.public
           /\ db'.stream = [s \in Streams |-> IF db.stream[s] = "open" THEN "aborted" ELSE db.stream[s]]
           /\ \A i \in DOMAIN ds : ds[i].key[1] \in {"opEnd", "text", "end", "life"}
<1> DEFINE a == Appended(ds)
           closed == [s \in Streams |-> IF db.stream[s] = "open" THEN "aborted" ELSE db.stream[s]]
<1>1. /\ Drafts(ds) /\ ds # <<>> /\ ds[Len(ds)] = Lifecycle(status)
      /\ \A i \in DOMAIN ds : ds[i].key[1] \in {"opEnd", "text", "end", "life"}
      /\ \A i \in DOMAIN ds : ds[i].key[1] = "life" => ds[i] = Lifecycle(status)
      /\ \A i \in DOMAIN ds, s \in Streams : ds[i].key # <<"end", s, "committed">>
      /\ \A i \in DOMAIN ds, s \in Streams : ds[i].key = <<"end", s, "aborted">> => s \in OpenStreams
      /\ \A s \in OpenStreams : \E i \in DOMAIN ds : ds[i].key = <<"end", s, "aborted">>
      /\ \A s \in OpenOperations : \E i \in DOMAIN ds : ds[i].key = <<"opEnd", s>>
  <2>1. Terminal(ds, status)
    BY TerminalDrafts
  <2> QED BY <2>1 DEF Terminal
<1>2. db.run = "running" /\ WithinBudget(ds)
  BY DEF CanTerminate
<1>3. Places(Lifecycle(status)) = {}
  <2> SUFFICES ASSUME NEW i \in DOMAIN db.log, db.log[i].key = <<"life", status>>
               PROVE  FALSE
    BY DEF Places, Lifecycle, Event
  <2>1. db.log[i].key[1] = "life" /\ db.log[i].key[2] = status
    OBVIOUS
  <2>2. db.log[i] = Lifecycle(db.log[i].body)
    BY <2>1 DEF JournalTypeOK, EventOK
  <2>3. db.log[i].key[2] = db.log[i].body
    BY <2>2 DEF Lifecycle, Event
  <2>4. CASE i = 1
    <3>1. db.log[i].key[2] = "running"
      BY <2>4 DEF JournalTypeOK, Lifecycle, Event
    <3> QED BY <2>1, <3>1
  <2>5. CASE i # 1
    BY <1>2, <2>1, <2>3, <2>5 DEF TerminalFence
  <2> QED BY <2>4, <2>5
<1>4. /\ JournalState(a) /\ Grown(a.log, ds)
      /\ a.run = db.run /\ a.claim = db.claim /\ a.stream = db.stream /\ a.public = db.public
      /\ a.log[Len(a.log)] = Lifecycle(status)
  <2>1. ds # <<>> /\ Places(ds[Len(ds)]) = {}
    BY <1>1, <1>3
  <2> QED BY <1>1, <1>2, <2>1, Appending
<1>5. d = [a EXCEPT !.run = status, !.stream = closed]
  BY <1>4 DEF Terminated
<1> HIDE DEF a, closed
<1>6. d = [run |-> status, claim |-> db.claim, used |-> a.used, log |-> a.log,
           stream |-> closed, public |-> db.public]
  BY <1>4, <1>5 DEF JournalState
<1>7. db' = [run |-> status, claim |-> c, used |-> a.used, log |-> a.log,
             stream |-> closed, public |-> db.public]
  BY <1>6
<1>8. /\ db'.run = status /\ db'.claim = c /\ db'.used = a.used /\ db'.log = a.log
      /\ db'.stream = closed /\ db'.public = db.public
  BY <1>7
<1>9. Grown(db'.log, ds) /\ LogOK(db'.log, db'.used) /\ db'.log[Len(db'.log)] = Lifecycle(status)
  BY <1>4, <1>8 DEF JournalState
<1>10. \A s \in Streams, how \in {"committed", "aborted"} : Logged(<<"end", s, how>>)' <=> db'.stream[s] = how
  <2> TAKE s \in Streams, how \in {"committed", "aborted"}
  <2>1. Logged(<<"end", s, how>>)' <=> Logged(<<"end", s, how>>) \/ (how = "aborted" /\ s \in OpenStreams)
    <3>1. (\E j \in DOMAIN ds : ds[j].key = <<"end", s, how>>) <=> how = "aborted" /\ s \in OpenStreams
      BY <1>1
    <3> QED BY <1>9, <3>1, LoggedGrows
  <2>2. Logged(<<"end", s, how>>) <=> db.stream[s] = how
    BY DEF JournalTypeOK
  <2>3. db'.stream[s] = IF db.stream[s] = "open" THEN "aborted" ELSE db.stream[s]
    BY <1>8 DEF closed
  <2>4. s \in OpenStreams <=> db.stream[s] = "open"
    BY DEF OpenStreams
  <2> QED BY <2>1, <2>2, <2>3, <2>4
<1>11. /\ db' = [run |-> db'.run, claim |-> db'.claim, used |-> db'.used, log |-> db'.log,
                stream |-> db'.stream, public |-> db'.public]
       /\ db'.stream \in [Streams -> {"none", "open", "committed", "aborted"}]
       /\ db'.public \in [Streams -> BOOLEAN]
  <2>1. closed \in [Streams -> {"none", "open", "committed", "aborted"}]
    BY DEF closed, JournalTypeOK
  <2> QED BY <1>7, <1>8, <2>1 DEF JournalTypeOK
<1>12. JournalTypeOK'
  BY <1>8, <1>9, <1>10, <1>11 DEF JournalTypeOK, LogOK
<1>13. OpenStreams' = {}
  BY <1>8 DEF OpenStreams, closed
<1>14. OpenOperations' = {}
  <2> SUFFICES ASSUME NEW s \in Streams, Logged(<<"opStart", s>>)', ~Logged(<<"opEnd", s>>)'
               PROVE  FALSE
    BY DEF OpenOperations
  <2>1. \A i \in DOMAIN ds : ds[i].key # <<"opStart", s>>
    BY <1>1
  <2>2. Logged(<<"opStart", s>>) /\ ~Logged(<<"opEnd", s>>)
    BY <1>9, <2>1, LoggedGrows
  <2>3. s \in OpenOperations
    BY <2>2 DEF OpenOperations
  <2>4. \E i \in DOMAIN ds : ds[i].key = <<"opEnd", s>>
    BY <1>1, <2>3
  <2> QED BY <1>9, <2>4, LoggedGrows
<1>15. ASSUME NEW i \in DOMAIN db'.log \ {1}, db'.log[i].key[1] = "life"
       PROVE  db'.log[i].body = status
  <2>1. CASE i \in DOMAIN db.log
    <3>1. db'.log[i] = db.log[i] /\ db.log[i].body = "running"
      BY <1>2, <1>9, <1>15, <2>1 DEF Grown, TerminalFence
    <3>2. db.log[i] = Lifecycle("running")
      BY <1>15, <2>1, <3>1 DEF JournalTypeOK, EventOK
    <3>3. 1 \in DOMAIN db.log /\ db.log[1] = Lifecycle("running")
      <4>1. db.log \in Seq(Range(db.log)) /\ db.log # <<>>
        BY DEF JournalTypeOK
      <4> QED BY <4>1 DEF JournalTypeOK
    <3>4. i = 1
      BY <2>1, <3>2, <3>3 DEF JournalTypeOK
    <3> QED BY <1>15, <3>4
  <2>2. CASE i \notin DOMAIN db.log
    <3>1. PICK j \in DOMAIN ds : db'.log[i] = ds[j]
      BY <1>9, <2>2 DEF Grown
    <3>2. db'.log[i] = Lifecycle(status)
      BY <1>1, <1>15, <3>1
    <3> QED BY <3>2 DEF Lifecycle, Event
  <2> QED BY <2>1, <2>2
<1>16. TerminalFence'
  BY <1>8, <1>9, <1>13, <1>14, <1>15 DEF TerminalFence
<1> QED BY <1>1, <1>8, <1>9, <1>12, <1>16 DEF closed

-----------------------------------------------------------------------------
(* The content of a stream.                                                *)

\* A stream of which no batch is written keeps its content.
Untouched(s) ==
    /\ Exact(s)' <=> Exact(s)
    /\ Complete(s)' <=> Complete(s)
    /\ buf'[s] = buf[s] => (Pending(s)' <=> Pending(s))

\* An append leaves a stream alone when none of its batches is of that stream.
LEMMA OtherContent ==
    ASSUME NEW s \in Streams, NEW ds, Grown(db'.log, ds),
           \A i \in DOMAIN ds : ds[i].key[1] = "batch" => ds[i].stream # s,
           sent'[s] = sent[s], db'.public[s] = db.public[s]
    PROVE  Untouched(s)
<1>1. ASSUME NEW pub \in BOOLEAN
      PROVE  /\ Batches(s, pub)' = Batches(s, pub)
             /\ \A i \in Batches(s, pub) : db'.log[i] = db.log[i]
  BY DEF Grown, Batches
<1>2. ASSUME NEW pub \in BOOLEAN, NEW c
      PROVE  Journaled(s, pub, c)' <=> Journaled(s, pub, c)
  BY <1>1 DEF Journaled
<1>3. ASSUME NEW pub \in BOOLEAN
      PROVE  Deltas(s, pub)' = Deltas(s, pub)
  BY DEF Deltas, Shown
<1>4. ASSUME NEW c
      PROVE  Delta(s, c)' = Delta(s, c)
  BY DEF Delta
<1>5. Exact(s)' <=> Exact(s)
  BY <1>1, <1>2, <1>3, <1>4 DEF Exact
<1>6. Complete(s)' <=> Complete(s)
  BY <1>2, <1>3 DEF Complete
<1>7. buf'[s] = buf[s] => (Pending(s)' <=> Pending(s))
  <2> HAVE buf'[s] = buf[s]
  <2> QED BY <1>2, <1>3, <1>4 DEF Pending
<1> QED BY <1>5, <1>6, <1>7 DEF Untouched

\* The journal has the source of a projection.
Sourced(e) ==
    \E j \in DOMAIN db.log : /\ db.log[j].key[1] = "batch"
                             /\ db.log[j].stream = e.stream /\ ~db.log[j].pub
                             /\ \E k \in DOMAIN db.log[j].body :
                                  db.log[j].body[k] = [c |-> e.body, part |-> "progress"]

\* Projections whose sources are there keep their order.
LEMMA ProjectionsFollow ==
    ASSUME JournalTypeOK, JournalTypeOK', ProjectionAfterSource, NEW ds, Grown(db'.log, ds),
           \A i \in DOMAIN ds : ds[i].key[1] = "progress" => Sourced(ds[i])
    PROVE  ProjectionAfterSource'
<1>1. DOMAIN db.log = 1..Len(db.log) /\ Len(db.log) \in Nat
  BY OwnState DEF JournalState, LogOK
<1>2. DOMAIN db'.log = 1..Len(db'.log) /\ Len(db'.log) \in Nat
  <2>1. db'.log \in Seq(Range(db'.log))
    BY DEF JournalTypeOK
  <2> QED BY <2>1
<1>3. \A j \in DOMAIN db.log : db'.log[j] = db.log[j]
  BY DEF Grown
<1> SUFFICES ASSUME NEW i \in DOMAIN db'.log, db'.log[i].key[1] = "progress"
             PROVE  \E j \in 1..i :
                      /\ db'.log[j].key[1] = "batch"
                      /\ db'.log[j].stream = db'.log[i].stream /\ ~db'.log[j].pub
                      /\ \E k \in DOMAIN db'.log[j].body :
                           db'.log[j].body[k] = [c |-> db'.log[i].body, part |-> "progress"]
  BY DEF ProjectionAfterSource
<1>4. CASE i \in DOMAIN db.log
  <2>1. \A j \in 1..i : j \in DOMAIN db.log
    BY <1>1, <1>4
  <2> QED BY <1>3, <1>4, <2>1 DEF ProjectionAfterSource
<1>5. CASE i \notin DOMAIN db.log
  <2>1. PICK m \in DOMAIN ds : db'.log[i] = ds[m]
    BY <1>5 DEF Grown
  <2>2. Sourced(db'.log[i])
    BY <2>1
  <2>3. \A j \in DOMAIN db.log : j \in 1..i
    BY <1>1, <1>2, <1>5
  <2> QED BY <1>3, <2>2, <2>3 DEF Sourced
<1> QED BY <1>4, <1>5

\* The content after a step that writes no batch.
LEMMA ContentKept ==
    ASSUME JournalTypeOK, JournalTypeOK', ContentExact, ProjectionAfterSource, NEW ds, Grown(db'.log, ds),
           \A i \in DOMAIN ds : ds[i].key[1] # "batch",
           \A i \in DOMAIN ds : ds[i].key[1] = "progress" => Sourced(ds[i]),
           sent' = sent, db'.public = db.public,
           \A s \in Streams : db'.stream[s] = "committed" => db.stream[s] = "committed" \/ Complete(s),
           \A s \in Streams : held'[s] => held[s] /\ buf'[s] = buf[s]
    PROVE  ContentExact' /\ ProjectionAfterSource'
<1>1. \A s \in Streams : Untouched(s)
  BY OtherContent
<1>2. ProjectionAfterSource'
  BY ProjectionsFollow
<1>3. ASSUME NEW s \in Streams
      PROVE  /\ Exact(s)' /\ (db'.stream[s] = "committed" => Complete(s)')
             /\ (held'[s] => Pending(s)')
  BY <1>1 DEF ContentExact, Untouched
<1> QED BY <1>2, <1>3 DEF ContentExact

\* An event with the entries of one visibility.
BatchOf(e, s, pub, es) ==
    /\ EventOK(e) /\ e.key[1] = "batch" /\ e.stream = s /\ e.pub = pub
    /\ \A k \in DOMAIN e.body : \E i \in DOMAIN es : e.body[k] = es[i] /\ Shown(s, es[i].part) = pub
    /\ \A i \in DOMAIN es : Shown(s, es[i].part) = pub => \E k \in DOMAIN e.body : e.body[k] = es[i]
    /\ \A k, l \in DOMAIN e.body : l < k => e.body[l].c < e.body[k].c

\* _batch_drafts makes at most one such event.
LEMMA OneBatch ==
    ASSUME NEW s \in Streams, NEW pub \in BOOLEAN, NEW es \in Seq(Entries),
           \A k, l \in DOMAIN es : l < k => es[l].c < es[k].c
    PROVE  \/ /\ Draft(s, pub, es) = <<>>
              /\ \A i \in DOMAIN es : Shown(s, es[i].part) # pub
           \/ \E e : Draft(s, pub, es) = <<e>> /\ BatchOf(e, s, pub, es)
<1> DEFINE S == {k \in DOMAIN es : Shown(s, es[k].part) = pub}
           mine == At(es, S)
           n == Cardinality(S)
           e == Event(<<"batch", s, pub, mine[1].c, mine[Len(mine)].c>>, s, pub, mine)
<1>1. \A i \in DOMAIN es : i \in S <=> Shown(s, es[i].part) = pub
  OBVIOUS
<1>2. S \in SUBSET (DOMAIN es) /\ DOMAIN es = 1..Len(es) /\ Len(es) \in Nat
  OBVIOUS
<1>3. Draft(s, pub, es) = IF mine = <<>> THEN <<>> ELSE <<e>>
  BY DEF Draft
<1> HIDE DEF S
<1>4. /\ mine \in Seq(Entries) /\ n \in Nat /\ Len(mine) = n
      /\ \E f \in [1..n -> S] :
           /\ \A k \in 1..n : mine[k] = es[f[k]]
           /\ \A k, l \in 1..n : k < l => f[k] < f[l]
           /\ \A x \in S : \E k \in 1..n : f[k] = x
  BY <1>2, Picked
<1> HIDE DEF mine, n
<1>5. PICK f \in [1..n -> S] : /\ \A k \in 1..n : mine[k] = es[f[k]]
                               /\ \A k, l \in 1..n : k < l => f[k] < f[l]
                               /\ \A x \in S : \E k \in 1..n : f[k] = x
  BY <1>4
<1>6. DOMAIN mine = 1..n
  BY <1>4
<1>7. CASE mine = <<>>
  <2>1. n = 0
    BY <1>4, <1>7
  <2>2. S = {}
    BY <1>5, <2>1
  <2> QED BY <1>1, <1>3, <1>7, <2>2
<1>8. CASE mine # <<>>
  <2>1. Len(mine) > 0
    BY <1>4, <1>8
  <2>2. /\ e.key = <<"batch", s, pub, mine[1].c, mine[Len(mine)].c>> /\ e.stream = s /\ e.pub = pub
        /\ e.body = mine /\ e = Event(e.key, e.stream, e.pub, e.body)
    BY DEF Event
  <2> HIDE DEF e
  <2>3. e.key[1] = "batch"
    BY <2>2
  <2>4. EventOK(e)
    BY <1>4, <1>6, <2>1, <2>2, <2>3 DEF EventOK
  <2>5. \A k \in DOMAIN e.body : \E i \in DOMAIN es : e.body[k] = es[i] /\ Shown(s, es[i].part) = pub
    BY <1>1, <1>2, <1>5, <1>6, <2>2
  <2>6. \A i \in DOMAIN es : Shown(s, es[i].part) = pub => \E k \in DOMAIN e.body : e.body[k] = es[i]
    BY <1>1, <1>5, <1>6, <2>2
  <2>7. \A k, l \in DOMAIN e.body : l < k => e.body[l].c < e.body[k].c
    <3> TAKE k, l \in DOMAIN e.body
    <3> HAVE l < k
    <3>1. k \in 1..n /\ l \in 1..n /\ f[k] \in DOMAIN es /\ f[l] \in DOMAIN es /\ f[l] < f[k]
      BY <1>2, <1>5, <1>6, <2>2
    <3> QED BY <1>5, <2>2, <3>1
  <2>8. BatchOf(e, s, pub, es)
    BY <2>2, <2>3, <2>4, <2>5, <2>6, <2>7 DEF BatchOf
  <2> QED BY <1>3, <1>8, <2>8
<1> QED BY <1>7, <1>8

\* The drafts of a flush.
Flushes(ds, s, es) ==
    /\ Drafts(ds) /\ ds # <<>>
    /\ \A i \in DOMAIN ds : ds[i].pub \in BOOLEAN /\ BatchOf(ds[i], s, ds[i].pub, es)
    /\ \A i \in DOMAIN es : \E j \in DOMAIN ds : ds[j].pub = Shown(s, es[i].part)
    /\ \A i, j \in DOMAIN ds : ds[i].pub = ds[j].pub => i = j

\* _batch_drafts makes such drafts of any entries in the order of their chunks.
LEMMA FlushDrafts ==
    ASSUME JournalTypeOK, NEW s \in Streams, NEW es \in Seq(Entries), es # <<>>,
           \A k, l \in DOMAIN es : l < k => es[l].c < es[k].c
    PROVE  Flushes(BatchDrafts(s, es), s, es)
<1>1. 1 \in DOMAIN es /\ \A i \in DOMAIN es : Shown(s, es[i].part) \in BOOLEAN
  BY DEF Shown, JournalTypeOK
<1>2. PICK first \in BOOLEAN : first = Shown(s, es[1].part)
  BY <1>1
<1>8. PICK other \in BOOLEAN : other = ~first
  OBVIOUS
<1>3. BatchDrafts(s, es) = Draft(s, first, es) \o Draft(s, other, es)
  BY <1>2, <1>8 DEF BatchDrafts
<1>4. PICK e : Draft(s, first, es) = <<e>> /\ BatchOf(e, s, first, es)
  BY <1>1, <1>2, OneBatch
<1>5. EventOK(e) /\ e.pub = first
  BY <1>4 DEF BatchOf
<1>6. CASE Draft(s, other, es) = <<>> /\ \A i \in DOMAIN es : Shown(s, es[i].part) # other
  <2>1. BatchDrafts(s, es) = <<e>>
    <3>1. <<e>> \in Seq({e})
      OBVIOUS
    <3>2. <<e>> \o <<>> = <<e>>
      BY <3>1
    <3> QED BY <1>3, <1>4, <1>6, <3>2
  <2>2. Drafts(<<e>>) /\ DOMAIN <<e>> = {1} /\ <<e>>[1] = e /\ <<e>> # <<>>
    BY <1>5, OneDraft
  <2>3. \A i \in DOMAIN es : Shown(s, es[i].part) = first
    BY <1>1, <1>2, <1>6, <1>8
  <2> QED BY <1>4, <1>5, <2>1, <2>2, <2>3 DEF Flushes
<1>7. CASE \E f : Draft(s, other, es) = <<f>> /\ BatchOf(f, s, other, es)
  <2>1. PICK f : Draft(s, other, es) = <<f>> /\ BatchOf(f, s, other, es)
    BY <1>7
  <2>2. BatchDrafts(s, es) = <<e, f>>
    <3>1. <<e>> \o <<f>> = <<e, f>>
      <4>1. <<e>> \in Seq({e, f}) /\ <<f>> \in Seq({e, f}) /\ Len(<<e>>) = 1 /\ Len(<<f>>) = 1
        OBVIOUS
      <4>2. <<e>> \o <<f>> = [i \in 1..2 |-> IF i = 1 THEN e ELSE f]
        BY <4>1
      <4>3. <<e, f>> = [i \in 1..2 |-> IF i = 1 THEN e ELSE f]
        OBVIOUS
      <4> QED BY <4>2, <4>3
    <3> QED BY <1>3, <1>4, <2>1, <3>1
  <2>3. EventOK(f) /\ f.pub = other /\ f.pub # e.pub
    BY <1>5, <1>8, <2>1 DEF BatchOf
  <2>4. e.key # f.key
    <3>1. e.key[3] = e.pub /\ f.key[3] = f.pub
      <4>1. \A g \in {e, f} : g.key[1] = "batch" /\ EventOK(g)
        BY <1>4, <2>1 DEF BatchOf
      <4>2. \A g \in {e, f} : g.key = <<"batch", g.stream, g.pub, g.body[1].c, g.body[Len(g.body)].c>>
        BY <4>1 DEF EventOK
      <4>3. \A a, b, x, y, z : <<a, b, x, y, z>>[3] = x
        OBVIOUS
      <4> QED BY <4>2, <4>3
    <3> QED BY <2>3, <3>1
  <2>5. Drafts(<<e, f>>) /\ DOMAIN <<e, f>> = {1, 2} /\ <<e, f>>[1] = e /\ <<e, f>>[2] = f
    BY <1>5, <2>3, <2>4, TwoDrafts
  <2> DEFINE ds == <<e, f>>
  <2> HIDE DEF ds
  <2>6. Drafts(ds) /\ DOMAIN ds = {1, 2} /\ ds[1] = e /\ ds[2] = f /\ ds # <<>>
    BY <2>5 DEF ds
  <2>7. \A i \in DOMAIN ds : ds[i].pub \in BOOLEAN /\ BatchOf(ds[i], s, ds[i].pub, es)
    <3>1. e.pub \in BOOLEAN /\ f.pub \in BOOLEAN
      BY <1>5, <2>3
    <3>2. BatchOf(e, s, e.pub, es) /\ BatchOf(f, s, f.pub, es)
      BY <1>4, <1>5, <2>1, <2>3
    <3> QED BY <2>6, <3>1, <3>2
  <2>8. \A i \in DOMAIN es : Shown(s, es[i].part) \in {e.pub, f.pub}
    BY <1>1, <1>5, <1>8, <2>3
  <2>9. Flushes(ds, s, es)
    BY <2>3, <2>6, <2>7, <2>8 DEF Flushes
  <2> QED BY <2>2, <2>9 DEF ds
<1> QED BY <1>6, <1>7, <1>8, OneBatch

\* What a flush writes is new: its first chunk is later than everything in the journal.
LEMMA FlushIsNew ==
    ASSUME JournalTypeOK, NEW s \in Streams, sent[s] \in Seq(Kinds), Exact(s), Pending(s),
           NEW ds, Flushes(ds, s, buf[s])
    PROVE  \A j \in DOMAIN ds : Places(ds[j]) = {}
<1> SUFFICES ASSUME NEW j \in DOMAIN ds, NEW i \in DOMAIN db.log, db.log[i].key = ds[j].key
             PROVE  FALSE
  BY DEF Places
<1> DEFINE e == ds[j]
           g == db.log[i]
<1>1. /\ e.pub \in BOOLEAN /\ EventOK(e) /\ e.key[1] = "batch" /\ e.stream = s
      /\ \A k \in DOMAIN e.body : \E m \in DOMAIN buf[s] :
           e.body[k] = buf[s][m] /\ Shown(s, buf[s][m].part) = e.pub
  BY DEF Flushes, BatchOf
<1>2. EventOK(g) /\ g.key[1] = "batch" /\ g.key = e.key
  BY <1>1 DEF JournalTypeOK
<1> HIDE DEF e, g
<1>3. ASSUME NEW x, EventOK(x), x.key[1] = "batch"
      PROVE  /\ x.key[2] = x.stream /\ x.key[3] = x.pub /\ x.key[4] = x.body[1].c
             /\ 1 \in DOMAIN x.body
  <2>1. /\ x.key = <<"batch", x.stream, x.pub, x.body[1].c, x.body[Len(x.body)].c>>
        /\ Len(x.body) > 0 /\ DOMAIN x.body = 1..Len(x.body)
    BY <1>3 DEF EventOK
  <2>2. \A a, b, u, y, z : <<a, b, u, y, z>>[2] = b /\ <<a, b, u, y, z>>[3] = u /\ <<a, b, u, y, z>>[4] = y
    OBVIOUS
  <2> QED BY <2>1, <2>2
<1>4. g.stream = s /\ g.pub = e.pub /\ g.body[1].c = e.body[1].c /\ 1 \in DOMAIN g.body /\ 1 \in DOMAIN e.body
  BY <1>1, <1>2, <1>3
<1>5. PICK m \in DOMAIN buf[s] : e.body[1] = buf[s][m]
  BY <1>1, <1>4
<1>6. i \in Batches(s, e.pub)
  BY <1>2, <1>4 DEF Batches, g
<1>7. g.body[1].c \in Deltas(s, e.pub) /\ Journaled(s, e.pub, g.body[1].c)
  BY <1>1, <1>4, <1>6 DEF Exact, Journaled, g
<1>8. g.body[1].c < buf[s][m].c
  BY <1>1, <1>7 DEF Pending
<1>9. g.body[1].c \in Nat
  <2>1. g.body[1].c \in DOMAIN sent[s]
    BY <1>7 DEF Deltas
  <2> QED BY <2>1
<1> QED BY <1>4, <1>5, <1>8, <1>9

\* After a flush the journal holds everything that was accepted.
LEMMA FlushedContent ==
    ASSUME JournalTypeOK, JournalTypeOK', NEW s \in Streams, sent[s] \in Seq(Kinds), Exact(s), Pending(s),
           NEW ds, Flushes(ds, s, buf[s]), Grown(db'.log, ds),
           sent' = sent, db'.public = db.public, buf'[s] = <<>>
    PROVE  Exact(s)' /\ Complete(s)' /\ Pending(s)'
<1>1. \A j \in DOMAIN ds : Places(ds[j]) = {}
  BY FlushIsNew
<1>2. /\ \A j \in DOMAIN ds : /\ ds[j].pub \in BOOLEAN /\ ds[j].key[1] = "batch" /\ ds[j].stream = s
      /\ \A i, j \in DOMAIN ds : ds[i].pub = ds[j].pub => i = j
      /\ \A i \in DOMAIN buf[s] : \E j \in DOMAIN ds : ds[j].pub = Shown(s, buf[s][i].part)
  BY DEF Flushes, BatchOf
<1>3. \A j \in DOMAIN ds :
        /\ \A k \in DOMAIN ds[j].body : \E i \in DOMAIN buf[s] :
             ds[j].body[k] = buf[s][i] /\ Shown(s, buf[s][i].part) = ds[j].pub
        /\ \A i \in DOMAIN buf[s] : Shown(s, buf[s][i].part) = ds[j].pub =>
             \E k \in DOMAIN ds[j].body : ds[j].body[k] = buf[s][i]
        /\ \A k, l \in DOMAIN ds[j].body : l < k => ds[j].body[l].c < ds[j].body[k].c
  BY DEF Flushes, BatchOf
<1>4. /\ \A i \in DOMAIN db.log : i \in DOMAIN db'.log /\ db'.log[i] = db.log[i]
      /\ \A i \in DOMAIN db'.log : i \notin DOMAIN db.log => \E j \in DOMAIN ds : db'.log[i] = ds[j]
      /\ \A j \in DOMAIN ds : \E i \in DOMAIN db'.log : db'.log[i] = ds[j] /\ i \notin DOMAIN db.log
  BY <1>1 DEF Grown
<1>5. \A i, j \in DOMAIN db'.log : db'.log[i] = db'.log[j] => i = j
  BY DEF JournalTypeOK
<1>6. \A i \in DOMAIN db.log, j \in DOMAIN db'.log : j \notin DOMAIN db.log => i < j
  <2>1. db.log \in Seq(Range(db.log)) /\ db'.log \in Seq(Range(db'.log))
    BY DEF JournalTypeOK
  <2>2. /\ DOMAIN db.log = 1..Len(db.log) /\ Len(db.log) \in Nat
        /\ DOMAIN db'.log = 1..Len(db'.log) /\ Len(db'.log) \in Nat
    BY <2>1
  <2> QED BY <2>2
<1>7. ASSUME NEW pub \in BOOLEAN
      PROVE  Deltas(s, pub)' = Deltas(s, pub)
  BY DEF Deltas, Shown
<1>8. ASSUME NEW c
      PROVE  Delta(s, c)' = Delta(s, c)
  BY DEF Delta
<1>9. ASSUME NEW pub \in BOOLEAN, NEW i
      PROVE  /\ i \in Batches(s, pub) => i \in Batches(s, pub)' /\ db'.log[i] = db.log[i] /\ i \in DOMAIN db.log
             /\ i \in Batches(s, pub)' => i \in DOMAIN db'.log
             /\ i \in Batches(s, pub)' /\ i \in DOMAIN db.log => i \in Batches(s, pub)
             /\ i \in Batches(s, pub)' /\ i \notin DOMAIN db.log =>
                  \E j \in DOMAIN ds : db'.log[i] = ds[j] /\ ds[j].pub = pub
  BY <1>4 DEF Batches
<1>10. ASSUME NEW pub \in BOOLEAN, NEW c, Journaled(s, pub, c)
       PROVE  Journaled(s, pub, c)'
  BY <1>9, <1>10 DEF Journaled
<1>11. ASSUME NEW m \in DOMAIN buf[s], NEW pub \in BOOLEAN, pub = Shown(s, buf[s][m].part),
              NEW c, c = buf[s][m].c
       PROVE  Journaled(s, pub, c)'
  <2>1. PICK j \in DOMAIN ds : ds[j].pub = pub
    BY <1>2, <1>11
  <2>2. PICK k \in DOMAIN ds[j].body : ds[j].body[k] = buf[s][m]
    <3>1. Shown(s, buf[s][m].part) = ds[j].pub
      BY <1>11, <2>1
    <3> QED BY <1>3, <3>1
  <2>3. PICK i \in DOMAIN db'.log : db'.log[i] = ds[j]
    BY <1>4
  <2>4. i \in Batches(s, pub)'
    BY <1>2, <2>1, <2>3 DEF Batches
  <2> QED BY <1>11, <2>2, <2>3, <2>4 DEF Journaled
<1>12. ASSUME NEW m \in DOMAIN buf[s], NEW pub \in BOOLEAN, pub = Shown(s, buf[s][m].part)
       PROVE  buf[s][m].c \in Deltas(s, pub) /\ buf[s][m] = Delta(s, buf[s][m].c)
  <2>1. /\ buf[s][m].c \in DOMAIN sent[s] /\ sent[s][buf[s][m].c] \notin Finishing
        /\ buf[s][m] = Delta(s, buf[s][m].c)
    BY DEF Pending
  <2>2. buf[s][m].part = Part(sent[s][buf[s][m].c])
    BY <2>1 DEF Delta
  <2> QED BY <1>12, <2>1, <2>2 DEF Deltas
<1>13. ASSUME NEW pub \in BOOLEAN, NEW c \in Deltas(s, pub)
       PROVE  Journaled(s, pub, c)'
  <2>1. CASE Journaled(s, pub, c)
    BY <1>10, <2>1
  <2>2. CASE ~Journaled(s, pub, c)
    <3>1. PICK m \in DOMAIN buf[s] : buf[s][m].c = c
      BY <2>2 DEF Pending
    <3>2. buf[s][m] = Delta(s, c)
      BY <3>1 DEF Pending
    <3>3. buf[s][m].part = Part(sent[s][c]) /\ Shown(s, Part(sent[s][c])) = pub
      BY <3>2 DEF Delta, Deltas
    <3>4. pub = Shown(s, buf[s][m].part)
      BY <3>3
    <3> QED BY <1>11, <3>1, <3>4
  <2> QED BY <2>1, <2>2
<1>14. Complete(s)'
  BY <1>7, <1>13 DEF Complete
<1>15. ASSUME NEW pub \in BOOLEAN, NEW i \in Batches(s, pub)', NEW k \in DOMAIN db'.log[i].body
       PROVE  LET e == db'.log[i].body[k]
              IN  /\ e.c \in Deltas(s, pub) /\ e = Delta(s, e.c)
                  /\ \A j \in Batches(s, pub)' : \A l \in DOMAIN db'.log[j].body :
                       j < i \/ (j = i /\ l < k) => db'.log[j].body[l].c < e.c
  <2>1. CASE i \in DOMAIN db.log
    <3>1. i \in Batches(s, pub) /\ db'.log[i] = db.log[i]
      BY <1>9, <2>1
    <3>2. \A j \in Batches(s, pub)' : j \in DOMAIN db.log \/ (~(j < i) /\ j # i)
      <4>1. \A j \in Batches(s, pub)' : j \in DOMAIN db'.log
        BY <1>9
      <4>2. DOMAIN db'.log \subseteq Nat
        <5>1. db'.log \in Seq(Range(db'.log))
          BY DEF JournalTypeOK
        <5> QED BY <5>1
      <4>3. i \in Nat
        BY <1>4, <2>1, <4>2
      <4> QED BY <1>6, <2>1, <4>1, <4>2, <4>3
    <3>3. \A j \in Batches(s, pub)' : j \in DOMAIN db.log => j \in Batches(s, pub) /\ db'.log[j] = db.log[j]
      BY <1>9
    <3> QED BY <3>1, <3>2, <3>3 DEF Exact
  <2>2. CASE i \notin DOMAIN db.log
    <3>1. PICK j \in DOMAIN ds : db'.log[i] = ds[j] /\ ds[j].pub = pub
      BY <1>9, <2>2
    <3>2. PICK m \in DOMAIN buf[s] : db'.log[i].body[k] = buf[s][m] /\ Shown(s, buf[s][m].part) = pub
      BY <1>3, <3>1
    <3>3. buf[s][m].c \in Deltas(s, pub) /\ buf[s][m] = Delta(s, buf[s][m].c)
      BY <1>12, <3>2
    <3>4. ASSUME NEW h \in Batches(s, pub)', NEW l \in DOMAIN db'.log[h].body, h < i \/ (h = i /\ l < k)
          PROVE  db'.log[h].body[l].c < buf[s][m].c
      <4>1. CASE h \in DOMAIN db.log
        <5>1. h \in Batches(s, pub) /\ db'.log[h] = db.log[h]
          BY <1>9, <4>1
        <5>2. db.log[h].body[l].c \in Deltas(s, pub) /\ Journaled(s, pub, db.log[h].body[l].c)
          BY <5>1 DEF Exact, Journaled
        <5> QED BY <5>1, <5>2 DEF Pending
      <4>2. CASE h \notin DOMAIN db.log
        <5>1. PICK g \in DOMAIN ds : db'.log[h] = ds[g] /\ ds[g].pub = pub
          BY <1>9, <4>2
        <5>2. g = j /\ h \in DOMAIN db'.log /\ i \in DOMAIN db'.log
          BY <1>2, <1>9, <3>1, <5>1
        <5>3. h = i
          BY <1>5, <3>1, <5>1, <5>2
        <5>4. i \in Nat
          <6>1. db'.log \in Seq(Range(db'.log))
            BY DEF JournalTypeOK
          <6> QED BY <5>2, <6>1
        <5>5. l < k
          BY <3>4, <5>3, <5>4
        <5> QED BY <1>3, <3>1, <3>2, <5>3, <5>5
      <4> QED BY <4>1, <4>2
    <3> QED BY <3>2, <3>3, <3>4
  <2> QED BY <2>1, <2>2
<1>16. Exact(s)'
  BY <1>7, <1>8, <1>13, <1>15 DEF Exact
<1>17. Pending(s)'
  BY <1>14 DEF Pending, Complete
<1> QED BY <1>14, <1>16, <1>17

-----------------------------------------------------------------------------
(* Steps.                                                                  *)

\* The inductive invariant.
StreamCore == JournalInv /\ InvocationSettled

\* The journal's promises after a step.
JournalKept ==
    /\ JournalTypeOK' /\ TerminalFence' /\ ContentExact' /\ ProjectionAfterSource'
    /\ Len(db.log) \in Nat /\ Len(db'.log) \in Nat /\ Len(db.log) =< Len(db'.log)

\* What the stages of an invocation know of the journal is as it was.
SameOperations ==
    /\ \A s \in Streams : /\ Logged(<<"opStart", s>>)' <=> Logged(<<"opStart", s>>)
                          /\ Logged(<<"opEnd", s>>)' <=> Logged(<<"opEnd", s>>)
    /\ OpenOperations' = OpenOperations

SameRecords ==
    /\ db'.run = db.run /\ db'.claim = db.claim /\ db'.stream = db.stream
    /\ SameOperations

\* A step that leaves the journal alone.
LEMMA StillJournal ==
    ASSUME StreamCore, db' = db, sent' = sent,
           \A s \in Streams : held'[s] => held[s] /\ buf'[s] = buf[s]
    PROVE  JournalKept /\ SameRecords
<1>1. JournalTypeOK /\ TerminalFence /\ ContentExact /\ ProjectionAfterSource
  BY DEF StreamCore, JournalInv, StreamTypeOK
<1>2. JournalTypeOK' /\ TerminalFence'
  <2>1. \A key : Logged(key)' <=> Logged(key)
    BY DEF Logged
  <2>2. OpenStreams' = OpenStreams /\ OpenOperations' = OpenOperations
    BY <2>1 DEF OpenStreams, OpenOperations
  <2>3. \A e : EventOK(e)' <=> EventOK(e)
    BY DEF EventOK
  <2> QED BY <1>1, <2>1, <2>2, <2>3 DEF JournalTypeOK, TerminalFence
<1>3. Grown(db'.log, <<>>)
  BY DEF Grown
<1>4. ContentExact' /\ ProjectionAfterSource'
  BY <1>1, <1>2, <1>3, ContentKept
<1>5. Len(db.log) \in Nat
  BY <1>1, OwnState DEF JournalState, LogOK
<1>6. SameRecords
  BY DEF SameRecords, SameOperations, Logged, OpenOperations
<1> QED BY <1>2, <1>4, <1>5, <1>6 DEF JournalKept

\* Subscribers that do not move stay behind the journal.
LEMMA ListenersWait ==
    ASSUME StreamCore, JournalKept, sub' = sub, done' = done, pc = "ended" => pc' = "ended"
    PROVE  SubscriberComplete' /\ SubscribersFollow'
<1>1. SubscriberComplete /\ SubscribersFollow /\ done \in Nat
  BY DEF StreamCore, JournalInv, StreamTypeOK, ProducerTypeOK
<1>2. SubscriberComplete'
  BY <1>1 DEF SubscriberComplete
<1>3. SubscribersFollow'
  <2>1. done =< Len(db'.log) /\ \A w \in Subscribers : sub[w].cursor =< Len(db'.log)
    BY <1>1 DEF JournalKept, SubscribersFollow
  <2> QED BY <1>1, <2>1 DEF SubscribersFollow
<1> QED BY <1>2, <1>3

\* The parts make the whole.
LEMMA CoreHolds ==
    ASSUME JournalKept, ProducerTypeOK', StreamInStage', AttemptInStage', BufferInStage',
           InvocationSettled', SubscriberComplete', SubscribersFollow'
    PROVE  StreamCore'
BY DEF StreamCore, JournalInv, StreamTypeOK, JournalKept

\* What the invariants say of the current invocation.
Current ==
    /\ held[cur] => /\ pc \in Batching \cup {"xLock"}
                    /\ db.stream[cur] = (IF db.claim THEN "open" ELSE "aborted")
    /\ db.stream[cur] = "none" => sent[cur] = <<>>
    /\ pc \in Batching => held[cur]
    /\ pc \in {"start", "startPub", "reserve", "open"} => db.stream[cur] = "none"
    /\ pc \in {"commitPub", "opEnd", "opEndPub"} => db.stream[cur] = "committed"
    /\ \/ pc \in {"openSettle", "openAbortPub", "xAbortPub", "xOp", "xOpPub"}
       \/ pc = "xLock" /\ ~held[cur]
       => db.stream[cur] # "open" \/ cur \in hurt \/ ~db.claim
    /\ pc = "start" => ~Logged(<<"opStart", cur>>)
    /\ pc \in {"start", "startPub", "reserve"} => att[cur] = "none"
    /\ pc \in {"finish", "commit", "commitPub", "opEnd", "opEndPub"} => att[cur] = "settled"
    /\ pc \in {"xLock", "xFlush", "xFlushPub", "xAbort", "xAbortPub", "xOp", "xOpPub"} =>
         cur \in hurt \/ att[cur] # "reserved"
    /\ pc \in {"opEndPub", "xOpPub"} => Logged(<<"opEnd", cur>>)
    /\ ProducerHolds(cur) => BatchFree(cur)
    /\ pc \in {"openEvent", "flushPub", "extra", "extraPub", "settle", "finish", "commit"} =>
         buf[cur] = <<>>
    /\ pc \in {"flush", "flushPub", "extra", "extraPub", "settle"} => sent[cur] # <<>>
    /\ pc = "read" => Len(buf[cur]) < MaxFragments
    /\ ~Invoking /\ cur \notin hurt /\ db.claim =>
         db.stream[cur] # "open" /\ att[cur] # "reserved" /\ cur \notin OpenOperations
    /\ ok => db.stream[cur] = "committed" /\ att[cur] = "settled" /\ cur \notin OpenOperations

\* The invariants say that much.
LEMMA CurrentHolds ==
    ASSUME StreamCore, cur \in Streams
    PROVE  Current
<1>1. StreamInStage /\ AttemptInStage /\ BufferInStage /\ InvocationSettled
  BY DEF StreamCore, JournalInv
<1>2. ~Invoking /\ cur \notin hurt /\ db.claim =>
         db.stream[cur] # "open" /\ att[cur] # "reserved" /\ cur \notin OpenOperations
  <2>1. cur \in 1..cur
    BY JournalAssumption DEF Streams
  <2> QED BY <1>1, <2>1 DEF InvocationSettled
<1>3. ok => db.stream[cur] = "committed" /\ att[cur] = "settled" /\ cur \notin OpenOperations
  BY <1>1 DEF InvocationSettled
<1>4. /\ ProducerHolds(cur) => BatchFree(cur)
      /\ pc \in {"openEvent", "flushPub", "extra", "extraPub", "settle", "finish", "commit"} => buf[cur] = <<>>
      /\ pc \in {"flush", "flushPub", "extra", "extraPub", "settle"} => sent[cur] # <<>>
      /\ pc = "read" => Len(buf[cur]) < MaxFragments
  BY <1>1 DEF BufferInStage
<1>5. /\ pc = "start" => ~Logged(<<"opStart", cur>>)
      /\ pc \in {"start", "startPub", "reserve"} => att[cur] = "none"
      /\ pc \in {"finish", "commit", "commitPub", "opEnd", "opEndPub"} => att[cur] = "settled"
      /\ pc \in {"xLock", "xFlush", "xFlushPub", "xAbort", "xAbortPub", "xOp", "xOpPub"} =>
           cur \in hurt \/ att[cur] # "reserved"
      /\ pc \in {"opEndPub", "xOpPub"} => Logged(<<"opEnd", cur>>)
  BY <1>1 DEF AttemptInStage
<1>6. /\ held[cur] => /\ pc \in Batching \cup {"xLock"}
                      /\ db.stream[cur] = (IF db.claim THEN "open" ELSE "aborted")
      /\ db.stream[cur] = "none" => sent[cur] = <<>>
  BY <1>1 DEF StreamInStage
<1>7. /\ pc \in Batching => held[cur]
      /\ pc \in {"start", "startPub", "reserve", "open"} => db.stream[cur] = "none"
      /\ pc \in {"commitPub", "opEnd", "opEndPub"} => db.stream[cur] = "committed"
      /\ \/ pc \in {"openSettle", "openAbortPub", "xAbortPub", "xOp", "xOpPub"}
         \/ pc = "xLock" /\ ~held[cur]
         => db.stream[cur] # "open" \/ cur \in hurt \/ ~db.claim
  BY <1>1 DEF StreamInStage
<1> QED BY <1>2, <1>3, <1>4, <1>5, <1>6, <1>7 DEF Current

\* The other streams: those of earlier invocations and those to come.
OthersStay ==
    /\ hurt \subseteq hurt' /\ (db'.claim => db.claim)
    /\ \A s \in Streams : s # cur =>
         /\ held'[s] => held[s]
         /\ att'[s] = att[s] /\ sent'[s] = sent[s]
         /\ db'.stream[s] = db.stream[s] \/ (db.stream[s] = "open" /\ db'.stream[s] = "aborted")
         /\ Logged(<<"opStart", s>>)' <=> Logged(<<"opStart", s>>)
         /\ Logged(<<"opEnd", s>>) => Logged(<<"opEnd", s>>)'

\* A step within the current invocation, or between two.
LEMMA WithinInvocation ==
    ASSUME StreamCore, cur' = cur, OthersStay, cur \in Streams, Current',
           db'.claim /\ db'.run # "running" => pc' \in {"terminalPub", "result", "ended"},
           ok' => ~Invoking'
    PROVE  StreamInStage' /\ AttemptInStage' /\ BufferInStage' /\ InvocationSettled'
<1>1. StreamInStage /\ AttemptInStage /\ InvocationSettled
  BY DEF StreamCore, JournalInv
<1>2. \A s \in Streams : s # cur => ~held'[s]
  BY <1>1 DEF StreamInStage, OthersStay
<1>3. \A s \in Streams : s > cur => db'.stream[s] = "none" /\ att'[s] = "none" /\ ~Logged(<<"opStart", s>>)'
  <2> TAKE s \in Streams
  <2> HAVE s > cur
  <2>1. s # cur
    BY JournalAssumption DEF Streams
  <2>2. db.stream[s] = "none" /\ att[s] = "none" /\ ~Logged(<<"opStart", s>>)
    BY <1>1 DEF StreamInStage, AttemptInStage
  <2> QED BY <2>1, <2>2 DEF OthersStay
<1>4. \A s \in Streams : s # cur => (db'.stream[s] = "none" => sent'[s] = <<>>)
  BY <1>1 DEF StreamInStage, OthersStay
<1>5. ASSUME NEW s \in Streams, s < cur, s \notin hurt', db'.claim
      PROVE  db'.stream[s] # "open" /\ att'[s] # "reserved" /\ s \notin OpenOperations'
  <2>1. s # cur /\ s \in 1..(cur - 1) /\ s \in 1..cur
    BY <1>5, JournalAssumption DEF Streams
  <2>2. s \notin hurt /\ db.claim
    BY <1>5 DEF OthersStay
  <2>3. db.stream[s] # "open" /\ att[s] # "reserved" /\ s \notin OpenOperations
    BY <1>1, <2>1, <2>2 DEF InvocationSettled
  <2>4. ~Logged(<<"opStart", s>>)' \/ Logged(<<"opEnd", s>>)'
    BY <2>1, <2>3 DEF OpenOperations, OthersStay
  <2>5. s \notin OpenOperations'
    BY <2>4 DEF OpenOperations
  <2> QED BY <2>1, <2>3, <2>5 DEF OthersStay
<1>6. StreamInStage'
  <2>1. \A s \in Streams : /\ held'[s] => s = cur /\ pc' \in Batching \cup {"xLock"}
                           /\ held'[s] => db'.stream[s] = (IF db'.claim THEN "open" ELSE "aborted")
                           /\ s > cur => db'.stream[s] = "none"
                           /\ db'.stream[s] = "none" => sent'[s] = <<>>
    BY <1>2, <1>3, <1>4 DEF Current
  <2>2. /\ pc' \in Batching => held'[cur]
        /\ pc' \in {"start", "startPub", "reserve", "open"} => db'.stream[cur] = "none"
        /\ pc' \in {"commitPub", "opEnd", "opEndPub"} => db'.stream[cur] = "committed"
        /\ \/ pc' \in {"openSettle", "openAbortPub", "xAbortPub", "xOp", "xOpPub"}
           \/ pc' = "xLock" /\ ~held'[cur]
           => db'.stream[cur] # "open" \/ cur \in hurt' \/ ~db'.claim
    BY DEF Current
  <2> QED BY <2>1, <2>2 DEF StreamInStage
<1>7. AttemptInStage'
  <2>1. \A s \in Streams : s > cur \/ (s = cur /\ pc' = "start") => ~Logged(<<"opStart", s>>)'
    BY <1>3 DEF Current
  <2>2. /\ pc' \in {"start", "startPub", "reserve"} => att'[cur] = "none"
        /\ pc' \in {"finish", "commit", "commitPub", "opEnd", "opEndPub"} => att'[cur] = "settled"
        /\ pc' \in {"xLock", "xFlush", "xFlushPub", "xAbort", "xAbortPub", "xOp", "xOpPub"} =>
             cur \in hurt' \/ att'[cur] # "reserved"
        /\ pc' \in {"opEndPub", "xOpPub"} => Logged(<<"opEnd", cur>>)'
    BY DEF Current
  <2> QED BY <1>3, <2>1, <2>2 DEF AttemptInStage
<1>8. BufferInStage'
  <2>1. \A s \in Streams : ProducerHolds(s)' => BatchFree(s)'
    <3>1. \A s \in Streams : ProducerHolds(s)' => s = cur
      BY DEF ProducerHolds
    <3>2. ProducerHolds(cur)' => BatchFree(cur)'
      BY DEF Current
    <3> QED BY <3>1, <3>2
  <2>2. /\ pc' \in {"openEvent", "flushPub", "extra", "extraPub", "settle", "finish", "commit"} => buf'[cur] = <<>>
        /\ pc' \in {"flush", "flushPub", "extra", "extraPub", "settle"} => sent'[cur] # <<>>
        /\ pc' = "read" => Len(buf'[cur]) < MaxFragments
    BY DEF Current
  <2> QED BY <2>1, <2>2 DEF BufferInStage
<1>9. InvocationSettled'
  <2>1. ASSUME NEW s \in 1..(IF Invoking' THEN cur - 1 ELSE cur), s \notin hurt', db'.claim
        PROVE  db'.stream[s] # "open" /\ att'[s] # "reserved" /\ s \notin OpenOperations'
    <3>1. s \in Streams /\ (s < cur \/ (s = cur /\ ~Invoking'))
      BY JournalAssumption DEF Streams
    <3>2. CASE s < cur
      BY <1>5, <2>1, <3>1, <3>2
    <3>3. CASE s = cur /\ ~Invoking'
      <4>1. ~Invoking' /\ cur \notin hurt' /\ db'.claim =>
              db'.stream[cur] # "open" /\ att'[cur] # "reserved" /\ cur \notin OpenOperations'
        BY DEF Current
      <4> QED BY <2>1, <3>3, <4>1
    <3> QED BY <3>1, <3>2, <3>3
  <2>2. ok' => db'.stream[cur] = "committed" /\ att'[cur] = "settled" /\ cur \notin OpenOperations'
    BY DEF Current
  <2> QED BY <2>1, <2>2 DEF InvocationSettled
<1> QED BY <1>6, <1>7, <1>8, <1>9

\* What every step starts from.
LEMMA Basics ==
    ASSUME StreamCore
    PROVE  /\ JournalTypeOK /\ TerminalFence /\ ContentExact /\ ProjectionAfterSource /\ ProducerTypeOK
           /\ cur \in Streams => Current
           /\ Invoking => cur \in Streams /\ ~ok
           /\ pc # "idle" => cur \in Streams
           /\ db.claim /\ db.run # "running" => pc \in {"terminalPub", "result", "ended"}
           /\ \A s \in Streams : held[s] => s = cur
           /\ ok => ~Invoking /\ cur \in Streams
           /\ cur \in Int /\ (cur \in Streams <=> cur > 0)
<1>1. /\ JournalTypeOK /\ TerminalFence /\ ContentExact /\ ProjectionAfterSource /\ ProducerTypeOK
      /\ StreamInStage /\ AttemptInStage
  BY DEF StreamCore, JournalInv, StreamTypeOK
<1>2. (Invoking => cur \in Streams /\ ~ok) /\ (pc # "idle" => cur \in Streams)
  BY <1>1 DEF StreamInStage, AttemptInStage, Invoking
<1>3. db.claim /\ db.run # "running" => pc \in {"terminalPub", "result", "ended"}
  BY <1>1 DEF StreamInStage
<1>4. \A s \in Streams : held[s] => s = cur
  BY <1>1 DEF StreamInStage
<1>5. ok => ~Invoking /\ cur \in Streams
  BY <1>1 DEF AttemptInStage
<1>6. cur \in Int /\ (cur \in Streams <=> cur > 0)
  BY <1>1, JournalAssumption DEF ProducerTypeOK, Streams
<1> QED BY <1>1, <1>2, <1>3, <1>4, <1>5, <1>6, CurrentHolds

\* A step that moves no subscriber and stays with the current invocation.
LEMMA StepHolds ==
    ASSUME StreamCore, JournalKept, ProducerTypeOK', cur' = cur, cur \in Streams, OthersStay, Current',
           db'.claim /\ db'.run # "running" => pc' \in {"terminalPub", "result", "ended"},
           ok' => ~Invoking', sub' = sub, done' = done, pc = "ended" => pc' = "ended"
    PROVE  StreamCore'
<1>1. StreamInStage' /\ AttemptInStage' /\ BufferInStage' /\ InvocationSettled'
  BY WithinInvocation
<1>2. SubscriberComplete' /\ SubscribersFollow'
  BY ListenersWait
<1> QED BY <1>1, <1>2, CoreHolds

\* The other streams of a step that leaves the records alone.
LEMMA SameOthers ==
    ASSUME SameRecords, hurt \subseteq hurt',
           \A s \in Streams : s # cur => (held'[s] => held[s]) /\ att'[s] = att[s] /\ sent'[s] = sent[s]
    PROVE  OthersStay
BY DEF SameRecords, SameOperations, OthersStay

\* The types after a step that leaves the batches and timers alone.
LEMMA SameBatches ==
    ASSUME ProducerTypeOK, pc' \in Stages, cur' = cur, ok' \in BOOLEAN, hurt' \subseteq Streams,
           faults' \in 0..MaxFaults, done' \in Nat, sent' = sent, buf' = buf, held' = held,
           timer' = timer, bg' = bg, att' \in [Streams -> {"none", "reserved", "settled"}]
    PROVE  ProducerTypeOK'
BY DEF ProducerTypeOK

\* _reserve_attempt.
LEMMA ReserveStep ==
    ASSUME StreamCore, Reserve
    PROVE  StreamCore'
<1> USE DEF batch, Quiet
<1>1. JournalKept /\ SameRecords
  BY StillJournal DEF Reserve
<1>2. /\ pc = "reserve" /\ pc' = "open" /\ cur' = cur /\ hurt' = hurt /\ ok' = ok
      /\ att' = [att EXCEPT ![cur] = "reserved"]
      /\ sent' = sent /\ buf' = buf /\ held' = held /\ timer' = timer
  BY DEF Reserve
<1>3. ProducerTypeOK /\ Current /\ cur \in Streams /\ ~ok /\ ~(db.claim /\ db.run # "running")
  BY <1>2, Basics DEF Invoking
<1>4. OthersStay
  BY <1>1, <1>2, <1>3, SameOthers DEF ProducerTypeOK
<1>5. Current'
  BY <1>1, <1>2, <1>3
     DEF Current, SameRecords, SameOperations, Invoking, Batching, ProducerHolds, BatchFree, ProducerTypeOK
<1>6. ProducerTypeOK'
  <2>1. /\ pc' \in Stages /\ bg' = bg /\ faults' = faults /\ done' = done
        /\ att' \in [Streams -> {"none", "reserved", "settled"}]
    BY <1>2, <1>3 DEF Reserve, Stages, ProducerTypeOK
  <2>2. ok \in BOOLEAN /\ hurt \subseteq Streams /\ faults \in 0..MaxFaults /\ done \in Nat
    BY <1>3 DEF ProducerTypeOK
  <2> QED BY <1>2, <1>3, <2>1, <2>2, SameBatches
<1>7. /\ ok' => ~Invoking'
      /\ db'.claim /\ db'.run # "running" => pc' \in {"terminalPub", "result", "ended"}
  BY <1>1, <1>2, <1>3 DEF SameRecords
<1> QED BY <1>1, <1>2, <1>3, <1>4, <1>5, <1>6, <1>7, StepHolds DEF Reserve

\* _settle_attempt.
LEMMA SettleStep ==
    ASSUME StreamCore, Settle
    PROVE  StreamCore'
<1> USE DEF batch, Quiet
<1>1. JournalKept /\ SameRecords
  BY StillJournal DEF Settle
<1>2. /\ pc \in {"settle", "xSettle", "openSettle"} /\ cur' = cur /\ hurt' = hurt /\ ok' = ok
      /\ att' = [att EXCEPT ![cur] = "settled"]
      /\ sent' = sent /\ buf' = buf /\ held' = held /\ timer' = timer
      /\ pc = "openSettle" => pc' = "xOp"
      /\ pc = "xSettle" => pc' = "xLock"
      /\ pc = "settle" => pc' \in {"xLock", "finish"}
  BY DEF Settle
<1>3. ProducerTypeOK /\ Current /\ cur \in Streams /\ ~ok /\ ~(db.claim /\ db.run # "running")
  BY <1>2, Basics DEF Invoking
<1>4. OthersStay
  BY <1>1, <1>2, <1>3, SameOthers DEF ProducerTypeOK
<1>5. Current'
  BY <1>1, <1>2, <1>3
     DEF Current, SameRecords, SameOperations, Invoking, Batching, ProducerHolds, BatchFree, ProducerTypeOK
<1>6. ProducerTypeOK'
  BY <1>2, <1>3 DEF ProducerTypeOK, Stages, Settle
<1>7. /\ ok' => ~Invoking'
      /\ db'.claim /\ db'.run # "running" => pc' \in {"terminalPub", "result", "ended"}
  BY <1>1, <1>2, <1>3 DEF SameRecords
<1>8. pc # "ended"
  BY <1>2
<1> QED BY <1>1, <1>2, <1>3, <1>4, <1>5, <1>6, <1>7, <1>8, StepHolds DEF Settle

\* The lock of abort_model_stream.
LEMMA AbortLockStep ==
    ASSUME StreamCore, AbortLock
    PROVE  StreamCore'
<1> USE DEF batch, Quiet
<1>1. JournalKept /\ SameRecords
  BY StillJournal DEF AbortLock
<1>2. /\ pc = "xLock" /\ cur' = cur /\ hurt' = hurt /\ ok' = ok /\ att' = att
      /\ sent' = sent /\ buf' = buf /\ held' = held /\ timer' = timer
      /\ ~held[cur] => pc' = "xOp"
      /\ held[cur] => pc' \in {"xAbort", "xFlush"} /\ BatchFree(cur)
  BY DEF AbortLock
<1>3. ProducerTypeOK /\ Current /\ cur \in Streams /\ ~ok /\ ~(db.claim /\ db.run # "running")
  BY <1>2, Basics DEF Invoking
<1>4. OthersStay
  BY <1>1, <1>2, <1>3, SameOthers DEF ProducerTypeOK
<1>5. Current'
  BY <1>1, <1>2, <1>3
     DEF Current, SameRecords, SameOperations, Invoking, Batching, ProducerHolds, BatchFree, ProducerTypeOK
<1>6. ProducerTypeOK'
  BY <1>2, <1>3 DEF ProducerTypeOK, Stages, AbortLock
<1>7. /\ ok' => ~Invoking'
      /\ db'.claim /\ db'.run # "running" => pc' \in {"terminalPub", "result", "ended"}
  BY <1>1, <1>2, <1>3 DEF SameRecords
<1>8. pc # "ended"
  BY <1>2
<1> QED BY <1>1, <1>2, <1>3, <1>4, <1>5, <1>6, <1>7, <1>8, StepHolds DEF AbortLock

\* publish_committed.
LEMMA PublishStep ==
    ASSUME StreamCore, Publish
    PROVE  StreamCore'
<1> USE DEF batch
<1>1. JournalKept /\ SameRecords
  BY StillJournal DEF Publish
<1>2. /\ cur' = cur /\ hurt' = hurt /\ att' = att /\ bg' = bg /\ faults' = faults /\ sub' = sub
      /\ done' = done
      /\ sent' = sent /\ buf' = buf /\ held' = held /\ timer' = timer
      /\ pc \in {"startPub", "flushPub", "extraPub", "commitPub", "opEndPub", "xFlushPub",
                 "xAbortPub", "openAbortPub", "xOpPub", "commentPub", "terminalPub"}
      /\ ok' = (ok \/ pc = "opEndPub") /\ pc' = AfterPublish
  BY DEF Publish
<1>3. /\ pc = "startPub" => pc' = "reserve"
      /\ pc = "flushPub" => pc' \in {"read", "extra"}
      /\ pc = "extraPub" => pc' \in {"read", "settle"}
      /\ pc = "commitPub" => pc' = "opEnd"
      /\ pc = "xFlushPub" => pc' = "xAbort"
      /\ pc = "xAbortPub" => pc' = "xOp"
      /\ pc = "openAbortPub" => pc' = "openSettle"
      /\ pc \in {"opEndPub", "xOpPub", "commentPub"} => pc' = "idle"
      /\ pc = "terminalPub" => pc' = "result"
  BY <1>2 DEF AfterPublish, AfterFlush, AfterExtra
<1>4. /\ ProducerTypeOK /\ Current /\ cur \in Streams /\ (ok => ~Invoking)
      /\ db.claim /\ db.run # "running" => pc = "terminalPub"
  BY <1>2, Basics
<1>5. OthersStay
  BY <1>1, <1>2, SameOthers
<1>6. buf[cur] = <<>> => Len(buf[cur]) < MaxFragments
  BY StreamAssumption
<1>7. Current'
  <2>1. ~Invoking' /\ cur \notin hurt' /\ db'.claim =>
         db'.stream[cur] # "open" /\ att'[cur] # "reserved" /\ cur \notin OpenOperations'
    BY <1>1, <1>2, <1>3, <1>4 DEF Current, SameRecords, SameOperations, Invoking, OpenOperations
  <2>2. ok' => db'.stream[cur] = "committed" /\ att'[cur] = "settled" /\ cur \notin OpenOperations'
    BY <1>1, <1>2, <1>4 DEF Current, SameRecords, SameOperations, OpenOperations
  <2> QED BY <1>1, <1>2, <1>3, <1>4, <1>6, <2>1, <2>2
          DEF Current, SameRecords, SameOperations, Batching, ProducerHolds, BatchFree
<1>8. ProducerTypeOK'
  <2>1. pc' \in Stages
    BY <1>2, <1>3 DEF Stages
  <2>2. /\ ok' \in BOOLEAN /\ hurt \subseteq Streams /\ faults \in 0..MaxFaults /\ done \in Nat
        /\ att \in [Streams -> {"none", "reserved", "settled"}]
    BY <1>2, <1>4 DEF ProducerTypeOK
  <2> QED BY <1>2, <1>4, <2>1, <2>2, SameBatches
<1>9. /\ ok' => ~Invoking'
      /\ db'.claim /\ db'.run # "running" => pc' \in {"terminalPub", "result", "ended"}
      /\ pc # "ended"
  BY <1>1, <1>2, <1>3, <1>4 DEF SameRecords, Invoking
<1> QED BY <1>1, <1>2, <1>4, <1>5, <1>7, <1>8, <1>9, StepHolds

\* The execution ends without a terminal commit.
LEMMA GiveUpStep ==
    ASSUME StreamCore, GiveUp
    PROVE  StreamCore'
<1> USE DEF batch, Quiet
<1>1. JournalKept /\ SameRecords
  BY StillJournal DEF GiveUp
<1>2. /\ pc \in {"idle", "commentPub", "terminalPub"} /\ pc' = "result" /\ cur > 0
      /\ cur' = cur /\ ok' = ok /\ hurt' = hurt /\ att' = att /\ bg' = bg
      /\ sent' = sent /\ buf' = buf /\ held' = held /\ timer' = timer
      /\ faults' = faults /\ sub' = sub /\ done' = done
  BY DEF GiveUp
<1>3. ProducerTypeOK /\ Current /\ cur \in Streams
  BY <1>2, Basics
<1>4. OthersStay
  BY <1>1, <1>2, SameOthers
<1>5. Current'
  BY <1>1, <1>2, <1>3 DEF Current, SameRecords, SameOperations, Invoking, Batching, ProducerHolds, BatchFree
<1>6. ProducerTypeOK'
  BY <1>2, <1>3, SameBatches DEF ProducerTypeOK, Stages
<1>7. ~Invoking' /\ pc' = "result" /\ pc # "ended"
  BY <1>2 DEF Invoking
<1> QED BY <1>1, <1>2, <1>3, <1>4, <1>5, <1>6, <1>7, StepHolds

\* The handle's result settles: the only step that sets done.
LEMMA SettleResultStep ==
    ASSUME StreamCore, SettleResult
    PROVE  StreamCore'
<1> USE DEF batch
<1>1. JournalKept /\ SameRecords
  BY StillJournal DEF SettleResult
<1>2. /\ pc = "result" /\ pc' = "ended" /\ done' = Len(db.log)
      /\ cur' = cur /\ ok' = ok /\ hurt' = hurt /\ att' = att /\ bg' = bg
      /\ sent' = sent /\ buf' = buf /\ held' = held /\ timer' = timer
      /\ faults' = faults /\ sub' = sub /\ db' = db
  BY DEF SettleResult
<1>3. ProducerTypeOK /\ Current /\ cur \in Streams /\ Len(db.log) \in Nat
  BY <1>1, <1>2, Basics DEF JournalKept
<1>4. OthersStay
  BY <1>1, <1>2, SameOthers
<1>5. Current'
  BY <1>1, <1>2, <1>3 DEF Current, SameRecords, SameOperations, Invoking, Batching, ProducerHolds, BatchFree
<1>6. ProducerTypeOK'
  BY <1>2, <1>3, SameBatches DEF ProducerTypeOK, Stages
<1>7. StreamInStage' /\ AttemptInStage' /\ BufferInStage' /\ InvocationSettled'
  <2>1. ~Invoking' /\ pc' = "ended"
    BY <1>2 DEF Invoking
  <2> QED BY <1>2, <1>3, <1>4, <1>5, <2>1, WithinInvocation
<1>8. SubscriberComplete /\ SubscribersFollow
  BY DEF StreamCore, JournalInv
<1>9. ~(done > 0)
  BY <1>2, <1>8 DEF SubscribersFollow
<1>10. SubscriberComplete'
  BY <1>2, <1>8, <1>9 DEF SubscriberComplete
<1>11. SubscribersFollow'
  BY <1>2, <1>3, <1>8 DEF SubscribersFollow
<1> QED BY <1>1, <1>6, <1>7, <1>10, <1>11, CoreHolds

\* The next invocation.
LEMMA InvokeStep ==
    ASSUME StreamCore, Invoke
    PROVE  StreamCore'
<1> USE DEF batch, Quiet
<1>1. JournalKept /\ SameRecords
  BY StillJournal DEF Invoke
<1>2. /\ pc = "idle" /\ pc' = "start" /\ cur < MaxStreams /\ cur' = cur + 1 /\ ~ok' /\ ok' = FALSE
      /\ hurt' = hurt /\ att' = att /\ bg' = bg
      /\ sent' = sent /\ buf' = buf /\ held' = held /\ timer' = timer
      /\ faults' = faults /\ sub' = sub /\ done' = done
  BY DEF Invoke
<1>3. ProducerTypeOK /\ StreamInStage /\ AttemptInStage /\ InvocationSettled
  BY DEF StreamCore, JournalInv, StreamTypeOK
<1>4. cur + 1 \in Streams /\ cur + 1 > cur /\ cur \in Int
  BY <1>2, <1>3, JournalAssumption DEF ProducerTypeOK, Streams
<1>5. \A s \in Streams : s > cur + 1 => s > cur
  BY <1>4, JournalAssumption DEF Streams
<1>6. \A s \in Streams : ~held[s]
  BY <1>2, <1>3 DEF StreamInStage, Batching
<1>7. ProducerTypeOK'
  <2>1. cur' \in 0..MaxStreams /\ pc' \in Stages
    BY <1>2, <1>4, JournalAssumption DEF Streams, Stages
  <2> QED BY <1>2, <1>3, <2>1 DEF ProducerTypeOK
<1>8. StreamInStage'
  <2>1. db.stream[cur + 1] = "none" /\ \A s \in Streams : s > cur + 1 => db.stream[s] = "none"
    BY <1>3, <1>4, <1>5 DEF StreamInStage
  <2>2. ~(db.claim /\ db.run # "running")
    BY <1>2, <1>3 DEF StreamInStage
  <2>3. \A s \in Streams : db.stream[s] = "none" => sent[s] = <<>>
    BY <1>3 DEF StreamInStage
  <2> QED BY <1>1, <1>2, <1>4, <1>6, <2>1, <2>2, <2>3 DEF StreamInStage, SameRecords, Batching
<1>9. AttemptInStage'
  <2>1. \A s \in Streams : s > cur => att[s] = "none" /\ ~Logged(<<"opStart", s>>)'
    BY <1>1, <1>3 DEF AttemptInStage, SameRecords, SameOperations
  <2>2. \A s \in Streams : s > cur' \/ (s = cur' /\ pc' = "start") => s > cur
    BY <1>2, <1>4, <1>5
  <2>3. att[cur + 1] = "none"
    BY <1>4, <2>1
  <2> QED BY <1>2, <2>1, <2>2, <2>3 DEF AttemptInStage
<1>10. BufferInStage'
  BY <1>2 DEF BufferInStage, ProducerHolds
<1>11. InvocationSettled'
  <2>1. ~Invoking /\ Invoking'
    BY <1>2 DEF Invoking
  <2>2. cur' - 1 = cur
    BY <1>2, <1>4
  <2>3. \A s \in 1..cur : s \in Streams
    BY <1>2, <1>4, JournalAssumption DEF Streams
  <2> QED BY <1>1, <1>2, <1>3, <2>1, <2>2, <2>3 DEF InvocationSettled, SameRecords, SameOperations
<1>12. SubscriberComplete' /\ SubscribersFollow'
  BY <1>1, <1>2, ListenersWait
<1> QED BY <1>1, <1>7, <1>8, <1>9, <1>10, <1>11, <1>12, CoreHolds

\* The stages while others move.
LEMMA StagesStay ==
    ASSUME StreamCore, SameRecords, pc' = pc, cur' = cur, ok' = ok, hurt' = hurt, sent' = sent,
           held' = held, att' = att
    PROVE  StreamInStage' /\ AttemptInStage' /\ InvocationSettled'
<1>1. StreamInStage /\ AttemptInStage /\ InvocationSettled
  BY DEF StreamCore, JournalInv
<1>2. StreamInStage'
  BY <1>1 DEF StreamInStage, SameRecords
<1>3. AttemptInStage'
  <2>1. \A s \in Streams : s > cur \/ (s = cur /\ pc = "start") => ~Logged(<<"opStart", s>>)'
    BY <1>1 DEF AttemptInStage, SameRecords, SameOperations
  <2>2. pc \in {"opEndPub", "xOpPub"} => Logged(<<"opEnd", cur>>)'
    <3>1. pc # "idle" => cur \in Streams
      BY <1>1 DEF StreamInStage
    <3> QED BY <1>1, <3>1 DEF AttemptInStage, SameRecords, SameOperations
  <2>3. ok => ~Invoking'
    BY <1>1 DEF AttemptInStage, Invoking
  <2> QED BY <1>1, <2>1, <2>2, <2>3 DEF AttemptInStage
<1>4. InvocationSettled'
  <2>1. Invoking' <=> Invoking
    BY DEF Invoking
  <2> QED BY <1>1, <2>1 DEF InvocationSettled, SameRecords, SameOperations
<1> QED BY <1>2, <1>3, <1>4

\* A turn of _subscribe.
LEMMA ListStep ==
    ASSUME StreamCore, NEW w \in Subscribers, List(w)
    PROVE  StreamCore'
<1> USE DEF batch, producer
<1>1. JournalKept /\ SameRecords
  BY StillJournal DEF List
<1>2. /\ pc' = pc /\ cur' = cur /\ ok' = ok /\ hurt' = hurt /\ att' = att /\ bg' = bg /\ db' = db
      /\ sent' = sent /\ buf' = buf /\ held' = held /\ timer' = timer
      /\ faults' = faults /\ done' = done
  BY DEF List
<1>3. ProducerTypeOK /\ BufferInStage /\ SubscriberComplete /\ SubscribersFollow
  BY DEF StreamCore, JournalInv, StreamTypeOK
<1>4. StreamInStage' /\ AttemptInStage' /\ InvocationSettled'
  BY <1>1, <1>2, StagesStay
<1>5. ProducerTypeOK'
  BY <1>2, <1>3, SameBatches DEF ProducerTypeOK
<1>6. BufferInStage'
  BY <1>2, <1>3 DEF BufferInStage, ProducerHolds, BatchFree
<1> DEFINE left == Len(db.log) - sub[w].cursor
           page == IF left < PageLimit THEN left ELSE PageLimit
           st == IF EndsSubscription(page) THEN "ended" ELSE IF page > 0 THEN "list" ELSE "wait"
<1>7. /\ sub' = [sub EXCEPT ![w] = [cursor |-> sub[w].cursor + page, st |-> st]]
      /\ DOMAIN sub = Subscribers /\ sub[w].cursor \in Nat /\ sub[w].cursor =< Len(db.log)
      /\ Len(db.log) \in Nat /\ done \in Nat /\ done =< Len(db.log)
  <2>1. sub[w] \in [cursor : Nat, st : {"list", "wait", "ended"}]
    BY <1>3 DEF SubscribersFollow
  <2> QED BY <1>1, <1>3, <2>1 DEF List, SubscribersFollow, JournalKept, ProducerTypeOK
<1>8. /\ sub[w].cursor + page \in Nat /\ sub[w].cursor + page =< Len(db.log)
      /\ page = 0 => sub[w].cursor = Len(db.log)
  BY <1>7, StreamAssumption
<1>9. st \in {"list", "wait", "ended"} /\ (st = "ended" => page = 0 /\ done > 0)
  BY DEF EndsSubscription
<1> HIDE DEF page, st, left
<1>10. st = "ended" => done > 0 /\ sub[w].cursor + page >= done
  BY <1>7, <1>8, <1>9
<1>11. SubscriberComplete'
  BY <1>2, <1>3, <1>7, <1>10 DEF SubscriberComplete
<1>12. SubscribersFollow'
  <2>1. sub'[w] \in [cursor : Nat, st : {"list", "wait", "ended"}] /\ sub'[w].cursor =< Len(db.log)
    BY <1>7, <1>8, <1>9
  <2>2. \A v \in Subscribers : v # w => sub'[v] = sub[v]
    BY <1>7
  <2>3. DOMAIN sub' = Subscribers
    BY <1>7
  <2> QED BY <1>2, <1>3, <2>1, <2>2, <2>3 DEF SubscribersFollow
<1> QED BY <1>1, <1>4, <1>5, <1>6, <1>11, <1>12, CoreHolds

\* A subscriber is woken.
LEMMA WakeStep ==
    ASSUME StreamCore, NEW w \in Subscribers, Wake(w)
    PROVE  StreamCore'
<1> USE DEF batch, producer
<1>1. JournalKept /\ SameRecords
  BY StillJournal DEF Wake
<1>2. /\ pc' = pc /\ cur' = cur /\ ok' = ok /\ hurt' = hurt /\ att' = att /\ bg' = bg /\ db' = db
      /\ sent' = sent /\ buf' = buf /\ held' = held /\ timer' = timer
      /\ faults' = faults /\ done' = done /\ sub' = [sub EXCEPT ![w].st = "list"]
  BY DEF Wake
<1>3. ProducerTypeOK /\ BufferInStage /\ SubscriberComplete /\ SubscribersFollow
  BY DEF StreamCore, JournalInv, StreamTypeOK
<1>4. StreamInStage' /\ AttemptInStage' /\ InvocationSettled'
  BY <1>1, <1>2, StagesStay
<1>5. ProducerTypeOK'
  BY <1>2, <1>3, SameBatches DEF ProducerTypeOK
<1>6. BufferInStage'
  BY <1>2, <1>3 DEF BufferInStage, ProducerHolds, BatchFree
<1>7. /\ sub'[w] = [cursor |-> sub[w].cursor, st |-> "list"] /\ DOMAIN sub' = Subscribers
      /\ \A v \in Subscribers : v # w => sub'[v] = sub[v]
      /\ sub[w].cursor \in Nat
  BY <1>2, <1>3 DEF SubscribersFollow
<1>8. SubscriberComplete'
  BY <1>2, <1>3, <1>7 DEF SubscriberComplete
<1>9. SubscribersFollow'
  <2>1. /\ sub'[w] \in [cursor : Nat, st : {"list", "wait", "ended"}] /\ sub'[w].cursor = sub[w].cursor
    BY <1>7
  <2> QED BY <1>2, <1>3, <1>7, <2>1 DEF SubscribersFollow
<1> QED BY <1>1, <1>4, <1>5, <1>6, <1>8, <1>9, CoreHolds

\* A timer moves and the stages stay.
LEMMA TimerMoves ==
    ASSUME StreamCore, JournalKept, SameRecords, NEW s \in Streams, NEW t,
           pc' = pc, cur' = cur, ok' = ok, hurt' = hurt, sent' = sent, held' = held, att' = att,
           sub' = sub, done' = done, faults' \in 0..MaxFaults, bg' \in [Streams -> BOOLEAN],
           timer' = [timer EXCEPT ![s] = t], buf' = buf \/ buf' = [buf EXCEPT ![s] = <<>>],
           t = [at |-> t.at, take |-> t.take, mark |-> t.mark],
           t.at \in {"none", "asleep", "flush", "publish"},
           ~held[s] => t.at \in {"none", "publish"}, t.at = "flush" => t.take = buf'[s],
           t.at \in {"flush", "publish"} => ~ProducerHolds(s)
    PROVE  StreamCore'
<1>1. ProducerTypeOK /\ BufferInStage
  BY DEF StreamCore, JournalInv, StreamTypeOK
<1>2. StreamInStage' /\ AttemptInStage' /\ InvocationSettled'
  BY StagesStay
<1>3. SubscriberComplete' /\ SubscribersFollow'
  BY ListenersWait
<1>4. /\ DOMAIN timer = Streams /\ timer'[s] = t
      /\ \A r \in Streams : r # s => timer'[r] = timer[r]
      /\ \A r \in Streams : buf'[r] = buf[r] \/ (r = s /\ buf'[r] = <<>>)
      /\ buf' \in [Streams -> Seq(Entries)] /\ DOMAIN timer' = Streams
  <2>1. <<>> \in Seq(Entries) /\ buf \in [Streams -> Seq(Entries)] /\ DOMAIN timer = Streams
    BY <1>1 DEF ProducerTypeOK
  <2>2. timer'[s] = t /\ DOMAIN timer' = Streams /\ \A r \in Streams : r # s => timer'[r] = timer[r]
    BY <2>1
  <2>3. buf' \in [Streams -> Seq(Entries)]
    BY <2>1
  <2>4. \A r \in Streams : buf'[r] = buf[r] \/ (r = s /\ buf'[r] = <<>>)
    BY <2>1
  <2> QED BY <2>1, <2>2, <2>3, <2>4
<1>5. Len(<<>>) < MaxFragments /\ Len(<<>>) =< MaxFragments
  BY StreamAssumption
<1>6. ProducerTypeOK'
  <2>1. ASSUME NEW r \in Streams
        PROVE  /\ timer'[r] = [at |-> timer'[r].at, take |-> timer'[r].take, mark |-> timer'[r].mark]
               /\ timer'[r].at \in {"none", "asleep", "flush", "publish"}
               /\ Len(buf'[r]) =< MaxFragments
               /\ ~held[r] => buf'[r] = <<>> /\ timer'[r].at \in {"none", "publish"}
               /\ timer'[r].at = "flush" => timer'[r].take = buf'[r]
    BY <1>1, <1>4, <1>5 DEF ProducerTypeOK
  <2> QED BY <1>1, <1>4, <2>1 DEF ProducerTypeOK
<1>7. BufferInStage'
  <2>1. \A r \in Streams : ProducerHolds(r)' => BatchFree(r)'
    <3>1. \A r \in Streams : ProducerHolds(r)' <=> ProducerHolds(r)
      BY DEF ProducerHolds
    <3> QED BY <1>1, <1>4, <3>1 DEF BufferInStage, BatchFree
  <2>2. pc # "idle" => cur \in Streams
    BY DEF StreamCore, JournalInv, StreamInStage
  <2> QED BY <1>1, <1>4, <1>5, <2>1, <2>2 DEF BufferInStage
<1> QED BY <1>2, <1>3, <1>6, <1>7, CoreHolds

\* The timer wakes and takes the entries of its batch.
LEMMA TimerWakesStep ==
    ASSUME StreamCore, NEW s \in Streams, TimerWakes(s)
    PROVE  StreamCore'
<1> USE DEF batch, producer, Quiet
<1>1. JournalKept /\ SameRecords
  BY StillJournal DEF TimerWakes
<1>2. ProducerTypeOK
  BY Basics
<1>3. PICK t : /\ timer' = [timer EXCEPT ![s] = t]
               /\ t = IF bg[s] THEN NoTimer ELSE [timer[s] EXCEPT !.at = "flush", !.take = buf[s]]
  BY <1>2 DEF TimerWakes, ProducerTypeOK
<1>4. /\ t = [at |-> t.at, take |-> t.take, mark |-> t.mark]
      /\ t.at \in {"none", "flush"} /\ (t.at = "flush" => t.take = buf[s])
  <2>1. timer[s] = [at |-> timer[s].at, take |-> timer[s].take, mark |-> timer[s].mark]
    BY <1>2 DEF ProducerTypeOK
  <2>2. CASE bg[s]
    BY <1>3, <2>2 DEF NoTimer
  <2>3. CASE ~bg[s]
    <3>1. t = [at |-> "flush", take |-> buf[s], mark |-> timer[s].mark]
      BY <1>3, <2>1, <2>3
    <3> QED BY <3>1
  <2> QED BY <2>2, <2>3
<1>5. /\ pc' = pc /\ cur' = cur /\ ok' = ok /\ hurt' = hurt /\ sent' = sent /\ held' = held /\ att' = att
      /\ sub' = sub /\ done' = done /\ faults' = faults /\ bg' = bg /\ buf' = buf
      /\ ~ProducerHolds(s) /\ timer[s].at = "asleep"
  BY DEF TimerWakes
<1>6. held[s] /\ faults \in 0..MaxFaults /\ bg \in [Streams -> BOOLEAN]
  BY <1>2, <1>5 DEF ProducerTypeOK
<1> QED BY <1>1, <1>3, <1>4, <1>5, <1>6, TimerMoves

\* The timer is gone: it published, found nothing or failed.
LEMMA TimerGone ==
    ASSUME StreamCore, NEW s \in Streams, db' = db, timer' = [timer EXCEPT ![s] = NoTimer],
           pc' = pc, cur' = cur, ok' = ok, hurt' = hurt, sent' = sent, held' = held, att' = att, buf' = buf,
           sub' = sub, done' = done, faults' \in 0..MaxFaults, bg' \in [Streams -> BOOLEAN]
    PROVE  StreamCore'
<1>1. JournalKept /\ SameRecords
  BY StillJournal
<1>2. PICK t : t = NoTimer
  OBVIOUS
<1>3. t = [at |-> t.at, take |-> t.take, mark |-> t.mark] /\ t.at = "none"
  BY <1>2 DEF NoTimer
<1> QED BY <1>1, <1>2, <1>3, TimerMoves

\* The publication of what the timer persisted.
LEMMA TimerPublishStep ==
    ASSUME StreamCore, NEW s \in Streams, TimerPublish(s)
    PROVE  StreamCore'
<1>1. faults \in 0..MaxFaults /\ bg \in [Streams -> BOOLEAN]
  BY Basics DEF ProducerTypeOK
<1> QED BY <1>1, TimerGone DEF TimerPublish, batch, producer

\* An await of the timer raises.
LEMMA TimerFaultStep ==
    ASSUME StreamCore, NEW s \in Streams, TimerFault(s)
    PROVE  StreamCore'
<1>1. faults \in 0..MaxFaults /\ bg \in [Streams -> BOOLEAN]
  BY Basics DEF ProducerTypeOK
<1>2. faults' \in 0..MaxFaults /\ bg' \in [Streams -> BOOLEAN]
  BY <1>1, StreamAssumption DEF TimerFault, TimerFails
<1> QED BY <1>2, TimerGone DEF TimerFault, TimerFails, batch, producer

\* Drafts that are no operation's leave the operations alone.
LEMMA OperationsStay ==
    ASSUME NEW ds, Grown(db'.log, ds), \A i \in DOMAIN ds : ds[i].key[1] \notin {"opStart", "opEnd"}
    PROVE  SameOperations
<1>1. ASSUME NEW s \in Streams, NEW name \in {"opStart", "opEnd"}
      PROVE  Logged(<<name, s>>)' <=> Logged(<<name, s>>)
  <2>1. \A j \in DOMAIN ds : ds[j].key # <<name, s>>
    OBVIOUS
  <2> QED BY <2>1, LoggedGrows
<1> QED BY <1>1 DEF SameOperations, OpenOperations

\* The journal's promises after an append.
LEMMA KeptTogether ==
    ASSUME JournalTypeOK, JournalTypeOK', TerminalFence', ContentExact', ProjectionAfterSource',
           NEW ds, Grown(db'.log, ds)
    PROVE  JournalKept
<1>1. Len(db.log) \in Nat
  BY OwnState DEF JournalState, LogOK
<1>2. Len(db'.log) \in Nat
  <2>1. db'.log \in Seq(Range(db'.log))
    BY DEF JournalTypeOK
  <2> QED BY <2>1
<1> QED BY <1>1, <1>2 DEF JournalKept, Grown

\* flush_locked, of the producer or of the timer.
LEMMA FlushKeeps ==
    ASSUME StreamCore, NEW s \in Streams, held[s], buf[s] # <<>>, NEW ds, ds = BatchDrafts(s, buf[s]),
           CanAppend(ds, {"open"}), db' = Appended(ds), buf' = [buf EXCEPT ![s] = <<>>],
           sent' = sent, held' = held
    PROVE  JournalKept /\ SameRecords /\ ds # <<>>
<1>1. JournalTypeOK /\ TerminalFence /\ ContentExact /\ ProjectionAfterSource /\ ProducerTypeOK
  BY Basics
<1>2. /\ buf[s] \in Seq(Entries) /\ sent[s] \in Seq(Kinds) /\ Exact(s) /\ Pending(s)
      /\ buf'[s] = <<>> /\ \A r \in Streams : r # s => buf'[r] = buf[r]
  BY <1>1 DEF ProducerTypeOK, ContentExact
<1>3. \A k, l \in DOMAIN buf[s] : l < k => buf[s][l].c < buf[s][k].c
  BY <1>2 DEF Pending
<1>4. Flushes(ds, s, buf[s])
  BY <1>1, <1>2, <1>3, FlushDrafts
<1>5. /\ Drafts(ds) /\ ds # <<>>
      /\ \A i \in DOMAIN ds : ds[i].key[1] = "batch" /\ ds[i].stream = s
  BY <1>4 DEF Flushes, BatchOf
<1>6. /\ \A i \in DOMAIN ds : ds[i].key[1] \notin {"life", "progress", "opStart", "opEnd"}
      /\ \A i \in DOMAIN ds, r \in Streams, how \in {"committed", "aborted"} :
           ds[i].key # <<"end", r, how>>
  BY <1>5
<1>7. /\ JournalTypeOK' /\ TerminalFence' /\ Grown(db'.log, ds)
      /\ db'.run = db.run /\ db'.claim = db.claim /\ db'.stream = db.stream /\ db'.public = db.public
  <2>1. PICK acc : acc = {"open"}
    OBVIOUS
  <2>2. \A i \in DOMAIN ds : ds[i].stream \in Streams
    BY <1>5
  <2>3. \A i \in DOMAIN ds : ds[i].key[1] # "life"
    BY <1>6
  <2>4. CanAppend(ds, acc)
    BY <2>1
  <2>5. \/ db.run = "running" \/ ~db.claim
        \/ acc = {"open"} /\ \A i \in DOMAIN ds : ds[i].stream \in Streams
    BY <2>1, <2>2
  <2>6. Drafts(ds)
    BY <1>5
  <2>7. \A i \in DOMAIN ds, r \in Streams, how \in {"committed", "aborted"} :
           ds[i].key # <<"end", r, how>>
    BY <1>6
  <2> QED BY ONLY <1>1, <2>3, <2>4, <2>5, <2>6, <2>7, AppendKeeps, db' = Appended(ds)
<1>8. Exact(s)' /\ Complete(s)' /\ Pending(s)'
  BY <1>1, <1>2, <1>4, <1>7, FlushedContent
<1>9. ASSUME NEW r \in Streams, r # s
      PROVE  Untouched(r)
  BY <1>5, <1>7, <1>9, OtherContent
<1>10. ContentExact'
  BY <1>1, <1>2, <1>7, <1>8, <1>9 DEF ContentExact, Untouched
<1>11. ProjectionAfterSource'
  BY <1>1, <1>6, <1>7, ProjectionsFollow
<1>12. SameOperations
  BY <1>6, <1>7, OperationsStay
<1> QED BY <1>1, <1>5, <1>7, <1>10, <1>11, <1>12, KeptTogether DEF SameRecords

\* _flush_after_latency: the timer's flush.
LEMMA TimerFlushStep ==
    ASSUME StreamCore, NEW s \in Streams, TimerFlush(s)
    PROVE  StreamCore'
<1> USE DEF batch, producer, Quiet
<1>1. ProducerTypeOK /\ timer[s].at = "flush" /\ BufferInStage
  BY Basics DEF TimerFlush, StreamCore, JournalInv
<1>2. held[s] /\ timer[s].take = buf[s] /\ faults \in 0..MaxFaults /\ bg \in [Streams -> BOOLEAN]
  BY <1>1 DEF ProducerTypeOK
<1>3. PICK ds : ds = BatchDrafts(s, buf[s])
  OBVIOUS
<1>4. CASE ds # <<>> /\ CanAppend(ds, {"open"})
  <2>1. /\ db' = Appended(ds) /\ buf' = [buf EXCEPT ![s] = <<>>]
        /\ timer' = [timer EXCEPT ![s] = Publishing(MarkOf(db'.log, ds))]
        /\ pc' = pc /\ cur' = cur /\ ok' = ok /\ hurt' = hurt /\ sent' = sent /\ held' = held /\ att' = att
        /\ sub' = sub /\ done' = done /\ faults' = faults /\ bg' = bg
    BY <1>2, <1>3, <1>4 DEF TimerFlush
  <2>2. buf[s] # <<>>
    BY <1>3, <1>4 DEF BatchDrafts
  <2>3. JournalKept /\ SameRecords
    BY <1>2, <1>3, <1>4, <2>1, <2>2, FlushKeeps
  <2>4. PICK t : t = Publishing(MarkOf(db'.log, ds))
    OBVIOUS
  <2>5. t = [at |-> t.at, take |-> t.take, mark |-> t.mark] /\ t.at \in {"none", "publish"}
    BY <2>4 DEF Publishing, NoTimer
  <2>6. ~ProducerHolds(s)
    BY <1>1 DEF BufferInStage, BatchFree
  <2> QED BY <1>2, <2>1, <2>3, <2>4, <2>5, <2>6, TimerMoves
<1>5. CASE ds # <<>> /\ ~CanAppend(ds, {"open"})
  <2>1. TimerFails(s) /\ faults' = faults
    BY <1>2, <1>3, <1>5 DEF TimerFlush
  <2>2. bg' \in [Streams -> BOOLEAN]
    BY <1>2, <2>1 DEF TimerFails
  <2> QED BY <1>2, <2>1, <2>2, TimerGone DEF TimerFails
<1>6. CASE ds = <<>>
  <2>1. /\ timer' = [timer EXCEPT ![s] = NoTimer]
        /\ UNCHANGED <<db, producer, batch, bg, att, mark>> /\ Quiet
    BY <1>2, <1>3, <1>6 DEF TimerFlush
  <2> QED BY <1>2, <2>1, TimerGone
<1> QED BY <1>4, <1>5, <1>6

\* Where an error leads from each stage.
LEMMA ErrorPaths ==
    ASSUME Invoking, pc \in Stages
    PROVE  /\ OnError(pc) \in Stages \ {"ended"}
           /\ pc \in {"start", "startPub", "xOp", "xOpPub"} => OnError(pc) = "idle"
           /\ pc = "openEvent" => OnError(pc) = "openAbort"
           /\ pc \in {"open", "openAbort", "openAbortPub"} => OnError(pc) = "openSettle"
           /\ pc \in {"read", "flush", "flushPub", "extra", "extraPub"} => OnError(pc) = "xSettle"
           /\ pc \in {"settle", "finish", "commit", "commitPub", "xSettle"} => OnError(pc) = "xLock"
           /\ pc \in {"xLock", "xFlush", "xFlushPub"} => OnError(pc) = "xAbort"
           /\ pc \in {"reserve", "openSettle", "opEnd", "opEndPub", "xAbort", "xAbortPub"} =>
                OnError(pc) = "xOp"
           /\ \/ pc \in {"start", "startPub", "xOp", "xOpPub"} \/ pc = "openEvent"
              \/ pc \in {"open", "openAbort", "openAbortPub"}
              \/ pc \in {"read", "flush", "flushPub", "extra", "extraPub"}
              \/ pc \in {"settle", "finish", "commit", "commitPub", "xSettle"}
              \/ pc \in {"xLock", "xFlush", "xFlushPub"}
              \/ pc \in {"reserve", "openSettle", "opEnd", "opEndPub", "xAbort", "xAbortPub"}
<1>1. \/ pc \in {"start", "startPub", "xOp", "xOpPub"} \/ pc = "openEvent"
      \/ pc \in {"open", "openAbort", "openAbortPub"}
      \/ pc \in {"read", "flush", "flushPub", "extra", "extraPub"}
      \/ pc \in {"settle", "finish", "commit", "commitPub", "xSettle"}
      \/ pc \in {"xLock", "xFlush", "xFlushPub"}
      \/ pc \in {"reserve", "openSettle", "opEnd", "opEndPub", "xAbort", "xAbortPub"}
  BY DEF Invoking, Stages
<1>2. CASE pc \in {"start", "startPub", "xOp", "xOpPub"}
  <2>1. OnError(pc) = "idle"
    BY <1>2 DEF OnError
  <2> QED BY <1>1, <1>2, <2>1 DEF Stages
<1>3. CASE pc = "openEvent"
  <2>1. OnError(pc) = "openAbort"
    BY <1>3 DEF OnError
  <2> QED BY <1>1, <1>3, <2>1 DEF Stages
<1>4. CASE pc \in {"open", "openAbort", "openAbortPub"}
  <2>1. OnError(pc) = "openSettle"
    BY <1>4 DEF OnError
  <2> QED BY <1>1, <1>4, <2>1 DEF Stages
<1>5. CASE pc \in {"read", "flush", "flushPub", "extra", "extraPub"}
  <2>1. OnError(pc) = "xSettle"
    BY <1>5 DEF OnError
  <2> QED BY <1>1, <1>5, <2>1 DEF Stages
<1>6. CASE pc \in {"settle", "finish", "commit", "commitPub", "xSettle"}
  <2>1. OnError(pc) = "xLock"
    BY <1>6 DEF OnError
  <2> QED BY <1>1, <1>6, <2>1 DEF Stages
<1>7. CASE pc \in {"xLock", "xFlush", "xFlushPub"}
  <2>1. OnError(pc) = "xAbort"
    BY <1>7 DEF OnError
  <2> QED BY <1>1, <1>7, <2>1 DEF Stages
<1>8. CASE pc \in {"reserve", "openSettle", "opEnd", "opEndPub", "xAbort", "xAbortPub"}
  <2>1. OnError(pc) = "xOp"
    BY <1>8 DEF OnError
  <2> QED BY <1>1, <1>8, <2>1 DEF Stages
<1> QED BY <1>1, <1>2, <1>3, <1>4, <1>5, <1>6, <1>7, <1>8

\* What an error that interrupts the cleanup may leave behind.
Excused ==
    pc \in Cleanup =>
        \/ cur \in hurt'
        \/ pc \in {"xAbort", "openAbort"} /\ ~db.claim
        \/ pc = "xFlush"
        \/ pc = "xOp" /\ (~db.claim \/ Logged(<<"opEnd", cur>>))

\* The types after a batch was discarded, or not.
LEMMA DiscardKeepsTypes ==
    ASSUME ProducerTypeOK, NEW s \in Streams, Discarded(s), cur' = cur, ok' = ok, done' = done,
           sent' = sent, bg' = bg, att' = att, pc' \in Stages, hurt' \subseteq Streams,
           faults' \in 0..MaxFaults
    PROVE  ProducerTypeOK' /\ ~held'[s] /\ buf'[s] = <<>>
           /\ (timer[s].at \notin {"flush", "publish"} => timer'[s].at \notin {"flush", "publish"})
           /\ \A r \in Streams : r # s => held'[r] = held[r] /\ buf'[r] = buf[r] /\ timer'[r] = timer[r]
<1>1. <<>> \in Seq(Entries) /\ Len(<<>>) =< MaxFragments
  BY StreamAssumption
<1>2. /\ held' = [held EXCEPT ![s] = FALSE] /\ buf' = [buf EXCEPT ![s] = <<>>]
      /\ timer' = [timer EXCEPT ![s] = IF @.at = "publish" THEN @ ELSE NoTimer]
  BY DEF Discarded
<1>3. /\ held' \in [Streams -> BOOLEAN] /\ ~held'[s] /\ \A r \in Streams : r # s => held'[r] = held[r]
  BY <1>2 DEF ProducerTypeOK
<1>4. /\ buf' \in [Streams -> Seq(Entries)] /\ buf'[s] = <<>>
      /\ \A r \in Streams : r # s => buf'[r] = buf[r]
  BY <1>1, <1>2 DEF ProducerTypeOK
<1>5. /\ DOMAIN timer' = Streams /\ \A r \in Streams : r # s => timer'[r] = timer[r]
      /\ (timer'[s] = timer[s] /\ timer[s].at = "publish") \/ timer'[s] = NoTimer
  BY <1>2 DEF ProducerTypeOK
<1>6. /\ timer'[s] = [at |-> timer'[s].at, take |-> timer'[s].take, mark |-> timer'[s].mark]
      /\ timer'[s].at \in {"none", "publish"} /\ (timer'[s].at = "publish" => timer[s].at = "publish")
  BY <1>5 DEF ProducerTypeOK, NoTimer
<1>7. ASSUME NEW r \in Streams
      PROVE  /\ timer'[r] = [at |-> timer'[r].at, take |-> timer'[r].take, mark |-> timer'[r].mark]
             /\ timer'[r].at \in {"none", "asleep", "flush", "publish"}
             /\ Len(buf'[r]) =< MaxFragments
             /\ ~held'[r] => buf'[r] = <<>> /\ timer'[r].at \in {"none", "publish"}
             /\ timer'[r].at = "flush" => timer'[r].take = buf'[r]
  <2>1. CASE r = s
    BY <1>1, <1>4, <1>6, <2>1
  <2>2. CASE r # s
    BY <1>3, <1>4, <1>5, <2>2 DEF ProducerTypeOK
  <2> QED BY <2>1, <2>2
<1>8. ProducerTypeOK'
  BY <1>3, <1>4, <1>5, <1>7 DEF ProducerTypeOK
<1> QED BY <1>3, <1>4, <1>5, <1>6, <1>8

\* An await of the invocation raises.
LEMMA Raising ==
    ASSUME StreamCore, Invoking, Raise, hurt' = hurt \/ hurt' = hurt \cup {cur}, faults' \in 0..MaxFaults,
           sub' = sub, done' = done, pc = "xLock" => held[cur], Excused
    PROVE  StreamCore'
<1>1. ProducerTypeOK /\ Current /\ cur \in Streams /\ ~ok /\ ~(db.claim /\ db.run # "running")
  BY Basics DEF Invoking
<1>2. /\ pc' = OnError(pc) /\ DiscardedAt(pc)
      /\ db' = db /\ cur' = cur /\ ok' = ok /\ sent' = sent /\ bg' = bg /\ att' = att
  BY DEF Raise
<1>3. pc \in Stages /\ pc # "ended"
  BY <1>1 DEF ProducerTypeOK, Invoking
<1>4. /\ hurt \subseteq hurt' /\ hurt' \subseteq Streams /\ pc' \in Stages \ {"ended"}
      /\ (cur \in hurt => cur \in hurt')
  BY <1>1, <1>2, <1>3, ErrorPaths DEF ProducerTypeOK
<1>5. /\ ProducerTypeOK'
      /\ \A r \in Streams : r # cur => held'[r] = held[r] /\ buf'[r] = buf[r] /\ timer'[r] = timer[r]
      /\ IF pc \in {"xAbort", "openAbort"}
         THEN ~held'[cur] /\ buf'[cur] = <<>>
         ELSE held'[cur] = held[cur] /\ buf'[cur] = buf[cur] /\ timer'[cur] = timer[cur]
  <2>1. CASE pc \in {"xAbort", "openAbort"}
    <3>1. Discarded(cur)
      BY <1>2, <2>1 DEF DiscardedAt
    <3> QED BY <1>1, <1>2, <1>4, <2>1, <3>1, DiscardKeepsTypes
  <2>2. CASE pc \notin {"xAbort", "openAbort"}
    <3>1. held' = held /\ buf' = buf /\ timer' = timer
      BY <1>2, <2>2 DEF DiscardedAt
    <3>2. /\ ok \in BOOLEAN /\ done \in Nat /\ att \in [Streams -> {"none", "reserved", "settled"}]
      BY <1>1 DEF ProducerTypeOK
    <3> QED BY <1>1, <1>2, <1>4, <2>2, <3>1, <3>2, SameBatches
  <2> QED BY <2>1, <2>2
<1>6. JournalKept /\ SameRecords
  <2>1. \A s \in Streams : held'[s] => held[s] /\ buf'[s] = buf[s]
    BY <1>5
  <2> QED BY <1>2, <2>1, StillJournal
<1>7. OthersStay
  BY <1>2, <1>4, <1>5, <1>6, SameOthers
<1>8. Current'
  <2> USE <1>1, <1>2, <1>4, <1>5, <1>6 DEF Current, SameRecords, SameOperations, Excused
  <2>1. CASE pc \in {"start", "startPub", "xOp", "xOpPub"}
    <3>1. pc' = "idle" /\ held'[cur] = held[cur]
      BY <2>1, <1>3, ErrorPaths
    <3>2. ~(ok' = TRUE) /\ ~ProducerHolds(cur)' /\ ~held[cur]
      BY <2>1, <3>1 DEF ProducerHolds, Batching
    <3>3. cur \notin hurt' /\ db'.claim =>
            db'.stream[cur] # "open" /\ att'[cur] # "reserved" /\ cur \notin OpenOperations'
      BY <2>1 DEF OpenOperations, Cleanup
    <3> QED BY <3>1, <3>2, <3>3 DEF Batching, ProducerHolds
  <2>2. CASE pc = "openEvent"
    <3>1. pc' = "openAbort"
      BY <2>2, <1>3, ErrorPaths
    <3> QED BY <2>2, <3>1 DEF Batching, ProducerHolds, Invoking
  <2>3. CASE pc \in {"open", "openAbort", "openAbortPub"}
    <3>1. pc' = "openSettle"
      BY <2>3, <1>3, ErrorPaths
    <3> QED BY <2>3, <3>1 DEF Batching, ProducerHolds, Invoking, Cleanup
  <2>4. CASE pc \in {"read", "flush", "flushPub", "extra", "extraPub"}
    <3>1. pc' = "xSettle"
      BY <2>4, <1>3, ErrorPaths
    <3> QED BY <2>4, <3>1 DEF Batching, ProducerHolds, Invoking
  <2>5. CASE pc \in {"settle", "finish", "commit", "commitPub", "xSettle"}
    <3>1. pc' = "xLock"
      BY <2>5, <1>3, ErrorPaths
    <3> QED BY <2>5, <3>1 DEF Batching, ProducerHolds, Invoking, Cleanup
  <2>6. CASE pc \in {"xLock", "xFlush", "xFlushPub"}
    <3>1. pc' = "xAbort"
      BY <2>6, <1>3, ErrorPaths
    <3> QED BY <2>6, <3>1 DEF Batching, ProducerHolds, Invoking
  <2>7. CASE pc \in {"reserve", "openSettle", "opEnd", "opEndPub", "xAbort", "xAbortPub"}
    <3>1. pc' = "xOp"
      BY <2>7, <1>3, ErrorPaths
    <3> QED BY <2>7, <3>1 DEF Batching, ProducerHolds, Invoking, Cleanup
  <2> QED BY <1>3, <2>1, <2>2, <2>3, <2>4, <2>5, <2>6, <2>7, ErrorPaths
<1>9. /\ ok' => ~Invoking'
      /\ db'.claim /\ db'.run # "running" => pc' \in {"terminalPub", "result", "ended"}
  BY <1>1, <1>2
<1> QED BY <1>1, <1>2, <1>3, <1>5, <1>6, <1>7, <1>8, <1>9, StepHolds

\* An await that fails before it had an effect.
LEMMA FaultStep ==
    ASSUME StreamCore, Fault
    PROVE  StreamCore'
<1>1. faults \in 0..MaxFaults
  BY Basics DEF ProducerTypeOK
<1>2. faults' \in 0..MaxFaults
  BY <1>1, StreamAssumption DEF Fault
<1>3. Excused
  BY DEF Excused, Fault
<1> QED BY <1>2, <1>3, Raising DEF Fault

\* The repository refuses a call of the invocation.
LEMMA RefusedStep ==
    ASSUME StreamCore, Invoking, Refused, Quiet, pc # "xLock", Excused
    PROVE  StreamCore'
<1>1. faults \in 0..MaxFaults
  BY Basics DEF ProducerTypeOK
<1> QED BY <1>1, Raising DEF Refused, Quiet

\* One event of the invocation is stored.
LEMMA EventStored ==
    ASSUME StreamCore, Invoking, NEW e, EventOK(e),
           e.key[1] \in {"opStart", "opEnd", "open", "progress", "usage"},
           e.key[1] = "progress" => Sourced(e), CanAppend(<<e>>, {"open"}), db' = Appended(<<e>>),
           sent' = sent, held' = held, buf' = buf
    PROVE  /\ JournalKept /\ Grown(db'.log, <<e>>)
           /\ db'.run = db.run /\ db'.claim = db.claim /\ db'.stream = db.stream
<1>1. /\ JournalTypeOK /\ TerminalFence /\ ContentExact /\ ProjectionAfterSource
      /\ db.run = "running" \/ ~db.claim
  BY Basics DEF Invoking
<1>2. PICK ds : ds = <<e>>
  OBVIOUS
<1>3. Drafts(ds) /\ \A i \in DOMAIN ds : ds[i] = e
  BY <1>2, OneDraft
<1>4. /\ \A i \in DOMAIN ds : ds[i].key[1] \notin {"life", "batch"}
      /\ \A i \in DOMAIN ds, r \in Streams, how \in {"committed", "aborted"} :
           ds[i].key # <<"end", r, how>>
      /\ \A i \in DOMAIN ds : ds[i].key[1] = "progress" => Sourced(ds[i])
  BY <1>3
<1>5. PICK acc : acc = {"open"}
  OBVIOUS
<1>6. CanAppend(ds, acc) /\ db' = Appended(ds) /\ \A i \in DOMAIN ds : ds[i].key[1] # "life"
  BY <1>2, <1>4, <1>5
<1>7. \/ db.run = "running" \/ ~db.claim
      \/ acc = {"open"} /\ \A i \in DOMAIN ds : ds[i].stream \in Streams
  BY <1>1
<1>8. /\ JournalTypeOK' /\ TerminalFence' /\ Grown(db'.log, ds)
      /\ db'.run = db.run /\ db'.claim = db.claim /\ db'.stream = db.stream /\ db'.public = db.public
  BY ONLY <1>1, <1>3, <1>4, <1>6, <1>7, AppendKeeps
<1>9. ContentExact' /\ ProjectionAfterSource'
  <2>1. /\ \A s \in Streams : db'.stream[s] = "committed" => db.stream[s] = "committed" \/ Complete(s)
        /\ \A s \in Streams : held'[s] => held[s] /\ buf'[s] = buf[s]
    BY <1>8
  <2> QED BY <1>1, <1>4, <1>8, <2>1, ContentKept
<1> QED BY <1>1, <1>2, <1>8, <1>9, KeptTogether

\* What an event of the current invocation says of the others.
LEMMA OthersUntold ==
    ASSUME NEW ds, Grown(db'.log, ds),
           \A i \in DOMAIN ds, s \in Streams : s # cur =>
             ds[i].key # <<"opStart", s>> /\ ds[i].key # <<"opEnd", s>>,
           db'.claim = db.claim, hurt' = hurt,
           \A s \in Streams : s # cur => /\ db'.stream[s] = db.stream[s] /\ held'[s] = held[s]
                                         /\ att'[s] = att[s] /\ sent'[s] = sent[s]
    PROVE  OthersStay
<1>1. ASSUME NEW s \in Streams, s # cur
      PROVE  /\ Logged(<<"opStart", s>>)' <=> Logged(<<"opStart", s>>)
             /\ Logged(<<"opEnd", s>>) => Logged(<<"opEnd", s>>)'
  BY <1>1, LoggedGrows
<1> QED BY <1>1 DEF OthersStay

\* The end of a step that stores an event and leaves the batches alone.
LEMMA StoredStep ==
    ASSUME StreamCore, Invoking, NEW e, EventOK(e),
           e.key[1] \in {"opStart", "opEnd", "open", "progress", "usage"},
           \A s \in Streams : s # cur => e.key # <<"opStart", s>> /\ e.key # <<"opEnd", s>>,
           e.key[1] = "progress" => Sourced(e), CanAppend(<<e>>, {"open"}), db' = Appended(<<e>>),
           cur' = cur, ok' = ok, hurt' = hurt, sent' = sent, buf' = buf, held' = held, timer' = timer,
           bg' = bg, att' = att, Quiet, pc' \in Stages,
           JournalKept /\ Grown(db'.log, <<e>>) => Current'
    PROVE  StreamCore'
<1>1. ProducerTypeOK /\ cur \in Streams /\ ~ok /\ ~(db.claim /\ db.run # "running") /\ pc # "ended"
  BY Basics DEF Invoking
<1>2. /\ JournalKept /\ Grown(db'.log, <<e>>)
      /\ db'.run = db.run /\ db'.claim = db.claim /\ db'.stream = db.stream
  BY EventStored
<1>3. OthersStay
  <2>1. PICK ds : ds = <<e>>
    OBVIOUS
  <2>2. /\ Grown(db'.log, ds)
        /\ \A i \in DOMAIN ds, s \in Streams : s # cur =>
             ds[i].key # <<"opStart", s>> /\ ds[i].key # <<"opEnd", s>>
    BY <1>2, <2>1
  <2> QED BY <1>2, <2>2, OthersUntold
<1>4. ProducerTypeOK'
  <2>1. /\ ok \in BOOLEAN /\ hurt \subseteq Streams /\ faults \in 0..MaxFaults /\ done \in Nat
        /\ att \in [Streams -> {"none", "reserved", "settled"}]
    BY <1>1 DEF ProducerTypeOK
  <2> QED BY <1>1, <2>1, SameBatches DEF Quiet
<1> QED BY <1>1, <1>2, <1>3, <1>4, StepHolds DEF Quiet

\* AgentOperationController.start.
LEMMA StartOperationStep ==
    ASSUME StreamCore, StartOperation
    PROVE  StreamCore'
<1>1. Invoking /\ pc = "start" /\ Quiet
  BY DEF StartOperation, Invoking
<1>2. Current /\ cur \in Streams /\ ~ok
  BY <1>1, Basics
<1>3. CASE Refused
  <2>1. Excused
    BY <1>1 DEF Excused, Cleanup
  <2> QED BY <1>1, <1>3, <2>1, RefusedStep
<1>4. CASE ~Refused
  <2>1. PICK e : e = OperationStarted(cur)
    OBVIOUS
  <2>2. /\ CanAppend(<<e>>, {"open"}) /\ db' = Appended(<<e>>) /\ pc' \in {"startPub", "reserve"}
        /\ cur' = cur /\ ok' = ok /\ hurt' = hurt /\ sent' = sent /\ buf' = buf /\ held' = held
        /\ timer' = timer /\ bg' = bg /\ att' = att
    BY <1>4, <2>1 DEF StartOperation, Persist, Stored, batch
  <2>3. EventOK(e) /\ e.key = <<"opStart", cur>>
    BY <2>1 DEF EventOK, Event, OperationStarted
  <2>4. ASSUME JournalKept, Grown(db'.log, <<e>>)
        PROVE  Current'
    <3>1. db'.stream = db.stream
      BY <1>1, <2>2, <2>3, EventStored
    <3> QED BY <1>1, <1>2, <2>2, <3>1 DEF Current, Invoking, Batching, ProducerHolds
  <2>5. pc' \in Stages
    BY <2>2 DEF Stages
  <2> QED BY <1>1, <2>2, <2>3, <2>4, <2>5, StoredStep
<1> QED BY <1>3, <1>4

\* The receipt of open_model_stream.
LEMMA OpenEventStep ==
    ASSUME StreamCore, OpenEvent
    PROVE  StreamCore'
<1>1. Invoking /\ pc = "openEvent" /\ Quiet
  BY DEF OpenEvent, Invoking
<1>2. Current /\ cur \in Streams /\ ~ok
  BY <1>1, Basics
<1>3. CASE Refused
  <2>1. Excused
    BY <1>1 DEF Excused, Cleanup
  <2> QED BY <1>1, <1>3, <2>1, RefusedStep
<1>4. CASE ~Refused
  <2>1. PICK e : e = Event(<<"open", cur>>, cur, FALSE, "receipt")
    OBVIOUS
  <2>2. /\ CanAppend(<<e>>, {"open"}) /\ db' = Appended(<<e>>) /\ pc' = "read"
        /\ cur' = cur /\ ok' = ok /\ hurt' = hurt /\ sent' = sent /\ buf' = buf /\ held' = held
        /\ timer' = timer /\ bg' = bg /\ att' = att
    BY <1>4, <2>1 DEF OpenEvent, Persist, Stored, batch
  <2>3. EventOK(e) /\ e.key = <<"open", cur>>
    BY <2>1 DEF EventOK, Event
  <2>4. ASSUME JournalKept, Grown(db'.log, <<e>>)
        PROVE  Current'
    <3>1. db'.stream = db.stream /\ db'.claim = db.claim
      BY <1>1, <2>2, <2>3, EventStored
    <3>2. buf[cur] = <<>> => Len(buf[cur]) < MaxFragments
      BY StreamAssumption
    <3> QED BY <1>1, <1>2, <2>2, <3>1, <3>2 DEF Current, Invoking, Batching, ProducerHolds
  <2>5. pc' \in Stages
    BY <2>2 DEF Stages
  <2> QED BY <1>1, <2>2, <2>3, <2>4, <2>5, StoredStep
<1> QED BY <1>3, <1>4

\* The operation succeeds.
LEMMA SucceedOperationStep ==
    ASSUME StreamCore, SucceedOperation
    PROVE  StreamCore'
<1>1. Invoking /\ pc = "opEnd" /\ Quiet
  BY DEF SucceedOperation, Invoking
<1>2. Current /\ cur \in Streams /\ ~ok
  BY <1>1, Basics
<1>3. CASE Refused
  <2>1. Excused
    BY <1>1 DEF Excused, Cleanup
  <2> QED BY <1>1, <1>3, <2>1, RefusedStep
<1>4. CASE ~Refused
  <2>1. PICK e : e = OperationFinished(cur, "succeeded")
    OBVIOUS
  <2>2. /\ CanAppend(<<e>>, {"open"}) /\ db' = Appended(<<e>>) /\ pc' \in {"opEndPub", "idle"}
        /\ cur' = cur /\ ok' = ok /\ hurt' = hurt /\ sent' = sent /\ buf' = buf /\ held' = held
        /\ timer' = timer /\ bg' = bg /\ att' = att
    BY <1>4, <2>1 DEF SucceedOperation, Persist, Stored, batch
  <2>3. EventOK(e) /\ e.key = <<"opEnd", cur>>
    BY <2>1 DEF EventOK, Event, OperationFinished
  <2>4. ASSUME JournalKept, Grown(db'.log, <<e>>)
        PROVE  Current'
    <3>1. db'.stream = db.stream /\ db'.claim = db.claim
      BY <1>1, <2>2, <2>3, EventStored
    <3>2. Logged(<<"opEnd", cur>>)' /\ cur \notin OpenOperations'
      <4>1. \E j \in DOMAIN <<e>> : <<e>>[j].key = <<"opEnd", cur>>
        BY <2>3
      <4> QED BY <2>2, <2>4, <4>1, LoggedGrows DEF OpenOperations
    <3> QED BY <1>1, <1>2, <2>2, <3>1, <3>2 DEF Current, Invoking, Batching, ProducerHolds
  <2>5. pc' \in Stages
    BY <2>2 DEF Stages
  <2> QED BY <1>1, <2>2, <2>3, <2>4, <2>5, StoredStep
<1> QED BY <1>3, <1>4

\* A new event that costs nothing is accepted while there is a claim.
LEMMA FreeEvent ==
    ASSUME JournalTypeOK, NEW e, EventOK(e), e.key[1] \notin {"batch", "text"}, db.claim, ~Logged(e.key),
           e.stream # 0 => db.stream[e.stream] = "open"
    PROVE  CanAppend(<<e>>, {"open"})
<1>1. PICK ds : ds = <<e>>
  OBVIOUS
<1>2. Drafts(ds) /\ \A i \in DOMAIN ds : ds[i] = e
  BY <1>1, OneDraft
<1>3. WithinBudget(ds)
  BY <1>2, FreeFits
<1>4. Places(e) = {}
  BY DEF Places, Logged
<1>5. NoConflict(e) /\ Admitted(e, {"open"})
  BY <1>4 DEF NoConflict, Admitted
<1>6. CanAppend(ds, {"open"})
  BY <1>2, <1>3, <1>5 DEF CanAppend
<1> QED BY <1>1, <1>6

\* The operation fails; only a lost claim or an operation that is over refuses that.
LEMMA FailOperationStep ==
    ASSUME StreamCore, FailOperation
    PROVE  StreamCore'
<1>1. Invoking /\ pc = "xOp" /\ Quiet
  BY DEF FailOperation, Invoking
<1>2. Current /\ cur \in Streams /\ ~ok /\ JournalTypeOK
  BY <1>1, Basics
<1>3. PICK e : e = OperationFinished(cur, "failed")
  OBVIOUS
<1>4. EventOK(e) /\ e.key = <<"opEnd", cur>> /\ e.stream = 0
  BY <1>3 DEF EventOK, Event, OperationFinished
<1>5. CASE ~CanAppend(<<e>>, {"open"})
  <2>1. Refused
    BY <1>3, <1>5 DEF FailOperation, Persist
  <2>2. ~db.claim \/ Logged(<<"opEnd", cur>>)
    <3>1. e.key[1] \notin {"batch", "text"}
      BY <1>4
    <3> QED BY <1>2, <1>4, <1>5, <3>1, FreeEvent
  <2>3. Excused
    BY <1>1, <2>2 DEF Excused
  <2> QED BY <1>1, <2>1, <2>3, RefusedStep
<1>6. CASE CanAppend(<<e>>, {"open"})
  <2>2. /\ db' = Appended(<<e>>) /\ pc' \in {"xOpPub", "idle"}
        /\ cur' = cur /\ ok' = ok /\ hurt' = hurt /\ sent' = sent /\ buf' = buf /\ held' = held
        /\ timer' = timer /\ bg' = bg /\ att' = att
    BY <1>3, <1>6 DEF FailOperation, Persist, Stored, batch
  <2>4. ASSUME JournalKept, Grown(db'.log, <<e>>)
        PROVE  Current'
    <3>1. db'.stream = db.stream /\ db'.claim = db.claim
      BY <1>1, <1>4, <1>6, <2>2, EventStored
    <3>2. Logged(<<"opEnd", cur>>)' /\ cur \notin OpenOperations'
      <4>1. \E j \in DOMAIN <<e>> : <<e>>[j].key = <<"opEnd", cur>>
        BY <1>4
      <4> QED BY <2>2, <2>4, <4>1, LoggedGrows DEF OpenOperations
    <3> QED BY <1>1, <1>2, <2>2, <3>1, <3>2 DEF Current, Invoking, Batching, ProducerHolds
  <2>5. pc' \in Stages
    BY <2>2 DEF Stages
  <2> QED BY <1>1, <1>4, <1>6, <2>2, <2>4, <2>5, StoredStep
<1> QED BY <1>5, <1>6

\* The last accepted progress is in the journal once the batch is empty.
LEMMA ProgressSourced ==
    ASSUME NEW s \in Streams, sent[s] \in Seq(Kinds), sent[s] # <<>>, Last(sent[s]) = "progress",
           Exact(s), Pending(s), buf[s] = <<>>, NEW e, e.stream = s, e.body = Len(sent[s])
    PROVE  Sourced(e)
<1>1. PICK c : c = Len(sent[s])
  OBVIOUS
<1>2. c \in DOMAIN sent[s] /\ sent[s][c] = "progress"
  BY <1>1 DEF Last
<1>3. c \in Deltas(s, FALSE)
  BY <1>2 DEF Deltas, Finishing, Shown, Part
<1>4. Journaled(s, FALSE, c)
  <2>1. \A pub \in BOOLEAN : \A d \in Deltas(s, pub) :
          Journaled(s, pub, d) \/ \E k \in DOMAIN buf[s] : buf[s][k].c = d
    BY DEF Pending
  <2>2. FALSE \in BOOLEAN /\ DOMAIN buf[s] = {}
    OBVIOUS
  <2>3. PICK no \in BOOLEAN : no = FALSE
    OBVIOUS
  <2>4. c \in Deltas(s, no)
    BY <1>3, <2>3
  <2>5. Journaled(s, no, c)
    BY <2>1, <2>2, <2>4
  <2> QED BY <2>3, <2>5
<1>5. PICK i \in Batches(s, FALSE) : \E k \in DOMAIN db.log[i].body : db.log[i].body[k].c = c
  BY <1>4 DEF Journaled
<1>6. PICK k \in DOMAIN db.log[i].body : db.log[i].body[k].c = c
  BY <1>5
<1>7. db.log[i].body[k] = Delta(s, db.log[i].body[k].c)
  BY <1>5 DEF Exact
<1>8. db.log[i].body[k] = [c |-> c, part |-> "progress"]
  BY <1>2, <1>6, <1>7 DEF Delta, Part
<1>9. /\ i \in DOMAIN db.log /\ db.log[i].key[1] = "batch" /\ db.log[i].stream = s /\ ~db.log[i].pub
  BY <1>5 DEF Batches
<1> QED BY <1>1, <1>8, <1>9 DEF Sourced

\* The projection of a progress chunk, the usage of a finish chunk.
LEMMA ExtraStep ==
    ASSUME StreamCore, Extra
    PROVE  StreamCore'
<1>1. Invoking /\ pc = "extra" /\ Quiet
  BY DEF Extra, Invoking
<1>2. Current /\ cur \in Streams /\ ~ok /\ ProducerTypeOK /\ ContentExact
  BY <1>1, Basics
<1>3. CASE Refused
  <2>1. Excused
    BY <1>1 DEF Excused, Cleanup
  <2> QED BY <1>1, <1>3, <2>1, RefusedStep
<1>4. CASE ~Refused
  <2>1. PICK c : c = Len(sent[cur])
    OBVIOUS
  <2>2. PICK e : e = IF Kind = "progress"
                     THEN Event(<<"progress", cur, c>>, cur, TRUE, c)
                     ELSE Event(<<"usage", cur, c>>, cur, FALSE, c)
    OBVIOUS
  <2>3. Persist(<<e>>, "extraPub", AfterExtra)
    BY <2>1, <2>2 DEF Extra
  <2>4. /\ CanAppend(<<e>>, {"open"}) /\ db' = Appended(<<e>>) /\ pc' \in {"extraPub", AfterExtra}
        /\ cur' = cur /\ ok' = ok /\ hurt' = hurt /\ sent' = sent /\ buf' = buf /\ held' = held
        /\ timer' = timer /\ bg' = bg /\ att' = att
    BY <1>4, <2>3 DEF Persist, Stored, batch
  <2>5. /\ EventOK(e) /\ e.key[1] \in {"progress", "usage"} /\ e.stream = cur /\ e.body = c
        /\ e.key[1] = "progress" => Kind = "progress"
    <3>1. CASE Kind = "progress"
      <4>1. e = Event(<<"progress", cur, c>>, cur, TRUE, c)
        BY <2>2, <3>1
      <4> QED BY <3>1, <4>1 DEF EventOK, Event
    <3>2. CASE Kind # "progress"
      <4>1. e = Event(<<"usage", cur, c>>, cur, FALSE, c)
        BY <2>2, <3>2
      <4> QED BY <4>1 DEF EventOK, Event
    <3> QED BY <3>1, <3>2
  <2>6. pc' \in {"extraPub", "read", "settle"}
    BY <2>4 DEF AfterExtra
  <2>7. e.key[1] = "progress" => Sourced(e)
    <3>1. sent[cur] \in Seq(Kinds) /\ sent[cur] # <<>> /\ buf[cur] = <<>>
      BY <1>1, <1>2 DEF ProducerTypeOK, Current
    <3>2. Exact(cur) /\ Pending(cur)
      BY <1>1, <1>2 DEF ContentExact, Current, Batching
    <3> QED BY <1>2, <2>1, <2>5, <3>1, <3>2, ProgressSourced DEF Kind
  <2>8. ASSUME JournalKept, Grown(db'.log, <<e>>)
        PROVE  Current'
    <3>1. db'.stream = db.stream /\ db'.claim = db.claim
      BY <1>1, <2>4, <2>5, <2>7, EventStored
    <3>2. buf[cur] = <<>> => Len(buf[cur]) < MaxFragments
      BY StreamAssumption
    <3> QED BY <1>1, <1>2, <2>4, <2>6, <3>1, <3>2 DEF Current, Invoking, Batching, ProducerHolds, BatchFree
  <2>9. pc' \in Stages
    BY <2>6 DEF Stages
  <2>10. \A s \in Streams : e.key # <<"opStart", s>> /\ e.key # <<"opEnd", s>>
    BY <2>5
  <2> QED BY <1>1, <2>4, <2>5, <2>7, <2>8, <2>9, <2>10, StoredStep
<1> QED BY <1>3, <1>4

\* What a stream that was never opened has in the journal: nothing.
LEMMA OpenedContent ==
    ASSUME JournalTypeOK, ContentExact, ProjectionAfterSource, JournalTypeOK', NEW s \in Streams,
           sent[s] = <<>>, buf'[s] = <<>>, sent' = sent, db'.log = db.log, db'.stream[s] = "open",
           \A r \in Streams : r # s => /\ db'.stream[r] = db.stream[r] /\ db'.public[r] = db.public[r]
                                       /\ buf'[r] = buf[r] /\ held'[r] = held[r]
    PROVE  ContentExact' /\ ProjectionAfterSource'
<1>1. Grown(db'.log, <<>>)
  BY DEF Grown
<1>2. \A pub : Deltas(s, pub) = {} /\ Deltas(s, pub)' = {}
  BY DEF Deltas
<1>3. \A pub : Batches(s, pub)' = Batches(s, pub)
  BY DEF Batches
<1>4. Exact(s)'
  <2>1. \A pub \in BOOLEAN : \A i \in Batches(s, pub) : \A k \in DOMAIN db.log[i].body :
          db.log[i].body[k].c \in Deltas(s, pub)
    BY DEF ContentExact, Exact
  <2>2. \A pub \in BOOLEAN : \A i \in Batches(s, pub)' : \A k \in DOMAIN db'.log[i].body : FALSE
    BY <1>2, <1>3, <2>1
  <2> QED BY <2>2 DEF Exact
<1>5. Pending(s)'
  BY <1>2 DEF Pending
<1>6. ASSUME NEW r \in Streams, r # s
      PROVE  Untouched(r)
  BY <1>1, <1>6, OtherContent
<1>7. ContentExact'
  BY <1>4, <1>5, <1>6 DEF ContentExact, Untouched
<1>8. ProjectionAfterSource'
  BY <1>1, ProjectionsFollow
<1> QED BY <1>7, <1>8

\* open_model_stream: the stream and its batch.
LEMMA OpenStreamStep ==
    ASSUME StreamCore, NEW public \in BOOLEAN, OpenStream(public)
    PROVE  StreamCore'
<1>1. Invoking /\ pc = "open" /\ Quiet
  BY DEF OpenStream, Invoking
<1>2. /\ Current /\ cur \in Streams /\ ~ok /\ ProducerTypeOK /\ ~(db.claim /\ db.run # "running")
      /\ JournalTypeOK /\ TerminalFence /\ ContentExact /\ ProjectionAfterSource
  BY <1>1, Basics
<1>3. CASE Refused
  <2>1. Excused
    BY <1>1 DEF Excused, Cleanup
  <2> QED BY <1>1, <1>3, <2>1, RefusedStep
<1>4. CASE ~Refused
  <2>1. /\ CanOpen(cur) /\ db' = Opened(cur, public) /\ pc' = "openEvent"
        /\ held' = [held EXCEPT ![cur] = TRUE] /\ cur' = cur /\ ok' = ok /\ hurt' = hurt
        /\ sent' = sent /\ buf' = buf /\ timer' = timer /\ bg' = bg /\ att' = att
    BY <1>4 DEF OpenStream
  <2>2. /\ JournalTypeOK' /\ TerminalFence'
        /\ db'.log = db.log /\ db'.run = db.run /\ db'.claim = db.claim
        /\ db'.stream = [db.stream EXCEPT ![cur] = "open"]
        /\ db'.public = [db.public EXCEPT ![cur] = public]
    BY <1>2, <2>1, OpenKeeps
  <2>3. /\ db'.stream[cur] = "open" /\ db.claim /\ sent[cur] = <<>> /\ buf[cur] = <<>> /\ ~held[cur]
        /\ \A r \in Streams : r # cur => /\ db'.stream[r] = db.stream[r] /\ db'.public[r] = db.public[r]
                                         /\ held'[r] = held[r]
        /\ held'[cur]
    <3>1. ~held[cur] /\ sent[cur] = <<>>
      BY <1>1, <1>2 DEF Current, Batching
    <3> QED BY <1>2, <2>1, <2>2, <3>1 DEF ProducerTypeOK, CanOpen, JournalTypeOK
  <2>4. ContentExact' /\ ProjectionAfterSource'
    BY <1>2, <2>1, <2>2, <2>3, OpenedContent
  <2>5. Grown(db'.log, <<>>)
    BY <2>2 DEF Grown
  <2>6. JournalKept
    BY <1>2, <2>2, <2>4, <2>5, KeptTogether
  <2>7. OthersStay
    BY <2>1, <2>2, <2>3, <2>5, OthersUntold
  <2>8. Current'
    <3>1. OpenOperations' = OpenOperations
      BY <2>5, OperationsStay DEF SameOperations
    <3> QED BY <1>1, <1>2, <2>1, <2>2, <2>3, <3>1 DEF Current, Batching, Invoking, ProducerHolds
  <2>9. ProducerTypeOK'
    <3>1. held' \in [Streams -> BOOLEAN] /\ pc' \in Stages
      BY <1>2, <2>1 DEF ProducerTypeOK, Stages
    <3> QED BY <1>1, <1>2, <2>1, <2>3, <3>1 DEF ProducerTypeOK, Quiet
  <2> QED BY <1>1, <1>2, <2>1, <2>2, <2>6, <2>7, <2>8, <2>9, StepHolds DEF Quiet
<1> QED BY <1>3, <1>4

\* A chunk that is accepted joins the batch behind everything before it.
LEMMA AcceptedContent ==
    ASSUME StreamCore, NEW s \in Streams, held[s], db' = db, held' = held, NEW kind \in Kinds,
           sent' = [sent EXCEPT ![s] = Append(@, kind)],
           buf' = [buf EXCEPT ![s] = @ \o PendingDeltas(kind, Len(sent[s]) + 1)]
    PROVE  ContentExact'
<1>1. JournalTypeOK /\ ContentExact /\ ProducerTypeOK
  BY Basics
<1>2. /\ Exact(s) /\ Pending(s) /\ sent[s] \in Seq(Kinds) /\ buf[s] \in Seq(Entries)
      /\ \A r \in Streams : r # s => sent'[r] = sent[r] /\ buf'[r] = buf[r]
      /\ sent'[s] = Append(sent[s], kind)
  BY <1>1 DEF ContentExact, ProducerTypeOK
<1>3. PICK n : n = Len(sent[s]) + 1
  OBVIOUS
<1>4. /\ n \in Nat \ {0} /\ DOMAIN sent[s] = 1..(n - 1) /\ DOMAIN sent'[s] = 1..n
      /\ sent'[s][n] = kind /\ \A c \in DOMAIN sent[s] : sent'[s][c] = sent[s][c] /\ c < n /\ c \in Nat
  BY <1>2, <1>3
<1>5. \A part, r : Shown(r, part)' <=> Shown(r, part)
  BY DEF Shown
<1>6. ASSUME NEW pub \in BOOLEAN
      PROVE  /\ Deltas(s, pub) \subseteq Deltas(s, pub)'
             /\ Deltas(s, pub)' \subseteq Deltas(s, pub) \cup {n}
             /\ n \in Deltas(s, pub)' => kind \notin Finishing
             /\ \A c \in Deltas(s, pub) : c < n /\ c \in DOMAIN sent[s]
  <2>1. DOMAIN sent'[s] = DOMAIN sent[s] \cup {n}
    BY <1>4
  <2>2. ASSUME NEW c \in DOMAIN sent[s]
        PROVE  c \in Deltas(s, pub)' <=> c \in Deltas(s, pub)
    <3>1. sent'[s][c] = sent[s][c] /\ c \in DOMAIN sent'[s]
      BY <1>4, <2>1
    <3> QED BY <3>1 DEF Deltas, Shown
  <2>3. Deltas(s, pub) \subseteq DOMAIN sent[s] /\ Deltas(s, pub)' \subseteq DOMAIN sent'[s]
    BY DEF Deltas
  <2>4. n \in Deltas(s, pub)' => kind \notin Finishing
    BY <1>4 DEF Deltas
  <2>5. \A c \in DOMAIN sent[s] : c < n
    BY <1>4
  <2> QED BY <2>1, <2>2, <2>3, <2>4, <2>5
<1>7. \A pub : Batches(s, pub)' = Batches(s, pub)
  BY DEF Batches
<1>8. \A pub, c : Journaled(s, pub, c)' <=> Journaled(s, pub, c)
  BY DEF Journaled, Batches
<1>9. \A c \in DOMAIN sent[s] : Delta(s, c)' = Delta(s, c)
  BY <1>4 DEF Delta
<1>10. \A pub \in BOOLEAN : ~Journaled(s, pub, n)
  <2>1. \A pub \in BOOLEAN : \A i \in Batches(s, pub) : \A k \in DOMAIN db.log[i].body :
          db.log[i].body[k].c \in Deltas(s, pub)
    BY <1>2 DEF Exact
  <2>2. \A pub \in BOOLEAN : n \notin Deltas(s, pub)
    BY <1>4, <1>6
  <2> QED BY <2>1, <2>2 DEF Journaled
<1>11. Exact(s)'
  <2>1. ASSUME NEW pub \in BOOLEAN, NEW i \in Batches(s, pub), NEW k \in DOMAIN db.log[i].body,
               NEW e, e = db.log[i].body[k]
        PROVE  /\ e.c \in Deltas(s, pub)' /\ e = Delta(s, e.c)'
               /\ \A j \in Batches(s, pub) : \A l \in DOMAIN db.log[j].body :
                    j < i \/ (j = i /\ l < k) => db.log[j].body[l].c < e.c
               /\ \A d \in Deltas(s, pub)' : d < e.c => Journaled(s, pub, d)
    <3>1. /\ e.c \in Deltas(s, pub) /\ e = Delta(s, e.c)
          /\ \A j \in Batches(s, pub) : \A l \in DOMAIN db.log[j].body :
               j < i \/ (j = i /\ l < k) => db.log[j].body[l].c < e.c
          /\ \A d \in Deltas(s, pub) : d < e.c => Journaled(s, pub, d)
      BY <1>2, <2>1 DEF Exact
    <3>2. e.c \in DOMAIN sent[s] /\ e.c \in Deltas(s, pub)'
      BY <1>6, <3>1
    <3>3. e = Delta(s, e.c)'
      <4>1. PICK c \in DOMAIN sent[s] : c = e.c
        BY <3>2
      <4>2. e = Delta(s, c) /\ Delta(s, c)' = Delta(s, c)
        BY <1>9, <3>1, <4>1
      <4>3. Delta(s, c)' = [c |-> c, part |-> Part(sent'[s][c])]
        BY DEF Delta
      <4> QED BY <4>1, <4>2, <4>3 DEF Delta
    <3>4. ~(n < e.c)
      BY <1>4, <3>2
    <3>5. \A d \in Deltas(s, pub)' : d < e.c => d \in Deltas(s, pub)
      BY <1>6, <3>4
    <3> QED BY <3>1, <3>2, <3>3, <3>5
  <2> QED BY <1>7, <1>8, <2>1 DEF Exact
<1>12. Pending(s)'
  <2>1. PICK q : q = PendingDeltas(kind, n)
    OBVIOUS
  <2>2. buf'[s] = buf[s] \o q
    BY <1>1, <1>3, <2>1 DEF ProducerTypeOK
  <2>3. \/ kind \in Finishing /\ q = <<>>
        \/ kind \notin Finishing /\ q = <<[c |-> n, part |-> Part(kind)]>>
    BY <2>1 DEF PendingDeltas
  <2>4. PICK m \in Nat : m = Len(buf[s])
    BY <1>2
  <2>5. /\ DOMAIN buf[s] = 1..m
        /\ \A k \in 1..m : buf'[s][k] = buf[s][k] /\ k \in DOMAIN buf'[s]
        /\ kind \in Finishing => DOMAIN buf'[s] = 1..m
        /\ kind \notin Finishing =>
             DOMAIN buf'[s] = 1..(m + 1) /\ buf'[s][m + 1] = [c |-> n, part |-> Part(kind)]
    <3>1. CASE kind \in Finishing
      <4>1. q = <<>>
        BY <2>3, <3>1
      <4>2. buf[s] \o <<>> = buf[s]
        BY <1>2
      <4>3. buf'[s] = buf[s]
        BY <2>2, <4>1, <4>2
      <4>4. DOMAIN buf[s] = 1..m
        BY <1>2, <2>4
      <4> QED BY <3>1, <4>3, <4>4
    <3>2. CASE kind \notin Finishing
      <4>1. buf'[s] = buf[s] \o <<[c |-> n, part |-> Part(kind)]>>
        BY <2>2, <2>3, <3>2
      <4>2. PICK x : x = [c |-> n, part |-> Part(kind)]
        OBVIOUS
      <4>3. buf'[s] = buf[s] \o <<x>>
        BY <4>1, <4>2
      <4>4. /\ DOMAIN (buf[s] \o <<x>>) = 1..(m + 1) /\ (buf[s] \o <<x>>)[m + 1] = x
            /\ \A k \in 1..m : (buf[s] \o <<x>>)[k] = buf[s][k]
        BY <1>2, <2>4
      <4> QED BY <1>2, <2>4, <3>2, <4>2, <4>3, <4>4
    <3> QED BY <3>1, <3>2
  <2>6. ASSUME NEW k \in 1..m, NEW e, e = buf[s][k]
        PROVE  /\ e.c \in DOMAIN sent[s] /\ sent[s][e.c] \notin Finishing /\ e = Delta(s, e.c)
               /\ \A l \in 1..m : l < k => buf[s][l].c < e.c
               /\ \A pub \in BOOLEAN : \A d \in Deltas(s, pub) : Journaled(s, pub, d) => d < e.c
    BY <1>2, <2>5, <2>6 DEF Pending
  <2>7. ASSUME NEW k \in DOMAIN buf'[s], NEW e, e = buf'[s][k]
        PROVE  /\ e.c \in DOMAIN sent'[s] /\ sent'[s][e.c] \notin Finishing /\ e = Delta(s, e.c)'
               /\ \A l \in DOMAIN buf'[s] : l < k => buf'[s][l].c < e.c
               /\ \A pub \in BOOLEAN : \A d \in Deltas(s, pub)' : Journaled(s, pub, d) => d < e.c
    <3>1. CASE k \in 1..m
      <4>1. /\ e.c \in DOMAIN sent[s] /\ sent[s][e.c] \notin Finishing /\ e = Delta(s, e.c)
            /\ \A l \in 1..m : l < k => buf[s][l].c < e.c
            /\ \A pub \in BOOLEAN : \A d \in Deltas(s, pub) : Journaled(s, pub, d) => d < e.c
        BY <2>5, <2>6, <2>7, <3>1
      <4>2. e = Delta(s, e.c)'
        BY <1>4, <4>1 DEF Delta
      <4>3. \A l \in DOMAIN buf'[s] : l < k => l \in 1..m
        BY <2>5, <3>1
      <4>4. \A pub \in BOOLEAN : \A d \in Deltas(s, pub)' : Journaled(s, pub, d) => d \in Deltas(s, pub)
        BY <1>6, <1>10
      <4>5. e.c \in DOMAIN sent'[s] /\ sent'[s][e.c] \notin Finishing
        BY <1>4, <4>1
      <4>6. \A l \in DOMAIN buf'[s] : l < k => buf'[s][l].c < e.c
        BY <2>5, <4>1, <4>3
      <4> QED BY <4>1, <4>2, <4>4, <4>5, <4>6
    <3>2. CASE k \notin 1..m
      <4>1. kind \notin Finishing /\ k = m + 1 /\ e = [c |-> n, part |-> Part(kind)] /\ e.c = n
        BY <2>5, <2>7, <3>2
      <4>2. e = Delta(s, e.c)' /\ n \in DOMAIN sent'[s]
        BY <1>4, <4>1 DEF Delta
      <4>3. \A l \in DOMAIN buf'[s] : l < k => l \in 1..m
        BY <2>5, <4>1
      <4>4. \A l \in 1..m : buf'[s][l].c < n
        BY <1>4, <2>5, <2>6
      <4>5. \A pub \in BOOLEAN : \A d \in Deltas(s, pub)' : Journaled(s, pub, d) => d < n
        BY <1>6, <1>10
      <4> QED BY <1>4, <4>1, <4>2, <4>3, <4>4, <4>5
    <3> QED BY <3>1, <3>2
  <2>8. ASSUME NEW pub \in BOOLEAN, NEW c \in Deltas(s, pub)'
        PROVE  Journaled(s, pub, c) \/ \E k \in DOMAIN buf'[s] : buf'[s][k].c = c
    <3>1. CASE c \in Deltas(s, pub)
      <4>1. Journaled(s, pub, c) \/ \E k \in DOMAIN buf[s] : buf[s][k].c = c
        BY <1>2, <3>1 DEF Pending
      <4> QED BY <2>5, <4>1
    <3>2. CASE c = n
      BY <1>6, <2>4, <2>5, <3>2
    <3> QED BY <1>6, <3>1, <3>2
  <2> QED BY <1>8, <2>7, <2>8 DEF Pending
<1>13. db.stream[s] # "committed"
  <2>1. cur = s
    BY Basics
  <2> QED BY <2>1, Basics DEF Current
<1>14. ASSUME NEW r \in Streams, r # s
       PROVE  Untouched(r)
  <2>1. Grown(db'.log, <<>>)
    BY DEF Grown
  <2> QED BY <1>2, <1>14, <2>1, OtherContent
<1> QED BY <1>1, <1>2, <1>11, <1>12, <1>13, <1>14 DEF ContentExact, Untouched

\* The timer of a batch after schedule, and the types after a chunk was accepted.
LEMMA AcceptedTypes ==
    ASSUME ProducerTypeOK, cur \in Streams, held[cur], BatchFree(cur), NEW kind \in Kinds,
           Len(buf[cur]) < MaxFragments, timer' = timer \/ timer' = Scheduled(cur),
           sent' = [sent EXCEPT ![cur] = Append(@, kind)],
           buf' = [buf EXCEPT ![cur] = @ \o PendingDeltas(kind, Len(sent[cur]) + 1)],
           pc' \in Stages, cur' = cur, ok' = ok, hurt' = hurt, held' = held, bg' = bg, att' = att, Quiet
    PROVE  ProducerTypeOK' /\ BatchFree(cur)' /\ sent'[cur] # <<>>
<1>1. /\ sent[cur] \in Seq(Kinds) /\ buf[cur] \in Seq(Entries) /\ MaxFragments \in Nat
      /\ sent \in [Streams -> Seq(Kinds)] /\ buf \in [Streams -> Seq(Entries)]
  BY StreamAssumption DEF ProducerTypeOK
<1>2. /\ sent' \in [Streams -> Seq(Kinds)] /\ sent'[cur] # <<>>
      /\ \A r \in Streams : r # cur => buf'[r] = buf[r]
  <2>1. Append(sent[cur], kind) \in Seq(Kinds) /\ Append(sent[cur], kind) # <<>>
    BY <1>1
  <2> QED BY <1>1, <2>1
<1>3. PICK q : q = PendingDeltas(kind, Len(sent[cur]) + 1)
  OBVIOUS
<1>4. q \in Seq(Entries) /\ Len(q) \in {0, 1}
  <2>1. Len(sent[cur]) + 1 \in Nat
    BY <1>1
  <2>2. CASE kind \in Finishing
    BY <1>3, <2>2 DEF PendingDeltas
  <2>3. CASE kind \notin Finishing
    <3>1. Part(kind) \in {"content", "tool", "progress"}
      BY <2>3 DEF Kinds, Finishing, Part
    <3>2. PICK x : x = [c |-> Len(sent[cur]) + 1, part |-> Part(kind)]
      OBVIOUS
    <3>3. x \in Entries
      BY <2>1, <3>1, <3>2 DEF Entries
    <3>4. q = <<x>>
      BY <1>3, <2>3, <3>2 DEF PendingDeltas
    <3> QED BY <3>3, <3>4
  <2> QED BY <2>2, <2>3
<1>5. buf[cur] \o q \in Seq(Entries) /\ Len(buf[cur] \o q) = Len(buf[cur]) + Len(q) /\ Len(buf[cur]) \in Nat
  BY <1>1, <1>4
<1>6. buf' \in [Streams -> Seq(Entries)] /\ buf'[cur] = buf[cur] \o q
  BY <1>1, <1>3, <1>5
<1>7. Len(buf'[cur]) =< MaxFragments
  <2>1. PICK a \in Nat : a = Len(buf[cur])
    BY <1>5
  <2>2. PICK b \in {0, 1} : b = Len(q)
    BY <1>4
  <2>3. Len(buf'[cur]) = a + b /\ a < MaxFragments
    BY <1>5, <1>6, <2>1, <2>2
  <2>4. a + b =< MaxFragments
    BY <1>1, <2>3
  <2> QED BY <2>3, <2>4
<1>8. /\ DOMAIN timer' = Streams /\ \A r \in Streams : r # cur => timer'[r] = timer[r]
      /\ timer'[cur] = [at |-> timer'[cur].at, take |-> timer'[cur].take, mark |-> timer'[cur].mark]
      /\ timer'[cur].at \in {"none", "asleep"}
  <2>1. /\ timer[cur] = [at |-> timer[cur].at, take |-> timer[cur].take, mark |-> timer[cur].mark]
        /\ timer[cur].at \in {"none", "asleep"} /\ DOMAIN timer = Streams
    BY DEF ProducerTypeOK, BatchFree
  <2>2. CASE timer' = timer
    BY <2>1, <2>2
  <2>3. CASE timer' # timer
    <3>1. timer' = [timer EXCEPT ![cur].at = "asleep"]
      BY <2>3 DEF Scheduled
    <3>2. timer'[cur] = [timer[cur] EXCEPT !.at = "asleep"] /\ DOMAIN timer' = Streams
          /\ \A r \in Streams : r # cur => timer'[r] = timer[r]
      BY <2>1, <3>1
    <3>3. timer'[cur] = [at |-> "asleep", take |-> timer[cur].take, mark |-> timer[cur].mark]
      BY <2>1, <3>2
    <3> QED BY <3>2, <3>3
  <2> QED BY <2>2, <2>3
<1>9. ASSUME NEW r \in Streams
      PROVE  /\ timer'[r] = [at |-> timer'[r].at, take |-> timer'[r].take, mark |-> timer'[r].mark]
             /\ timer'[r].at \in {"none", "asleep", "flush", "publish"}
             /\ Len(buf'[r]) =< MaxFragments
             /\ ~held'[r] => buf'[r] = <<>> /\ timer'[r].at \in {"none", "publish"}
             /\ timer'[r].at = "flush" => timer'[r].take = buf'[r]
  <2>1. CASE r = cur
    BY <1>7, <1>8, <2>1
  <2>2. CASE r # cur
    BY <1>2, <1>8, <2>2 DEF ProducerTypeOK
  <2> QED BY <2>1, <2>2
<1>10. ProducerTypeOK'
  BY <1>2, <1>6, <1>8, <1>9 DEF ProducerTypeOK, Quiet
<1> QED BY <1>2, <1>8, <1>10 DEF BatchFree

\* accept_provider_chunk up to its flush.
LEMMA AcceptStep ==
    ASSUME StreamCore, NEW kind \in Kinds, Accept(kind)
    PROVE  StreamCore'
<1>1. Invoking /\ pc = "read" /\ Quiet /\ BatchFree(cur)
  BY DEF Accept, Invoking
<1>2. /\ Current /\ cur \in Streams /\ ~ok /\ ProducerTypeOK /\ ~(db.claim /\ db.run # "running")
      /\ JournalTypeOK /\ TerminalFence /\ ProjectionAfterSource
  BY <1>1, Basics
<1>3. CASE Refused
  <2>1. Excused
    BY <1>1 DEF Excused, Cleanup
  <2> QED BY <1>1, <1>3, <2>1, RefusedStep
<1>4. CASE ~Refused
  <2> DEFINE entries == buf[cur] \o PendingDeltas(kind, Len(sent[cur]) + 1)
  <2>1. /\ sent' = [sent EXCEPT ![cur] = Append(@, kind)] /\ buf' = [buf EXCEPT ![cur] = entries]
        /\ db' = db /\ cur' = cur /\ ok' = ok /\ hurt' = hurt /\ held' = held /\ bg' = bg /\ att' = att
        /\ timer' = timer \/ timer' = Scheduled(cur)
        /\ \/ pc' = "flush" \/ (pc' = "read" /\ ~MustFlush(kind, entries))
    BY <1>4 DEF Accept, MustFlush
  <2>2. held[cur] /\ Len(buf[cur]) < MaxFragments
    BY <1>1, <1>2 DEF Current, Batching
  <2>3. ContentExact'
    BY <1>2, <2>1, <2>2, AcceptedContent
  <2>4. Grown(db'.log, <<>>)
    BY <2>1 DEF Grown
  <2>5. JournalTypeOK' /\ TerminalFence' /\ SameRecords
    <3>1. \A key : Logged(key)' <=> Logged(key)
      BY <2>1 DEF Logged
    <3>2. OpenStreams' = OpenStreams /\ OpenOperations' = OpenOperations
      BY <2>1, <3>1 DEF OpenStreams, OpenOperations
    <3>3. \A e : EventOK(e)' <=> EventOK(e)
      BY DEF EventOK
    <3> QED BY <1>2, <2>1, <3>1, <3>2, <3>3
            DEF JournalTypeOK, TerminalFence, SameRecords, SameOperations
  <2>6. ProjectionAfterSource'
    BY <1>2, <2>1 DEF ProjectionAfterSource
  <2>7. JournalKept
    BY <1>2, <2>3, <2>4, <2>5, <2>6, KeptTogether
  <2>8. pc' \in Stages
    BY <2>1 DEF Stages
  <2>9. ProducerTypeOK' /\ BatchFree(cur)' /\ sent'[cur] # <<>>
    BY <1>1, <1>2, <2>1, <2>2, <2>8, AcceptedTypes
  <2>10. OthersStay
    BY <1>2, <2>1, <2>5, SameOthers DEF ProducerTypeOK
  <2>11. pc' = "read" => Len(buf'[cur]) < MaxFragments
    <3>1. buf'[cur] = entries /\ buf'[cur] \in Seq(Entries)
      BY <1>2, <2>1, <2>9 DEF ProducerTypeOK
    <3>2. pc' = "read" => ~(Len(entries) >= MaxFragments)
      BY <2>1 DEF MustFlush
    <3> HIDE DEF entries
    <3> QED BY <3>1, <3>2, StreamAssumption
  <2>12. Current'
    <3> HIDE DEF entries
    <3>1. pc' \in {"flush", "read"} /\ (BatchFree(cur))' /\ cur' = cur
      BY <2>1, <2>9
    <3>2. ProducerHolds(cur)' => BatchFree(cur)'
      BY <3>1
    <3> QED BY <1>1, <1>2, <2>1, <2>2, <2>5, <2>9, <2>11, <3>1, <3>2
            DEF Current, Batching, Invoking, SameRecords, BatchFree
  <2> QED BY <1>1, <1>2, <2>1, <2>5, <2>7, <2>9, <2>10, <2>12, StepHolds DEF Quiet, SameRecords
<1> QED BY <1>3, <1>4

\* What a flush of the producer leaves: an empty batch without a timer.
Emptied(publish, next) ==
    /\ JournalKept /\ SameRecords /\ ProducerTypeOK' /\ OthersStay
    /\ pc' \in {publish, next} /\ cur' = cur /\ ok' = ok /\ hurt' = hurt /\ att' = att
    /\ held' = held /\ sent' = sent /\ buf'[cur] = <<>> /\ BatchFree(cur)'

\* flush_locked of the producer, if the repository does not refuse it.
LEMMA Flushing ==
    ASSUME StreamCore, Invoking, pc \in Batching, NEW publish \in Stages, NEW next \in Stages,
           FlushInto(cur, publish, next), Quiet, ~Refused
    PROVE  Emptied(publish, next)
<1>1. ProducerTypeOK /\ Current /\ cur \in Streams
  BY Basics
<1>2. held[cur] /\ DOMAIN timer = Streams
  BY <1>1 DEF Current, ProducerTypeOK
<1>3. /\ timer' = [timer EXCEPT ![cur] = NoTimer] /\ pc' \in {publish, next}
      /\ cur' = cur /\ ok' = ok /\ hurt' = hurt /\ sent' = sent /\ held' = held /\ bg' = bg /\ att' = att
      /\ \/ buf[cur] = <<>> /\ buf' = buf /\ db' = db
         \/ /\ buf[cur] # <<>> /\ buf' = [buf EXCEPT ![cur] = <<>>]
            /\ \E ds : /\ ds = BatchDrafts(cur, buf[cur])
                       /\ CanAppend(ds, {"open"}) /\ db' = Appended(ds)
  <2>1. CASE buf[cur] = <<>>
    BY <2>1 DEF FlushInto, batch
  <2>2. CASE buf[cur] # <<>>
    <3>1. PICK ds : ds = BatchDrafts(cur, buf[cur])
      OBVIOUS
    <3>2. /\ CanAppend(ds, {"open"}) /\ Stored(Appended(ds), ds, publish, next)
          /\ buf' = [buf EXCEPT ![cur] = <<>>] /\ timer' = [timer EXCEPT ![cur] = NoTimer]
          /\ UNCHANGED <<cur, ok, hurt, sent, held, bg, att>>
      BY <2>2, <3>1 DEF FlushInto
    <3> QED BY <2>2, <3>1, <3>2 DEF Stored
  <2> QED BY <2>1, <2>2
<1>4. JournalKept /\ SameRecords
  <2>1. CASE buf[cur] = <<>>
    BY <1>3, <2>1, StillJournal
  <2>2. CASE buf[cur] # <<>>
    BY <1>1, <1>2, <1>3, <2>2, FlushKeeps
  <2> QED BY <2>1, <2>2
<1>5. <<>> \in Seq(Entries) /\ Len(<<>>) =< MaxFragments
  BY StreamAssumption
<1>6. /\ buf' \in [Streams -> Seq(Entries)] /\ buf'[cur] = <<>>
      /\ \A r \in Streams : r # cur => buf'[r] = buf[r]
  BY <1>1, <1>3, <1>5 DEF ProducerTypeOK
<1>7. /\ DOMAIN timer' = Streams /\ timer'[cur] = NoTimer
      /\ \A r \in Streams : r # cur => timer'[r] = timer[r]
  BY <1>1, <1>2, <1>3
<1>8. ProducerTypeOK'
  <2>1. ASSUME NEW r \in Streams
        PROVE  /\ timer'[r] = [at |-> timer'[r].at, take |-> timer'[r].take, mark |-> timer'[r].mark]
               /\ timer'[r].at \in {"none", "asleep", "flush", "publish"}
               /\ Len(buf'[r]) =< MaxFragments
               /\ ~held'[r] => buf'[r] = <<>> /\ timer'[r].at \in {"none", "publish"}
               /\ timer'[r].at = "flush" => timer'[r].take = buf'[r]
    <3>1. CASE r = cur
      BY <1>5, <1>6, <1>7, <3>1 DEF NoTimer
    <3>2. CASE r # cur
      BY <1>1, <1>3, <1>6, <1>7, <3>2 DEF ProducerTypeOK
    <3> QED BY <3>1, <3>2
  <2>2. pc' \in Stages
    BY <1>3
  <2> QED BY <1>1, <1>3, <1>6, <1>7, <2>1, <2>2 DEF ProducerTypeOK, Quiet
<1>9. OthersStay
  BY <1>3, <1>4, SameOthers
<1>10. BatchFree(cur)'
  BY <1>3, <1>7 DEF BatchFree, NoTimer
<1> QED BY <1>3, <1>4, <1>6, <1>8, <1>9, <1>10 DEF Emptied

\* The step of a flush.
LEMMA EmptiedStep ==
    ASSUME StreamCore, Invoking, Quiet, NEW publish, NEW next, Emptied(publish, next), Current'
    PROVE  StreamCore'
<1>1. cur \in Streams /\ ~ok /\ ~(db.claim /\ db.run # "running") /\ pc # "ended"
  BY Basics DEF Invoking
<1> QED BY <1>1, StepHolds DEF Emptied, Quiet, SameRecords

\* The flush of an accepted chunk.
LEMMA FlushStep ==
    ASSUME StreamCore, Flush
    PROVE  StreamCore'
<1>1. Invoking /\ pc = "flush" /\ Quiet /\ pc \in Batching
  BY DEF Flush, Invoking, Batching
<1>2. Current
  BY <1>1, Basics
<1>3. CASE Refused
  <2>1. Excused
    BY <1>1 DEF Excused, Cleanup
  <2> QED BY <1>1, <1>3, <2>1, RefusedStep
<1>4. CASE ~Refused
  <2>1. PICK next : next = AfterFlush
    OBVIOUS
  <2>2. next \in {"read", "extra"} /\ next \in Stages /\ "flushPub" \in Stages
    BY <2>1 DEF AfterFlush, Stages
  <2>3. Emptied("flushPub", next)
    BY <1>1, <1>4, <2>1, <2>2, Flushing DEF Flush
  <2>4. Current'
    <3>1. buf'[cur] = <<>> => Len(buf'[cur]) < MaxFragments
      BY StreamAssumption
    <3>2. pc' \in {"flushPub", "read", "extra"}
      BY <2>2, <2>3 DEF Emptied
    <3> QED BY <1>1, <1>2, <2>3, <3>1, <3>2
            DEF Emptied, Current, SameRecords, SameOperations, Batching, Invoking, BatchFree
  <2> QED BY <1>1, <2>3, <2>4, EmptiedStep
<1> QED BY <1>3, <1>4

\* The last flush of an aborted stream.
LEMMA AbortFlushStep ==
    ASSUME StreamCore, AbortFlush
    PROVE  StreamCore'
<1>1. Invoking /\ pc = "xFlush" /\ Quiet /\ pc \in Batching
  BY DEF AbortFlush, Invoking, Batching
<1>2. Current
  BY <1>1, Basics
<1>3. CASE Refused
  <2>1. Excused
    BY <1>1 DEF Excused
  <2> QED BY <1>1, <1>3, <2>1, RefusedStep
<1>4. CASE ~Refused
  <2>1. "xFlushPub" \in Stages /\ "xAbort" \in Stages
    BY DEF Stages
  <2>2. Emptied("xFlushPub", "xAbort")
    BY <1>1, <1>4, <2>1, Flushing DEF AbortFlush
  <2>3. Current'
    BY <1>1, <1>2, <2>2 DEF Emptied, Current, SameRecords, SameOperations, Batching, Invoking, BatchFree
  <2> QED BY <1>1, <2>2, <2>3, EmptiedStep
<1> QED BY <1>3, <1>4

\* finish_model_stream up to its commit.
LEMMA FinishStreamStep ==
    ASSUME StreamCore, FinishStream
    PROVE  StreamCore'
<1>1. Invoking /\ pc = "finish" /\ Quiet /\ pc \in Batching
  BY DEF FinishStream, Invoking, Batching
<1>2. Current
  BY <1>1, Basics
<1>3. CASE Refused
  <2>1. Excused
    BY <1>1 DEF Excused, Cleanup
  <2> QED BY <1>1, <1>3, <2>1, RefusedStep
<1>4. CASE ~Refused
  <2>1. "commit" \in Stages
    BY DEF Stages
  <2>2. Emptied("commit", "commit")
    BY <1>1, <1>4, <2>1, Flushing DEF FinishStream
  <2>3. Current'
    BY <1>1, <1>2, <2>2
       DEF Emptied, Current, SameRecords, SameOperations, Batching, Invoking, BatchFree, ProducerHolds
  <2> QED BY <1>1, <2>2, <2>3, EmptiedStep
<1> QED BY <1>3, <1>4

\* commit_stream or abort_stream, with the batch discarded.
StreamOver(how) ==
    /\ JournalKept /\ SameOperations /\ ProducerTypeOK' /\ OthersStay
    /\ db'.run = db.run /\ db'.claim = db.claim /\ db'.stream[cur] = how /\ ~held'[cur]
    /\ cur' = cur /\ ok' = ok /\ hurt' = hurt /\ att' = att /\ sent' = sent

\* Either call ends a stream so.
LEMMA StreamEnds ==
    ASSUME StreamCore, Invoking, NEW how \in {"committed", "aborted"}, CanEnd(cur, how),
           db' = Ended(cur, how), Discarded(cur), how = "committed" => Complete(cur),
           cur' = cur, ok' = ok, hurt' = hurt, sent' = sent, bg' = bg, att' = att, pc' \in Stages, Quiet
    PROVE  StreamOver(how)
<1>1. /\ JournalTypeOK /\ TerminalFence /\ ContentExact /\ ProjectionAfterSource /\ ProducerTypeOK
      /\ cur \in Streams
  BY Basics
<1>2. PICK ds : ds = <<StreamEnd(cur, how)>>
  OBVIOUS
<1>3. /\ JournalTypeOK' /\ TerminalFence' /\ Grown(db'.log, ds)
      /\ db'.run = db.run /\ db'.claim = db.claim /\ db'.public = db.public
      /\ db'.stream = [db.stream EXCEPT ![cur] = how]
  BY <1>1, <1>2, EndKeeps
<1>4. \A i \in DOMAIN ds : ds[i].key[1] = "end"
  BY <1>2 DEF StreamEnd, Event
<1>5. /\ \A i \in DOMAIN ds : ds[i].key[1] \notin {"batch", "progress", "opStart", "opEnd"}
      /\ \A i \in DOMAIN ds, s \in Streams : ds[i].key # <<"opStart", s>> /\ ds[i].key # <<"opEnd", s>>
  BY <1>4
<1>6. /\ db'.stream[cur] = how /\ \A s \in Streams : s # cur => db'.stream[s] = db.stream[s]
  BY <1>1, <1>3 DEF JournalTypeOK
<1>7. /\ ProducerTypeOK' /\ ~held'[cur]
      /\ \A r \in Streams : r # cur => held'[r] = held[r] /\ buf'[r] = buf[r]
  <2>1. hurt' \subseteq Streams /\ faults' \in 0..MaxFaults /\ done' = done
    BY <1>1 DEF ProducerTypeOK, Quiet
  <2> QED BY <1>1, <2>1, DiscardKeepsTypes
<1>8. ContentExact' /\ ProjectionAfterSource'
  <2>1. /\ \A s \in Streams : db'.stream[s] = "committed" => db.stream[s] = "committed" \/ Complete(s)
        /\ \A s \in Streams : held'[s] => held[s] /\ buf'[s] = buf[s]
    BY <1>6, <1>7
  <2>2. /\ \A i \in DOMAIN ds : ds[i].key[1] # "batch"
        /\ \A i \in DOMAIN ds : ds[i].key[1] = "progress" => Sourced(ds[i])
    BY <1>5
  <2> QED BY <1>1, <1>3, <2>1, <2>2, ContentKept
<1>9. JournalKept
  BY <1>1, <1>3, <1>8, KeptTogether
<1>10. SameOperations
  BY <1>3, <1>5, OperationsStay
<1>11. OthersStay
  <2>1. \A s \in Streams : s # cur => /\ db'.stream[s] = db.stream[s] /\ held'[s] = held[s]
                                     /\ att'[s] = att[s] /\ sent'[s] = sent[s]
    BY <1>6, <1>7
  <2>2. \A i \in DOMAIN ds, s \in Streams : s # cur =>
          ds[i].key # <<"opStart", s>> /\ ds[i].key # <<"opEnd", s>>
    BY <1>5
  <2> QED BY <1>3, <2>1, <2>2, OthersUntold
<1> QED BY <1>3, <1>6, <1>7, <1>9, <1>10, <1>11 DEF StreamOver

\* The step of the end of a stream.
LEMMA StreamOverStep ==
    ASSUME StreamCore, Invoking, Quiet, NEW how, StreamOver(how), Current'
    PROVE  StreamCore'
<1>1. cur \in Streams /\ ~ok /\ ~(db.claim /\ db.run # "running") /\ pc # "ended"
  BY Basics DEF Invoking
<1> QED BY <1>1, StepHolds DEF StreamOver, Quiet

\* The commit: nothing that was sent is missing from the journal.
LEMMA CommitStreamStep ==
    ASSUME StreamCore, CommitStream
    PROVE  StreamCore'
<1>1. Invoking /\ pc = "commit" /\ Quiet
  BY DEF CommitStream, Invoking
<1>2. Current /\ cur \in Streams /\ ~ok /\ ContentExact
  BY <1>1, Basics
<1>3. CASE Refused
  <2>1. Excused
    BY <1>1 DEF Excused, Cleanup
  <2> QED BY <1>1, <1>3, <2>1, RefusedStep
<1>4. CASE ~Refused
  <2>1. /\ CanEnd(cur, "committed") /\ db' = Ended(cur, "committed") /\ Discarded(cur)
        /\ pc' \in {"commitPub", "opEnd"}
        /\ cur' = cur /\ ok' = ok /\ hurt' = hurt /\ sent' = sent /\ bg' = bg /\ att' = att
    BY <1>4 DEF CommitStream, Stored
  <2>2. Complete(cur)
    <3>1. Pending(cur) /\ buf[cur] = <<>>
      BY <1>1, <1>2 DEF ContentExact, Current, Batching
    <3>2. DOMAIN buf[cur] = {}
      BY <3>1
    <3> QED BY <3>1, <3>2 DEF Pending, Complete
  <2>3. pc' \in Stages
    BY <2>1 DEF Stages
  <2>4. StreamOver("committed")
    BY <1>1, <2>1, <2>2, <2>3, StreamEnds
  <2>5. Current'
    <3>1. "committed" # "none" /\ "committed" # "open"
      OBVIOUS
    <3> QED BY <1>1, <1>2, <2>1, <2>4, <3>1
            DEF StreamOver, Current, SameOperations, Batching, Invoking, ProducerHolds
  <2> QED BY <1>1, <2>4, <2>5, StreamOverStep
<1> QED BY <1>3, <1>4

\* The abort: only a lost claim refuses it.
LEMMA AbortStreamStep ==
    ASSUME StreamCore, AbortStream
    PROVE  StreamCore'
<1>1. Invoking /\ pc \in {"xAbort", "openAbort"} /\ Quiet
  BY DEF AbortStream, Invoking
<1>2. Current /\ cur \in Streams /\ ~ok /\ JournalTypeOK
  BY <1>1, Basics
<1>3. CASE ~CanEnd(cur, "aborted")
  <2>1. Refused
    BY <1>3 DEF AbortStream
  <2>2. ~db.claim
    <3> SUFFICES ASSUME db.claim PROVE FALSE
      OBVIOUS
    <3>1. db.stream[cur] = "open"
      BY <1>1, <1>2 DEF Current, Batching
    <3>2. PICK e : e = StreamEnd(cur, "aborted")
      OBVIOUS
    <3>3. EventOK(e) /\ e.key = <<"end", cur, "aborted">> /\ e.stream = cur
      BY <3>2 DEF EventOK, StreamEnd, Event
    <3>4. ~Logged(e.key)
      BY <1>2, <3>1, <3>3 DEF JournalTypeOK
    <3>5. e.key[1] \notin {"batch", "text"} /\ (e.stream # 0 => db.stream[e.stream] = "open")
      BY <3>1, <3>3
    <3>6. CanAppend(<<e>>, {"open"})
      BY <1>2, <3>3, <3>4, <3>5, FreeEvent
    <3> QED BY <1>3, <3>1, <3>2, <3>6 DEF CanEnd
  <2>3. Excused
    BY <1>1, <2>2 DEF Excused
  <2>4. pc # "xLock"
    BY <1>1
  <2> QED BY <1>1, <2>1, <2>3, <2>4, RefusedStep
<1>4. CASE CanEnd(cur, "aborted")
  <2>1. /\ db' = Ended(cur, "aborted") /\ Discarded(cur)
        /\ pc = "openAbort" => pc' \in {"openAbortPub", "openSettle"}
        /\ pc = "xAbort" => pc' \in {"xAbortPub", "xOp"}
        /\ cur' = cur /\ ok' = ok /\ hurt' = hurt /\ sent' = sent /\ bg' = bg /\ att' = att
    BY <1>4 DEF AbortStream, Stored
  <2>2. pc' \in Stages
    BY <1>1, <2>1 DEF Stages
  <2>3. StreamOver("aborted")
    BY <1>1, <1>4, <2>1, <2>2, StreamEnds
  <2>4. Current'
    BY <1>1, <1>2, <2>1, <2>3 DEF StreamOver, Current, SameOperations, Batching, Invoking, ProducerHolds
  <2> QED BY <1>1, <2>3, <2>4, StreamOverStep
<1> QED BY <1>3, <1>4

\* publish_model_stream_commentary.
LEMMA CommentStep ==
    ASSUME StreamCore, Comment
    PROVE  StreamCore'
<1> USE DEF batch
<1>1. /\ pc = "idle" /\ ok /\ CanComment(cur) /\ db' = Appended(Commentary(cur))
      /\ pc' \in {"commentPub", "idle"} /\ cur' = cur /\ ok' = ok /\ hurt' = hurt /\ sent' = sent
      /\ buf' = buf /\ held' = held /\ timer' = timer /\ bg' = bg /\ att' = att /\ Quiet
  BY DEF Comment, Stored
<1>2. /\ JournalTypeOK /\ TerminalFence /\ ContentExact /\ ProjectionAfterSource /\ ProducerTypeOK
      /\ cur \in Streams /\ Current /\ (db.run = "running" \/ ~db.claim)
  BY <1>1, Basics
<1>3. PICK e : e = Event(<<"text", cur, "commentary">>, cur, TRUE, "content")
  OBVIOUS
<1>4. PICK f : f = Event(<<"end", cur, "commentary">>, cur, TRUE, "committed")
  OBVIOUS
<1>5. /\ EventOK(e) /\ EventOK(f) /\ e.key = <<"text", cur, "commentary">>
      /\ f.key = <<"end", cur, "commentary">>
  BY <1>3, <1>4 DEF EventOK, Event
<1>6. PICK ds : ds = <<e, f>>
  OBVIOUS
<1>7. /\ Drafts(ds) /\ DOMAIN ds = {1, 2} /\ ds[1] = e /\ ds[2] = f
  <2>1. e.key # f.key
    BY <1>5
  <2> QED BY <1>5, <1>6, <2>1, TwoDrafts
<1>8. /\ \A i \in DOMAIN ds : ds[i].key[1] \in {"text", "end"}
      /\ \A i \in DOMAIN ds, r \in Streams, how \in {"committed", "aborted"} :
           ds[i].key # <<"end", r, how>>
  BY <1>5, <1>7
<1>9. /\ \A i \in DOMAIN ds : ds[i].key[1] # "life"
      /\ \A i \in DOMAIN ds : ds[i].key[1] # "batch"
      /\ \A i \in DOMAIN ds : ds[i].key[1] = "progress" => Sourced(ds[i])
      /\ \A i \in DOMAIN ds : ds[i].key[1] \notin {"opStart", "opEnd"}
  BY <1>8
<1>10. PICK acc : acc = {"open", "committed"}
  OBVIOUS
<1>11. CanAppend(ds, acc) /\ db' = Appended(ds)
  BY <1>1, <1>3, <1>4, <1>6, <1>10 DEF CanComment, Commentary
<1>12. \/ db.run = "running" \/ ~db.claim
       \/ acc = {"open"} /\ \A i \in DOMAIN ds : ds[i].stream \in Streams
  BY <1>2
<1>13. /\ JournalTypeOK' /\ TerminalFence' /\ Grown(db'.log, ds)
       /\ db'.run = db.run /\ db'.claim = db.claim /\ db'.stream = db.stream /\ db'.public = db.public
  BY ONLY <1>2, <1>7, <1>8, <1>9, <1>11, <1>12, AppendKeeps
<1>14. ContentExact' /\ ProjectionAfterSource'
  <2>1. /\ \A s \in Streams : db'.stream[s] = "committed" => db.stream[s] = "committed" \/ Complete(s)
        /\ \A s \in Streams : held'[s] => held[s] /\ buf'[s] = buf[s]
    BY <1>1, <1>13
  <2> QED BY <1>1, <1>2, <1>9, <1>13, <2>1, ContentKept
<1>15. JournalKept
  BY <1>2, <1>13, <1>14, KeptTogether
<1>16. SameRecords
  BY <1>9, <1>13, OperationsStay DEF SameRecords
<1>17. OthersStay
  BY <1>1, <1>16, SameOthers
<1>18. Current'
  BY <1>1, <1>2, <1>16
     DEF Current, SameRecords, SameOperations, Invoking, Batching, ProducerHolds
<1>19. ProducerTypeOK'
  <2>1. /\ ok \in BOOLEAN /\ hurt \subseteq Streams /\ faults \in 0..MaxFaults /\ done \in Nat
        /\ att \in [Streams -> {"none", "reserved", "settled"}]
    BY <1>2 DEF ProducerTypeOK
  <2>2. pc' \in Stages
    BY <1>1 DEF Stages
  <2> QED BY <1>1, <1>2, <2>1, <2>2, SameBatches DEF Quiet
<1>20. /\ ~Invoking' /\ (db'.claim => db'.run = "running")
  BY <1>1, <1>2, <1>13 DEF Invoking
<1> QED BY <1>1, <1>2, <1>15, <1>17, <1>18, <1>19, <1>20, StepHolds DEF Quiet

\* What a terminal commit changes.
RunOver(status, claim) ==
    /\ JournalKept /\ OpenOperations' = {}
    /\ db'.run = status /\ db'.claim = claim
    /\ db'.stream = [s \in Streams |-> IF db.stream[s] = "open" THEN "aborted" ELSE db.stream[s]]
    /\ \A s \in Streams : /\ Logged(<<"opStart", s>>)' <=> Logged(<<"opStart", s>>)
                          /\ Logged(<<"opEnd", s>>) => Logged(<<"opEnd", s>>)'

\* A terminal commit, of the Run itself or of its tree, does that and no more.
LEMMA Terminating ==
    ASSUME StreamCore, NEW status \in {"done", "failed", "canceled"}, NEW final, FinalDrafts(final),
           NEW ds, ds = TerminalEvents(status, final), NEW control, CanTerminate(ds, control),
           NEW c \in BOOLEAN, NEW d, d = Terminated(status, ds), db' = [d EXCEPT !.claim = c],
           sent' = sent, held' = held, buf' = buf
    PROVE  RunOver(status, c)
<1>1. JournalTypeOK /\ TerminalFence /\ ContentExact /\ ProjectionAfterSource
  BY Basics
<1>2. /\ JournalTypeOK' /\ TerminalFence' /\ Grown(db'.log, ds)
      /\ db'.run = status /\ db'.claim = c /\ db'.public = db.public
      /\ db'.stream = [s \in Streams |-> IF db.stream[s] = "open" THEN "aborted" ELSE db.stream[s]]
      /\ \A i \in DOMAIN ds : ds[i].key[1] \in {"opEnd", "text", "end", "life"}
  BY <1>1, TerminateKeeps
<1>3. ContentExact' /\ ProjectionAfterSource'
  <2>1. /\ \A i \in DOMAIN ds : ds[i].key[1] # "batch"
        /\ \A i \in DOMAIN ds : ds[i].key[1] = "progress" => Sourced(ds[i])
    BY <1>2
  <2>2. /\ \A s \in Streams : db'.stream[s] = "committed" => db.stream[s] = "committed" \/ Complete(s)
        /\ \A s \in Streams : held'[s] => held[s] /\ buf'[s] = buf[s]
    BY <1>2
  <2> QED BY <1>1, <1>2, <2>1, <2>2, ContentKept
<1>4. JournalKept
  BY <1>1, <1>2, <1>3, KeptTogether
<1>5. ASSUME NEW s \in Streams
      PROVE  /\ Logged(<<"opStart", s>>)' <=> Logged(<<"opStart", s>>)
             /\ Logged(<<"opEnd", s>>) => Logged(<<"opEnd", s>>)'
  <2>1. \A j \in DOMAIN ds : ds[j].key # <<"opStart", s>>
    BY <1>2
  <2> QED BY <1>2, <2>1, LoggedGrows
<1>6. OpenOperations' = {}
  BY <1>2 DEF TerminalFence
<1> QED BY <1>2, <1>4, <1>5, <1>6 DEF RunOver

\* A terminal commit that keeps the claim.
LEMMA SameClaim ==
    ASSUME JournalTypeOK, NEW status, NEW ds, NEW d, d = Terminated(status, ds), NEW c, c = db.claim
    PROVE  d = [d EXCEPT !.claim = c]
<1>1. PICK log, used, stream :
        /\ d = [[db EXCEPT !.log = log, !.used = used] EXCEPT !.run = status, !.stream = stream]
  BY DEF Terminated, Appended
<1>2. db = [run |-> db.run, claim |-> db.claim, used |-> db.used, log |-> db.log,
            stream |-> db.stream, public |-> db.public]
  BY DEF JournalTypeOK
<1>3. d = [run |-> status, claim |-> db.claim, used |-> used, log |-> log,
           stream |-> stream, public |-> db.public]
  BY <1>1, <1>2
<1> QED BY <1>3

\* The other streams of a terminal commit.
LEMMA OthersOver ==
    ASSUME NEW status, NEW c, RunOver(status, c), c => db.claim, hurt' = hurt, held' = held,
           att' = att, sent' = sent
    PROVE  OthersStay
BY DEF RunOver, OthersStay

\* accept_run_lifecycle_event.
LEMMA TerminateStep ==
    ASSUME StreamCore, NEW status \in {"done", "failed", "canceled"}, Terminate(status)
    PROVE  StreamCore'
<1> USE DEF batch, Quiet
<1>1. /\ pc = "idle" /\ cur > 0 /\ hurt' = hurt /\ sent' = sent /\ buf' = buf /\ held' = held
      /\ timer' = timer /\ bg' = bg /\ att' = att /\ sub' = sub /\ done' = done /\ faults' = faults
      /\ cur' = cur
  BY DEF Terminate
<1>2. JournalTypeOK /\ ProducerTypeOK /\ cur \in Streams /\ Current /\ ~(db.claim /\ db.run # "running")
  BY <1>1, Basics
<1>3. /\ ok \in BOOLEAN /\ hurt \subseteq Streams /\ faults \in 0..MaxFaults /\ done \in Nat
      /\ att \in [Streams -> {"none", "reserved", "settled"}]
  BY <1>2 DEF ProducerTypeOK
<1>4. PICK final : final = Final(status)
  OBVIOUS
<1>5. PICK ds : ds = TerminalEvents(status, final)
  OBVIOUS
<1>6. CASE CanTerminate(ds, FALSE)
  <2>1. db' = Terminated(status, ds) /\ pc' \in {"terminalPub", "result"} /\ ok' = ok
    BY <1>4, <1>5, <1>6 DEF Terminate, Stored
  <2>2. FinalDrafts(final)
    BY <1>2, <1>4 DEF FinalDrafts, Final
  <2>3. PICK c \in BOOLEAN : c = db.claim
    BY <1>2 DEF JournalTypeOK
  <2>4. PICK d : d = Terminated(status, ds)
    OBVIOUS
  <2>5. db' = [d EXCEPT !.claim = c]
    BY <1>2, <2>1, <2>3, <2>4, SameClaim
  <2>6. RunOver(status, c)
    BY <1>1, <1>5, <1>6, <2>2, <2>4, <2>5, Terminating
  <2>7. OthersStay
    BY <1>1, <2>3, <2>6, OthersOver
  <2>8. Current'
    <3>1. db'.stream[cur] = IF db.stream[cur] = "open" THEN "aborted" ELSE db.stream[cur]
      BY <1>2, <2>6 DEF RunOver
    <3>2. OpenOperations' = {} /\ db'.claim = db.claim
      BY <2>3, <2>6 DEF RunOver
    <3>3. ~held[cur] /\ pc' \notin Batching
      BY <1>1, <1>2, <2>1 DEF Current, Batching
    <3>4. ~ProducerHolds(cur)' /\ ~Invoking
      BY <1>1, <2>1 DEF ProducerHolds, Invoking
    <3> QED BY <1>1, <1>2, <2>1, <3>1, <3>2, <3>3, <3>4 DEF Current
  <2>9. ProducerTypeOK'
    <3>1. pc' \in Stages
      BY <2>1 DEF Stages
    <3> QED BY <1>1, <1>2, <1>3, <2>1, <3>1, SameBatches
  <2>10. ~Invoking' /\ JournalKept
    BY <2>1, <2>6 DEF Invoking, RunOver
  <2> QED BY <1>1, <1>2, <2>1, <2>7, <2>8, <2>9, <2>10, StepHolds
<1>7. CASE ~CanTerminate(ds, FALSE)
  <2>1. db' = db /\ pc' \in {"idle", "result"} /\ ok' = FALSE
    BY <1>4, <1>5, <1>7 DEF Terminate
  <2>2. JournalKept /\ SameRecords
    BY <1>1, <2>1, StillJournal
  <2>3. OthersStay
    BY <1>1, <2>2, SameOthers
  <2>4. Current'
    BY <1>1, <1>2, <2>1, <2>2
       DEF Current, SameRecords, SameOperations, Invoking, Batching, ProducerHolds
  <2>5. ProducerTypeOK'
    <3>1. pc' \in Stages /\ ok' \in BOOLEAN
      BY <2>1 DEF Stages
    <3> QED BY <1>1, <1>2, <1>3, <2>1, <3>1, SameBatches
  <2> QED BY <1>1, <1>2, <2>1, <2>2, <2>3, <2>4, <2>5, StepHolds
<1> QED BY <1>6, <1>7

\* The tree ends a Child Run from outside, whatever its producer is doing.
LEMMA TreeCancelStep ==
    ASSUME StreamCore, TreeCancel
    PROVE  StreamCore'
<1> USE DEF batch, producer, Quiet
<1>1. /\ pc' = pc /\ cur' = cur /\ ok' = ok /\ hurt' = hurt /\ sent' = sent /\ buf' = buf /\ held' = held
      /\ timer' = timer /\ bg' = bg /\ att' = att /\ sub' = sub /\ done' = done /\ faults' = faults
  BY DEF TreeCancel
<1>2. PICK final : final = <<>>
  OBVIOUS
<1>3. PICK ds : ds = TerminalEvents("canceled", final)
  OBVIOUS
<1>4. PICK c \in BOOLEAN : c = FALSE
  OBVIOUS
<1>5. PICK d : d = Terminated("canceled", ds)
  OBVIOUS
<1>6. CanTerminate(ds, TRUE) /\ db' = [d EXCEPT !.claim = c]
  BY <1>2, <1>3, <1>4, <1>5 DEF TreeCancel
<1>7. FinalDrafts(final)
  BY <1>2 DEF FinalDrafts
<1>8. RunOver("canceled", c)
  BY <1>1, <1>3, <1>5, <1>6, <1>7, Terminating
<1>9. /\ OpenOperations' = {} /\ ~db'.claim /\ db'.run = "canceled" /\ JournalKept
      /\ \A s \in Streams :
           db'.stream[s] = IF db.stream[s] = "open" THEN "aborted" ELSE db.stream[s]
  BY <1>4, <1>8 DEF RunOver
<1>10. ProducerTypeOK /\ JournalTypeOK /\ db.claim
  <2>1. JournalTypeOK /\ ProducerTypeOK
    BY Basics
  <2> QED BY <1>6, <2>1 DEF JournalTypeOK, CanTerminate
<1>11. ProducerTypeOK'
  BY <1>1, <1>10, SameBatches DEF ProducerTypeOK
<1>12. OthersStay
  BY <1>1, <1>8, <1>10, OthersOver
<1>13. CASE cur \in Streams
  <2>1. Current /\ (ok => ~Invoking)
    BY <1>13, Basics
  <2>2. Current'
    <3>1. /\ Logged(<<"opStart", cur>>)' <=> Logged(<<"opStart", cur>>)
          /\ Logged(<<"opEnd", cur>>) => Logged(<<"opEnd", cur>>)'
      <4>1. PICK s \in Streams : s = cur
        BY <1>13
      <4>2. /\ Logged(<<"opStart", s>>)' <=> Logged(<<"opStart", s>>)
            /\ Logged(<<"opEnd", s>>) => Logged(<<"opEnd", s>>)'
        BY <1>8 DEF RunOver
      <4> QED BY <1>1, <4>1, <4>2
    <3>2. db'.stream[cur] = IF db.stream[cur] = "open" THEN "aborted" ELSE db.stream[cur]
      BY <1>9, <1>13
    <3>3. (ProducerHolds(cur)' <=> ProducerHolds(cur)) /\ (BatchFree(cur)' <=> BatchFree(cur))
      BY <1>1 DEF ProducerHolds, BatchFree
    <3> QED BY <1>1, <1>9, <1>10, <2>1, <3>1, <3>2, <3>3 DEF Current
  <2>3. ok' => ~Invoking'
    BY <1>1, <2>1 DEF Invoking
  <2> QED BY <1>1, <1>9, <1>11, <1>12, <1>13, <2>2, <2>3, StepHolds
<1>14. CASE cur \notin Streams
  <2>1. /\ pc = "idle" /\ ~ok /\ StreamInStage /\ AttemptInStage /\ BufferInStage
        /\ cur \in Int /\ ~(cur > 0) /\ \A s \in Streams : ~held[s]
    BY <1>14, Basics DEF StreamCore, JournalInv
  <2>2. StreamInStage'
    BY <1>1, <1>9, <2>1 DEF StreamInStage, Batching
  <2>3. AttemptInStage'
    <3>1. \A s \in Streams : Logged(<<"opStart", s>>)' <=> Logged(<<"opStart", s>>)
      BY <1>8 DEF RunOver
    <3> QED BY <1>1, <2>1, <3>1 DEF AttemptInStage
  <2>4. BufferInStage'
    BY <1>1, <2>1 DEF BufferInStage, ProducerHolds
  <2>5. InvocationSettled'
    BY <1>1, <1>9, <2>1 DEF InvocationSettled
  <2>6. SubscriberComplete' /\ SubscribersFollow'
    BY <1>1, <1>9, ListenersWait
  <2> QED BY <1>9, <1>11, <2>2, <2>3, <2>4, <2>5, <2>6, CoreHolds
<1> QED BY <1>13, <1>14

-----------------------------------------------------------------------------
(* The theorems.                                                           *)

\* The journal of a Run that has just begun.
LEMMA JournalBegins ==
    ASSUME StreamInit
    PROVE  JournalTypeOK /\ TerminalFence /\ ContentExact /\ ProjectionAfterSource
<1>1. db = [run |-> "running", claim |-> TRUE, used |-> 0, log |-> <<Lifecycle("running")>>,
            stream |-> [s \in Streams |-> "none"], public |-> [s \in Streams |-> FALSE]]
  BY DEF StreamInit, JournalInit
<1>2. PICK e : e = Lifecycle("running")
  OBVIOUS
<1>3. e.key = <<"life", "running">> /\ e.body = "running" /\ EventOK(e)
  BY <1>2 DEF Lifecycle, Event, EventOK
<1>4. db.log = <<e>> /\ DOMAIN db.log = {1} /\ db.log[1] = e /\ Len(db.log) = 1
  BY <1>1, <1>2
<1>5. db.log \in Seq(Range(db.log))
  <2>1. db.log \in Seq({e})
    BY <1>4
  <2> QED BY <2>1, OwnElements
<1>6. Costly(db.log) = 0
  <2>1. \A i \in DOMAIN db.log : db.log[i].key[1] \notin {"batch", "text"}
    BY <1>3, <1>4
  <2> QED BY <2>1, FreeOfCharge
<1>7. \A s \in Streams, how \in {"committed", "aborted"} :
        ~Logged(<<"end", s, how>>) /\ db.stream[s] # how
  BY <1>1, <1>3, <1>4 DEF Logged
<1>8. JournalTypeOK
  <2>1. /\ db = [run |-> db.run, claim |-> db.claim, used |-> db.used, log |-> db.log,
                 stream |-> db.stream, public |-> db.public]
        /\ db.run = "running" /\ db.claim \in BOOLEAN /\ db.claim /\ db.used = 0
        /\ db.stream \in [Streams -> {"none", "open", "committed", "aborted"}]
        /\ db.public \in [Streams -> BOOLEAN]
    BY <1>1
  <2>2. db.used =< MaxOutput
    BY <2>1, JournalAssumption
  <2>3. db.log # <<>> /\ db.log[1] = Lifecycle("running")
    BY <1>2, <1>4
  <2>4. /\ \A i, j \in DOMAIN db.log : db.log[i].key = db.log[j].key => i = j
        /\ \A i \in DOMAIN db.log : EventOK(db.log[i])
    BY <1>3, <1>4
  <2> QED BY <1>5, <1>6, <1>7, <2>1, <2>2, <2>3, <2>4 DEF JournalTypeOK
<1>9. TerminalFence
  <2>1. db.run = "running"
    BY <1>1
  <2> QED BY <1>4, <2>1 DEF TerminalFence
<1>10. \A s, pub : Batches(s, pub) = {}
  BY <1>3, <1>4 DEF Batches
<1>11. sent = [s \in Streams |-> <<>>] /\ buf = [s \in Streams |-> <<>>]
  BY DEF StreamInit
<1>12. \A s \in Streams : \A pub : Deltas(s, pub) = {}
  BY <1>11 DEF Deltas
<1>13. ContentExact
  <2>1. ASSUME NEW s \in Streams
        PROVE  Exact(s) /\ Complete(s) /\ Pending(s)
    <3>1. Exact(s) /\ Complete(s)
      BY <1>10, <1>12 DEF Exact, Complete
    <3>2. buf[s] = <<>> /\ DOMAIN buf[s] = {}
      BY <1>11
    <3> QED BY <1>12, <3>1, <3>2 DEF Pending
  <2> QED BY <2>1 DEF ContentExact
<1>14. ProjectionAfterSource
  BY <1>3, <1>4 DEF ProjectionAfterSource
<1> QED BY <1>8, <1>9, <1>13, <1>14

\* The invariant holds when the Run begins.
LEMMA CoreInit ==
    StreamInit => StreamCore
<1> SUFFICES ASSUME StreamInit PROVE StreamCore
  OBVIOUS
<1>1. JournalTypeOK /\ TerminalFence /\ ContentExact /\ ProjectionAfterSource
  BY JournalBegins
<1>2. /\ pc = "idle" /\ cur = 0 /\ ok = FALSE /\ hurt = {}
      /\ sent = [s \in Streams |-> <<>>] /\ buf = [s \in Streams |-> <<>>]
      /\ held = [s \in Streams |-> FALSE] /\ timer = [s \in Streams |-> NoTimer]
      /\ bg = [s \in Streams |-> FALSE] /\ att = [s \in Streams |-> "none"]
      /\ faults = 0 /\ done = 0
      /\ sub = [w \in Subscribers |-> [cursor |-> 0, st |-> "list"]]
      /\ db.run = "running" /\ db.stream = [s \in Streams |-> "none"]
      /\ db.log = <<Lifecycle("running")>>
  BY DEF StreamInit, JournalInit
<1>3. ProducerTypeOK
  <2>1. <<>> \in Seq(Kinds) /\ <<>> \in Seq(Entries) /\ Len(<<>>) =< MaxFragments
    BY StreamAssumption
  <2>2. sent \in [Streams -> Seq(Kinds)] /\ buf \in [Streams -> Seq(Entries)]
    BY <1>2, <2>1
  <2>3. \A s \in Streams :
          /\ timer[s] = [at |-> timer[s].at, take |-> timer[s].take, mark |-> timer[s].mark]
          /\ timer[s].at = "none"
    BY <1>2 DEF NoTimer
  <2>4. cur \in 0..MaxStreams /\ faults \in 0..MaxFaults /\ pc \in Stages
    BY <1>2, JournalAssumption, StreamAssumption DEF Stages
  <2>5. /\ held \in [Streams -> BOOLEAN] /\ bg \in [Streams -> BOOLEAN] /\ DOMAIN timer = Streams
        /\ att \in [Streams -> {"none", "reserved", "settled"}]
    BY <1>2
  <2>6. \A s \in Streams : buf[s] = <<>>
    BY <1>2
  <2> QED BY <1>2, <2>1, <2>2, <2>3, <2>4, <2>5, <2>6 DEF ProducerTypeOK
<1>4. \A s \in Streams : ~Logged(<<"opStart", s>>)
  <2>1. DOMAIN db.log = {1} /\ db.log[1].key = <<"life", "running">>
    BY <1>2 DEF Lifecycle, Event
  <2> QED BY <2>1 DEF Logged
<1>5. StreamInStage /\ AttemptInStage /\ BufferInStage
  BY <1>2, <1>4 DEF StreamInStage, AttemptInStage, BufferInStage, Batching, ProducerHolds
<1>6. InvocationSettled
  <2>1. 1..0 = {}
    OBVIOUS
  <2>2. ~Invoking
    BY <1>2 DEF Invoking
  <2> QED BY <1>2, <2>1, <2>2 DEF InvocationSettled
<1>7. SubscriberComplete /\ SubscribersFollow
  <2>1. Len(db.log) = 1
    BY <1>2
  <2>2. \A w \in Subscribers : sub[w] = [cursor |-> 0, st |-> "list"]
    BY <1>2
  <2>3. \A w \in Subscribers : /\ sub[w] \in [cursor : Nat, st : {"list", "wait", "ended"}]
                               /\ sub[w].cursor = 0 /\ sub[w].st = "list"
    BY <2>2
  <2>4. DOMAIN sub = Subscribers
    BY <1>2
  <2> QED BY <1>2, <2>1, <2>3, <2>4 DEF SubscriberComplete, SubscribersFollow
<1> QED BY <1>1, <1>3, <1>5, <1>6, <1>7 DEF StreamCore, JournalInv, StreamTypeOK

\* A step without any change.
LEMMA CoreStutters ==
    ASSUME StreamCore, UNCHANGED vars
    PROVE  StreamCore'
<1> USE DEF vars, batch, producer
<1>1. JournalKept /\ SameRecords
  BY StillJournal
<1>2. StreamInStage' /\ AttemptInStage' /\ InvocationSettled'
  BY <1>1, StagesStay
<1>3. ProducerTypeOK /\ BufferInStage
  BY DEF StreamCore, JournalInv, StreamTypeOK
<1>4. ProducerTypeOK'
  BY <1>3, SameBatches DEF ProducerTypeOK
<1>5. BufferInStage'
  BY <1>3 DEF BufferInStage, ProducerHolds, BatchFree
<1>6. SubscriberComplete' /\ SubscribersFollow'
  BY <1>1, ListenersWait
<1> QED BY <1>1, <1>2, <1>4, <1>5, <1>6, CoreHolds

\* Every step keeps the invariant.
LEMMA CoreNext ==
    StreamCore /\ [StreamNext]_vars => StreamCore'
<1> SUFFICES ASSUME StreamCore, [StreamNext]_vars PROVE StreamCore'
  OBVIOUS
<1>1. CASE InvocationStep
  BY <1>1, StartOperationStep, ReserveStep, OpenEventStep, FlushStep, ExtraStep, PublishStep, SettleStep,
     FinishStreamStep, CommitStreamStep, SucceedOperationStep, AbortLockStep, AbortFlushStep,
     AbortStreamStep, FailOperationStep, OpenStreamStep, AcceptStep DEF InvocationStep
<1>2. CASE RunStep
  BY <1>2, InvokeStep, CommentStep, GiveUpStep, SettleResultStep, TerminateStep DEF RunStep
<1>3. CASE Fault
  BY <1>3, FaultStep
<1>4. CASE TreeCancel
  BY <1>4, TreeCancelStep
<1>5. CASE \E s \in Streams : TimerStep(s) \/ TimerFault(s)
  BY <1>5, TimerWakesStep, TimerFlushStep, TimerPublishStep, TimerFaultStep DEF TimerStep
<1>6. CASE \E w \in Subscribers : List(w) \/ Wake(w)
  BY <1>6, ListStep, WakeStep
<1>7. CASE UNCHANGED vars
  BY <1>7, CoreStutters
<1> QED BY <1>1, <1>2, <1>3, <1>4, <1>5, <1>6, <1>7 DEF StreamNext

\* The inductive invariant holds for ever.
LEMMA CoreAlways ==
    StreamSpec => []StreamCore
<1>1. StreamInit => StreamCore
  BY CoreInit
<1>2. StreamCore /\ [StreamNext]_vars => StreamCore'
  BY CoreNext
<1> QED BY <1>1, <1>2, PTL DEF StreamSpec

\* JournalInvariant: for any number of invocations, chunks, failing awaits and
\* subscribers, the journal stays within its budget, holds exactly what the
\* Provider sent, in order and sources first, nothing after its terminal event,
\* and a subscription that ended has had it all.
THEOREM JournalInvariant ==
    StreamSpec => []JournalInv
<1>1. StreamCore => JournalInv
  BY DEF StreamCore
<1> QED BY <1>1, CoreAlways, PTL

\* InvocationsSettle: an invocation that ended leaves no open stream, operation or
\* attempt behind, unless its cleanup was itself interrupted or the claim was taken.
THEOREM InvocationsSettle ==
    StreamSpec => []InvocationSettled
<1>1. StreamCore => InvocationSettled
  BY DEF StreamCore
<1> QED BY <1>1, CoreAlways, PTL
=============================================================================
