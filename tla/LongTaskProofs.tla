--------------------------- MODULE LongTaskProofs ---------------------------
(***************************************************************************)
(* Proof that LongTaskInv holds in every behaviour of a durable task, for  *)
(* any recipe, splits, coordinators, limits and clock, and that completed  *)
(* work is kept.                                                           *)
(***************************************************************************)
EXTENDS LongTask, FiniteSetTheorems, WellFoundedInduction, TLAPS

Stores == [t : TaskRecords, u : [Units -> UnitRecords]]

\* Units that no repository method but the split's touches again.
Fixed == {"absent", "expanded", "completed"}
Ended == {"pending", "waiting_retry", "blocked", "failed", "canceled"}

\* r is s after calls that claim nothing, complete nothing and split nothing.
Kept(s, r) ==
    /\ r.t.cancel = s.t.cancel
    /\ \A u \in Units :
         /\ r.u[u].epoch = s.u[u].epoch /\ r.u[u].deps = s.u[u].deps /\ r.u[u].req = s.u[u].req
         /\ s.u[u].st \in Fixed => r.u[u] = s.u[u]
         /\ r.u[u].st \in Fixed => s.u[u].st = r.u[u].st
         /\ r.u[u].st = "claimed" => s.u[u].st = "claimed" /\ r.u[u].exp = s.u[u].exp

\* Moreover no failed unit is given another chance and no total changes.
Lasting(s, r) ==
    /\ Kept(s, r)
    /\ r.t.total = s.t.total /\ r.t.done = s.t.done /\ r.t.failed = s.t.failed
    /\ \A u \in Units : s.u[u].st = "failed" => r.u[u].st = "failed"

-----------------------------------------------------------------------------
(* Records.                                                                *)

\* The fields of a unit.
LEMMA UnitFields ==
    ASSUME NEW x \in UnitRecords
    PROVE  /\ x.st \in UnitStatus /\ x.deps \in SUBSET Units /\ x.req \in BOOLEAN /\ x.att \in Nat
           /\ x.max \in Nat \ {0} /\ x.worker \in Workers \cup {NoWorker} /\ x.epoch \in Nat /\ x.exp \in Nat
BY DEF UnitRecords

\* A unit that gets more attempts.
LEMMA UnitRaised ==
    ASSUME NEW x \in UnitRecords, NEW n \in Nat, NEW y, y = [x EXCEPT !.max = @ + n]
    PROVE  /\ y \in UnitRecords /\ y.st = x.st /\ y.deps = x.deps /\ y.req = x.req
           /\ y.epoch = x.epoch /\ y.exp = x.exp
<1>1. x.max \in Nat \ {0} /\ x.max + n \in Nat \ {0}
  BY UnitFields
<1> QED BY <1>1 DEF UnitRecords

\* The two parts of a store.
LEMMA StoreFields ==
    ASSUME NEW s \in Stores
    PROVE  /\ s.t \in TaskRecords /\ s.u \in [Units -> UnitRecords] /\ s = [t |-> s.t, u |-> s.u]
           /\ \A u \in Units : s.u[u] \in UnitRecords
BY DEF Stores

\* The fields of a task.
LEMMA TaskFields ==
    ASSUME NEW x \in TaskRecords
    PROVE  /\ x.status \in TaskStatus /\ x.cancel \in BOOLEAN /\ x.total \in Nat /\ x.done \in Nat
           /\ x.failed \in Nat /\ x.usage \in Nat
BY DEF TaskRecords

\* The status of a task.
LEMMA SetStatusFacts ==
    ASSUME NEW s \in Stores, NEW st \in TaskStatus, NEW r, r = SetTaskStatus(s, st)
    PROVE  /\ r \in Stores /\ r.u = s.u /\ r.t.status = st /\ r.t.cancel = s.t.cancel /\ r.t.usage = s.t.usage
           /\ r.t.total = s.t.total /\ r.t.done = s.t.done /\ r.t.failed = s.t.failed
<1>1. r = [s EXCEPT !.t.status = st]
  BY DEF SetTaskStatus
<1>2. PICK x \in TaskRecords : x = s.t
  BY StoreFields
<1>3. PICK y : y = [x EXCEPT !.status = st]
  OBVIOUS
<1>4. /\ y \in TaskRecords /\ y.status = st /\ y.cancel = x.cancel /\ y.total = x.total
      /\ y.done = x.done /\ y.failed = x.failed /\ y.usage = x.usage
  BY <1>3 DEF TaskRecords
<1>5. r.t = y /\ r.u = s.u /\ r \in Stores
  BY <1>1, <1>2, <1>3, <1>4 DEF Stores
<1> QED BY <1>2, <1>4, <1>5

\* Units that end.
LEMMA EndUnitsFacts ==
    ASSUME NEW s \in Stores, NEW set, NEW st \in UnitStatus, NEW r, r = EndUnits(s, set, st)
    PROVE  /\ r \in Stores /\ r.t = s.t
           /\ \A u \in Units : u \notin set => r.u[u] = s.u[u]
           /\ \A u \in Units : u \in set =>
                /\ r.u[u].st = st /\ r.u[u].deps = s.u[u].deps /\ r.u[u].req = s.u[u].req
                /\ r.u[u].epoch = s.u[u].epoch /\ r.u[u].exp = 0
<1> DEFINE f == [u \in Units |->
        IF u \in set THEN [s.u[u] EXCEPT !.st = st, !.worker = NoWorker, !.exp = 0] ELSE s.u[u]]
<1>1. r = [s EXCEPT !.u = f]
  BY DEF EndUnits
<1>2. ASSUME NEW u \in Units
      PROVE  /\ f[u] \in UnitRecords
             /\ u \notin set => f[u] = s.u[u]
             /\ u \in set => /\ f[u].st = st /\ f[u].deps = s.u[u].deps /\ f[u].req = s.u[u].req
                             /\ f[u].epoch = s.u[u].epoch /\ f[u].exp = 0
  <2>1. PICK x \in UnitRecords : x = s.u[u]
    BY StoreFields
  <2>2. PICK y : y = [s.u[u] EXCEPT !.st = st, !.worker = NoWorker, !.exp = 0]
    OBVIOUS
  <2>3. /\ y \in UnitRecords /\ y.st = st /\ y.deps = x.deps /\ y.req = x.req
        /\ y.epoch = x.epoch /\ y.exp = 0
    BY <2>1, <2>2 DEF UnitRecords
  <2>4. f[u] = IF u \in set THEN y ELSE s.u[u]
    BY <2>2
  <2> QED BY <2>1, <2>3, <2>4
<1>3. f \in [Units -> UnitRecords]
  BY <1>2
<1>4. r.u = f /\ r.t = s.t /\ r \in Stores
  <2> HIDE DEF f
  <2> QED BY <1>1, <1>3 DEF Stores
<1> QED BY <1>2, <1>4

\* Units that get more attempts.
LEMMA RaisedFacts ==
    ASSUME NEW s \in Stores, NEW set, NEW n \in Nat, NEW r, r = MoreAttempts(s, set, n)
    PROVE  /\ r \in Stores /\ r.t = s.t
           /\ \A u \in Units : u \notin set => r.u[u] = s.u[u]
           /\ \A u \in Units : /\ r.u[u].st = s.u[u].st /\ r.u[u].deps = s.u[u].deps /\ r.u[u].req = s.u[u].req
                               /\ r.u[u].epoch = s.u[u].epoch /\ r.u[u].exp = s.u[u].exp
<1> DEFINE f == [u \in Units |-> IF u \in set THEN [s.u[u] EXCEPT !.max = @ + n] ELSE s.u[u]]
<1>1. ASSUME NEW u \in Units
      PROVE  /\ f[u] \in UnitRecords
             /\ u \notin set => f[u] = s.u[u]
             /\ f[u].st = s.u[u].st /\ f[u].deps = s.u[u].deps /\ f[u].req = s.u[u].req
             /\ f[u].epoch = s.u[u].epoch /\ f[u].exp = s.u[u].exp
  <2>1. PICK x \in UnitRecords : x = s.u[u]
    BY StoreFields
  <2>2. PICK y : y = [x EXCEPT !.max = @ + n]
    OBVIOUS
  <2>3. /\ y \in UnitRecords /\ y.st = x.st /\ y.deps = x.deps /\ y.req = x.req
        /\ y.epoch = x.epoch /\ y.exp = x.exp
    BY <2>2, UnitRaised
  <2>4. f[u] = IF u \in set THEN y ELSE x
    BY <2>1, <2>2
  <2> QED BY <2>1, <2>3, <2>4
<1>2. f \in [Units -> UnitRecords]
  BY <1>1
<1>3. r.u = f /\ r.t = s.t /\ r \in Stores
  <2> HIDE DEF f
  <2> QED BY <1>2 DEF Stores, f, MoreAttempts
<1> QED BY <1>1, <1>3

\* Sets of units are finite.
LEMMA UnitSets ==
    ASSUME NEW S \in SUBSET Units
    PROVE  IsFiniteSet(S) /\ Cardinality(S) \in Nat
BY LongTaskAssumption, FS_Subset, FS_CardinalityType

\* _refresh_totals.
LEMMA RefreshFacts ==
    ASSUME NEW s \in Stores, NEW r, r = RefreshTotals(s)
    PROVE  /\ r \in Stores /\ r.u = s.u /\ r.t.status = s.t.status /\ r.t.cancel = s.t.cancel
           /\ TotalsSound(r)
<1> DEFINE req == Cardinality({u \in Units : s.u[u].req})
           done == Cardinality(RequiredIn(s, "completed"))
           failed == Cardinality(RequiredIn(s, "failed"))
<1>1. req \in Nat /\ done \in Nat /\ failed \in Nat
  BY UnitSets DEF RequiredIn
<1>2. r = [s EXCEPT !.t.total = req, !.t.done = done, !.t.failed = failed]
  BY DEF RefreshTotals
<1>3. PICK x \in TaskRecords : x = s.t
  BY StoreFields
<1>4. PICK y : y = [x EXCEPT !.total = req, !.done = done, !.failed = failed]
  OBVIOUS
<1>5. /\ y \in TaskRecords /\ y.status = x.status /\ y.cancel = x.cancel
      /\ y.total = req /\ y.done = done /\ y.failed = failed
  <2> HIDE DEF req, done, failed
  <2> QED BY <1>1, <1>4 DEF TaskRecords
<1>6. r.t = y /\ r.u = s.u /\ r \in Stores
  <2> HIDE DEF req, done, failed
  <2> QED BY <1>2, <1>3, <1>4, <1>5 DEF Stores
<1>7. TotalsSound(r)
  <2>1. RequiredIn(r, "completed") = RequiredIn(s, "completed") /\ RequiredIn(r, "failed") = RequiredIn(s, "failed")
    BY <1>6 DEF RequiredIn
  <2>2. {u \in Units : r.u[u].req} = {u \in Units : s.u[u].req}
    BY <1>6
  <2> QED BY <1>1, <1>5, <1>6, <2>1, <2>2 DEF TotalsSound
<1> QED BY <1>3, <1>5, <1>6, <1>7

-----------------------------------------------------------------------------
(* Calls that claim, complete and split nothing.                           *)

\* r is a sound result of such calls on s, and the task goes on or has ended
\* otherwise than completed.
Good(s, r) == r \in Stores /\ Kept(s, r) /\ TotalsSound(r) /\ r.t.status \notin {"none", "completed"}

\* One call after another.
LEMMA KeptTransitive ==
    ASSUME NEW s, NEW m, NEW r, Kept(s, m)
    PROVE  /\ Kept(m, r) => Kept(s, r)
           /\ Lasting(s, m) /\ Lasting(m, r) => Lasting(s, r)
           /\ Good(m, r) => Good(s, r)
<1>1. ASSUME Kept(m, r) PROVE Kept(s, r)
  BY <1>1 DEF Kept
<1> QED BY <1>1 DEF Lasting, Good

\* Units that are not finished end.
LEMMA EndUnitsKept ==
    ASSUME NEW s \in Stores, NEW set, NEW st \in Ended, \A u \in Units : u \in set => s.u[u].st \notin Fixed
    PROVE  /\ EndUnits(s, set, st) \in Stores /\ EndUnits(s, set, st).t = s.t /\ Kept(s, EndUnits(s, set, st))
           /\ (\A u \in Units : u \in set => s.u[u].st # "failed" \/ st = "failed")
                => Lasting(s, EndUnits(s, set, st))
<1>1. st \in UnitStatus /\ st \notin Fixed /\ st # "claimed"
  BY DEF Ended, UnitStatus, Fixed
<1>2. PICK r : r = EndUnits(s, set, st)
  OBVIOUS
<1>3. /\ r \in Stores /\ r.t = s.t
      /\ \A u \in Units : u \notin set => r.u[u] = s.u[u]
      /\ \A u \in Units : u \in set =>
           /\ r.u[u].st = st /\ r.u[u].deps = s.u[u].deps /\ r.u[u].req = s.u[u].req
           /\ r.u[u].epoch = s.u[u].epoch /\ r.u[u].exp = 0
  BY <1>1, <1>2, EndUnitsFacts
<1>4. Kept(s, r)
  BY <1>1, <1>3 DEF Kept
<1> QED BY <1>2, <1>3, <1>4 DEF Lasting

\* The status of the task.
LEMMA StatusKept ==
    ASSUME NEW s \in Stores, NEW st \in TaskStatus
    PROVE  SetTaskStatus(s, st) \in Stores /\ Lasting(s, SetTaskStatus(s, st)) /\ SetTaskStatus(s, st).t.status = st
           /\ SetTaskStatus(s, st).u = s.u
<1>1. PICK r : r = SetTaskStatus(s, st)
  OBVIOUS
<1>2. /\ r \in Stores /\ r.u = s.u /\ r.t.status = st /\ r.t.cancel = s.t.cancel
      /\ r.t.total = s.t.total /\ r.t.done = s.t.done /\ r.t.failed = s.t.failed
  BY <1>1, SetStatusFacts
<1> QED BY <1>1, <1>2 DEF Lasting, Kept

\* The totals.
LEMMA RefreshKept ==
    ASSUME NEW s \in Stores
    PROVE  RefreshTotals(s) \in Stores /\ Kept(s, RefreshTotals(s)) /\ TotalsSound(RefreshTotals(s))
<1>1. PICK r : r = RefreshTotals(s)
  OBVIOUS
<1>2. r \in Stores /\ r.u = s.u /\ r.t.cancel = s.t.cancel /\ TotalsSound(r)
  BY <1>1, RefreshFacts
<1> QED BY <1>1, <1>2 DEF Kept

\* Attempts.
LEMMA RaisedKept ==
    ASSUME NEW s \in Stores, NEW set, NEW n \in Nat, NEW r, r = MoreAttempts(s, set, n),
           \A u \in Units : u \in set => s.u[u].st \notin Fixed
    PROVE  r \in Stores /\ r.t = s.t /\ Lasting(s, r)
<1>1. /\ r \in Stores /\ r.t = s.t
      /\ \A u \in Units : u \notin set => r.u[u] = s.u[u]
      /\ \A u \in Units : /\ r.u[u].st = s.u[u].st /\ r.u[u].deps = s.u[u].deps /\ r.u[u].req = s.u[u].req
                          /\ r.u[u].epoch = s.u[u].epoch /\ r.u[u].exp = s.u[u].exp
  BY RaisedFacts
<1> QED BY <1>1 DEF Lasting, Kept

\* Totals follow calls that do not change them.
LEMMA TotalsKept ==
    ASSUME NEW s \in Stores, NEW r \in Stores, TotalsSound(s), Kept(s, r),
           r.t.total = s.t.total, r.t.done = s.t.done,
           \/ r.t.failed = 0
           \/ r.t.failed = s.t.failed /\ \A u \in Units : s.u[u].st = "failed" => r.u[u].st = "failed"
    PROVE  TotalsSound(r)
<1>1. {u \in Units : r.u[u].req} = {u \in Units : s.u[u].req}
  BY DEF Kept
<1>2. RequiredIn(r, "completed") = RequiredIn(s, "completed")
  BY DEF RequiredIn, Kept, Fixed
<1>3. /\ IsFiniteSet(RequiredIn(r, "failed")) /\ Cardinality(RequiredIn(r, "failed")) \in Nat
      /\ Cardinality(RequiredIn(s, "failed")) \in Nat
  BY UnitSets DEF RequiredIn
<1>4. r.t.failed <= Cardinality(RequiredIn(r, "failed"))
  <2>1. CASE r.t.failed = 0
    BY <1>3, <2>1
  <2>2. CASE r.t.failed = s.t.failed /\ \A u \in Units : s.u[u].st = "failed" => r.u[u].st = "failed"
    <3>1. RequiredIn(s, "failed") \subseteq RequiredIn(r, "failed")
      BY <2>2 DEF RequiredIn, Kept
    <3>2. Cardinality(RequiredIn(s, "failed")) <= Cardinality(RequiredIn(r, "failed"))
      BY <1>3, <3>1, FS_Subset
    <3>3. s.t.failed \in Nat
      BY StoreFields, TaskFields
    <3> QED BY <1>3, <2>2, <3>2, <3>3 DEF TotalsSound
  <2> QED BY <2>1, <2>2
<1> QED BY <1>1, <1>2, <1>4 DEF TotalsSound

\* The same for calls that are lasting.
LEMMA LastingTotals ==
    ASSUME NEW s \in Stores, NEW r \in Stores, TotalsSound(s), Lasting(s, r)
    PROVE  TotalsSound(r)
BY TotalsKept DEF Lasting

\* What is said of a unit stays true.
LEMMA UnitsKept ==
    ASSUME NEW s \in Stores, NEW r \in Stores, \A u \in Units : UnitSound(s, u), Kept(s, r)
    PROVE  \A u \in Units : UnitSound(r, u)
<1> SUFFICES ASSUME NEW u \in Units PROVE UnitSound(r, u)
  OBVIOUS
<1>1. /\ r.u[u].epoch = s.u[u].epoch /\ r.u[u].deps = s.u[u].deps /\ r.u[u].req = s.u[u].req
      /\ s.u[u].st \in Fixed => r.u[u].st = s.u[u].st
      /\ r.u[u].st \in Fixed => s.u[u].st = r.u[u].st
      /\ r.u[u].st = "claimed" => s.u[u].st = "claimed"
  BY DEF Kept
<1>2. \A d \in Units : s.u[d].st = "completed" => r.u[d].st = "completed"
  BY DEF Kept, Fixed
<1>3. s.u[u].deps \subseteq Units
  BY StoreFields, UnitFields
<1>4. r.u[u].st \in {"claimed", "completed"} => DepsDone(r, u)
  BY <1>1, <1>2, <1>3 DEF UnitSound, DepsDone, Fixed
<1> QED BY <1>1, <1>4 DEF UnitSound, Fixed

\* _cancel.
LEMMA CancelGood ==
    ASSUME NEW s \in Stores, TotalsSound(s)
    PROVE  Good(s, CancelTask(s)) /\ CancelTask(s).t.status = "canceled"
<1>1. PICK m : m = EndUnits(s, OpenUnits(s), "canceled")
  OBVIOUS
<1>2. m \in Stores /\ Lasting(s, m)
  BY <1>1, EndUnitsKept DEF OpenUnits, UnitTerminal, Fixed, Ended
<1>3. PICK r : r = SetTaskStatus(m, "canceled")
  OBVIOUS
<1>4. r \in Stores /\ Lasting(m, r) /\ r.t.status = "canceled"
  BY <1>2, <1>3, StatusKept DEF TaskStatus
<1>5. Lasting(s, r) /\ Kept(s, r)
  BY <1>2, <1>4, KeptTransitive DEF Lasting
<1>6. TotalsSound(r)
  BY <1>4, <1>5, LastingTotals
<1> QED BY <1>1, <1>3, <1>4, <1>5, <1>6 DEF Good, CancelTask

\* The other ways in which open units end and the totals are counted again.
LEMMA EndedGood ==
    ASSUME NEW s \in Stores, NEW set, set \subseteq OpenUnits(s), NEW ust \in {"canceled", "failed", "blocked"},
           NEW st \in {"failed", "paused"}, NEW r, r = SetTaskStatus(RefreshTotals(EndUnits(s, set, ust)), st)
    PROVE  Good(s, r) /\ r.t.status = st
<1>1. PICK m : m = EndUnits(s, set, ust)
  OBVIOUS
<1>2. m \in Stores /\ Kept(s, m)
  BY <1>1, EndUnitsKept DEF OpenUnits, UnitTerminal, Fixed, Ended
<1>3. PICK n : n = RefreshTotals(m)
  OBVIOUS
<1>4. n \in Stores /\ Kept(m, n) /\ TotalsSound(n)
  BY <1>2, <1>3, RefreshKept
<1>5. r \in Stores /\ Lasting(n, r) /\ r.t.status = st
  BY <1>1, <1>3, <1>4, StatusKept DEF TaskStatus
<1>6. Kept(s, r)
  BY <1>2, <1>4, <1>5, KeptTransitive DEF Lasting
<1>7. TotalsSound(r)
  BY <1>4, <1>5, LastingTotals
<1> QED BY <1>5, <1>6, <1>7 DEF Good

\* _fail_task, _expire_deadline and _fail_budget.
LEMMA FailuresGood ==
    ASSUME NEW s \in Stores
    PROVE  /\ \A u : Good(s, FailTask(s, u)) /\ FailTask(s, u).t.status = "failed"
           /\ Good(s, ExpireDeadline(s)) /\ ExpireDeadline(s).t.status = "failed"
           /\ Good(s, FailBudget(s)) /\ FailBudget(s).t.status \in {"paused", "failed"}
<1>1. ASSUME NEW u PROVE Good(s, FailTask(s, u)) /\ FailTask(s, u).t.status = "failed"
  BY EndedGood DEF FailTask
<1>2. Good(s, ExpireDeadline(s)) /\ ExpireDeadline(s).t.status = "failed"
  BY EndedGood DEF ExpireDeadline
<1>3. Good(s, FailBudget(s)) /\ FailBudget(s).t.status \in {"paused", "failed"}
  <2>1. CASE PauseOnBudget
    BY <2>1, EndedGood DEF FailBudget
  <2>2. CASE ~PauseOnBudget
    BY <2>2, EndedGood DEF FailBudget
  <2> QED BY <2>1, <2>2
<1> QED BY <1>1, <1>2, <1>3

\* _release_active_units and the pause.
LEMMA ReleaseGood ==
    ASSUME NEW s \in Stores, TotalsSound(s)
    PROVE  Good(s, SetTaskStatus(ReleaseActive(s), "paused")) /\ SetTaskStatus(ReleaseActive(s), "paused").t.status = "paused"
<1> DEFINE held == {u \in Units : s.u[u].st = "claimed"}
<1>1. PICK m : m = EndUnits(s, held, "pending")
  OBVIOUS
<1>2. m \in Stores /\ Lasting(s, m)
  BY <1>1, EndUnitsKept DEF Fixed, Ended
<1>3. PICK n : n = MoreAttempts(m, held, 1)
  OBVIOUS
<1>4. n = ReleaseActive(s)
  BY <1>1, <1>3 DEF ReleaseActive
<1>5. \A u \in Units : u \in held => m.u[u].st \notin Fixed
  BY <1>1, EndUnitsFacts DEF UnitStatus, Fixed
<1>6. n \in Stores /\ Lasting(m, n)
  <2> HIDE DEF held
  <2> QED BY <1>2, <1>3, <1>5, RaisedKept
<1>7. PICK r : r = SetTaskStatus(n, "paused")
  OBVIOUS
<1>8. r \in Stores /\ Lasting(n, r) /\ r.t.status = "paused"
  BY <1>6, <1>7, StatusKept DEF TaskStatus
<1>9. Lasting(s, r)
  BY <1>2, <1>6, <1>8, KeptTransitive DEF Lasting
<1>10. TotalsSound(r)
  BY <1>8, <1>9, LastingTotals
<1> QED BY <1>4, <1>7, <1>8, <1>9, <1>10 DEF Good, Lasting

-----------------------------------------------------------------------------
(* What every call keeps.                                                  *)

LiveAt(s, n) == {u \in Units : s.u[u].st = "claimed" /\ s.u[u].exp > n}

\* LongTaskInv of a store at time n.
Fit(s, n) ==
    /\ s \in Stores
    /\ SoundStore(s)
    /\ s.t.status = "completed" => ~s.t.cancel /\ \A u \in Units : s.u[u].req => s.u[u].st = "completed"
    /\ Cardinality(LiveAt(s, n)) <= MaxParallel

\* No claim is forgotten and no completed unit is touched.
Grows(s, r) ==
    \A u \in Units : /\ s.u[u].epoch <= r.u[u].epoch
                     /\ s.u[u].st = "completed" => r.u[u] = s.u[u]

\* Nothing changed.
LEMMA SameGrows ==
    ASSUME NEW s \in Stores
    PROVE  Grows(s, s)
<1>1. \A u \in Units : s.u[u].epoch \in Nat
  BY StoreFields, UnitFields
<1> QED BY <1>1 DEF Grows

\* Calls that claim, complete and split nothing do not touch what is completed.
LEMMA KeptGrows ==
    ASSUME NEW s \in Stores, NEW r \in Stores, Kept(s, r)
    PROVE  Grows(s, r)
<1>1. \A u \in Units : s.u[u].epoch \in Nat
  BY StoreFields, UnitFields
<1> QED BY <1>1 DEF Grows, Kept, Fixed

\* The units leased do not become more.
LEMMA LiveFewer ==
    ASSUME NEW s \in Stores, NEW r \in Stores, NEW n \in Nat, Cardinality(LiveAt(s, n)) <= MaxParallel,
           \A u \in Units : r.u[u].st = "claimed" /\ r.u[u].exp > n => s.u[u].st = "claimed" /\ s.u[u].exp > n
    PROVE  Cardinality(LiveAt(r, n)) <= MaxParallel
<1>1. LiveAt(r, n) \subseteq LiveAt(s, n)
  BY DEF LiveAt
<1>2. IsFiniteSet(LiveAt(s, n)) /\ Cardinality(LiveAt(s, n)) \in Nat /\ Cardinality(LiveAt(r, n)) \in Nat
  BY UnitSets DEF LiveAt
<1>3. Cardinality(LiveAt(r, n)) <= Cardinality(LiveAt(s, n))
  BY <1>1, <1>2, FS_Subset
<1> QED BY <1>2, <1>3, LongTaskAssumption DEF LegalCommand

\* The same calls keep the store fit, when they do not complete the task.
LEMMA GoodFit ==
    ASSUME NEW s, NEW r, NEW n \in Nat, Fit(s, n), Good(s, r)
    PROVE  Fit(r, n) /\ Grows(s, r)
<1>1. s \in Stores /\ r \in Stores /\ Kept(s, r) /\ TotalsSound(r) /\ r.t.status \notin {"none", "completed"}
  BY DEF Fit, Good
<1>2. \A u \in Units : UnitSound(r, u)
  BY <1>1, UnitsKept DEF Fit, SoundStore
<1>3. Cardinality(LiveAt(r, n)) <= MaxParallel
  <2>1. \A u \in Units : r.u[u].st = "claimed" /\ r.u[u].exp > n => s.u[u].st = "claimed" /\ s.u[u].exp > n
    BY <1>1 DEF Kept
  <2> QED BY <1>1, <2>1, LiveFewer DEF Fit
<1>4. Grows(s, r)
  BY <1>1, KeptGrows
<1> QED BY <1>1, <1>2, <1>3, <1>4 DEF Fit, SoundStore

\* A task record that changes while its units and totals stay.
LEMMA SameUnitsFit ==
    ASSUME NEW s, NEW r \in Stores, NEW n \in Nat, Fit(s, n), r.u = s.u,
           r.t.total = s.t.total, r.t.done = s.t.done, r.t.failed = s.t.failed,
           r.t.status = "none" => s.t.status = "none",
           r.t.status = "completed" => ~r.t.cancel /\ \A u \in Units : s.u[u].req => s.u[u].st = "completed"
    PROVE  Fit(r, n) /\ Grows(s, r)
<1>1. s \in Stores
  BY DEF Fit
<1>2. TotalsSound(r)
  BY DEF Fit, SoundStore, TotalsSound, RequiredIn
<1>3. \A u \in Units : UnitSound(r, u)
  BY DEF Fit, SoundStore, UnitSound, DepsDone
<1>4. LiveAt(r, n) = LiveAt(s, n)
  BY DEF LiveAt
<1>5. Grows(s, r)
  BY <1>1, SameGrows DEF Grows
<1> QED BY <1>2, <1>3, <1>4, <1>5 DEF Fit, SoundStore

\* The status alone.
LEMMA StatusFit ==
    ASSUME NEW s, NEW n \in Nat, Fit(s, n), NEW st \in TaskStatus \ {"none"},
           st = "completed" => ~s.t.cancel /\ \A u \in Units : s.u[u].req => s.u[u].st = "completed"
    PROVE  Fit(SetTaskStatus(s, st), n) /\ Grows(s, SetTaskStatus(s, st))
<1>1. s \in Stores
  BY DEF Fit
<1>2. PICK r : r = SetTaskStatus(s, st)
  OBVIOUS
<1>3. /\ r \in Stores /\ r.u = s.u /\ r.t.status = st /\ r.t.cancel = s.t.cancel
      /\ r.t.total = s.t.total /\ r.t.done = s.t.done /\ r.t.failed = s.t.failed
  BY <1>1, <1>2, SetStatusFacts
<1> QED BY <1>2, <1>3, SameUnitsFit

\* A nonempty set of units has a least one.
LEMMA MinUnit ==
    ASSUME NEW S \in SUBSET Units, S # {}
    PROVE  Min(S) \in S
<1> DEFINE R == {p \in Nat \X Nat : p[1] < p[2]}
<1>1. Units \subseteq Nat
  BY LongTaskAssumption
<1>2. IsWellFoundedOn(R, Nat)
  BY NatLessThanWellFounded DEF OpToRel
<1>3. \E x \in S : \A y \in S : ~(<<y, x>> \in R)
  <2> HIDE DEF R
  <2> QED BY <1>1, <1>2, WFMin
<1>4. \A x, y \in Nat : ~(<<y, x>> \in R) => x <= y
  OBVIOUS
<1>5. \E x \in S : \A y \in S : x <= y
  <2> HIDE DEF R
  <2> QED BY <1>1, <1>3, <1>4
<1> QED BY <1>5 DEF Min

-----------------------------------------------------------------------------
(* Claims, settlements and splits.                                         *)

\* An open unit of the store is claimed, after everything it depends on.
LEMMA ClaimFit ==
    ASSUME NEW s, NEW n \in Nat, Fit(s, n), s.t.status = "running", NEW u \in Units, NEW w \in Workers,
           n = now, s.u[u].st \in {"pending", "waiting_retry", "claimed"}, DepsDone(s, u),
           Cardinality(LiveAt(s, n)) < MaxParallel
    PROVE  /\ Fit(Leased(s, u, w), n) /\ Grows(s, Leased(s, u, w))
           /\ Leased(s, u, w).u[u].epoch = s.u[u].epoch + 1
<1> DEFINE e == now + LeaseMs
<1>1. PICK r : r = Leased(s, u, w)
  OBVIOUS
<1>2. r = [s EXCEPT !.u[u] = [s.u[u] EXCEPT !.st = "claimed", !.att = @ + 1, !.worker = w,
                                            !.epoch = @ + 1, !.exp = e]]
  BY <1>1 DEF Leased
<1>3. e \in Nat
  BY LongTaskAssumption
<1> HIDE DEF e
<1>4. s \in Stores /\ s.u \in [Units -> UnitRecords] /\ s.t \in TaskRecords
  BY StoreFields DEF Fit
<1>5. PICK x \in UnitRecords : x = s.u[u]
  BY <1>4
<1>6. PICK y : y = [x EXCEPT !.st = "claimed", !.att = @ + 1, !.worker = w, !.epoch = @ + 1, !.exp = e]
  OBVIOUS
<1>7. x.epoch \in Nat /\ x.att \in Nat /\ x.epoch + 1 \in Nat /\ x.att + 1 \in Nat
  BY UnitFields
<1>8. y \in UnitRecords /\ y.st = "claimed" /\ y.deps = x.deps /\ y.req = x.req /\ y.epoch = x.epoch + 1
  BY <1>3, <1>6, <1>7 DEF UnitRecords, UnitStatus
<1>9. r.t = s.t /\ r.u = [s.u EXCEPT ![u] = y]
  BY <1>2, <1>4, <1>5, <1>6 DEF Stores
<1>10. r.u[u] = y /\ \A v \in Units : v # u => r.u[v] = s.u[v]
  BY <1>4, <1>9
<1>11. r \in Stores
  <2>1. r = [s EXCEPT !.u = r.u]
    BY <1>2, <1>4, <1>5, <1>6, <1>9 DEF Stores
  <2>2. r.u \in [Units -> UnitRecords]
    BY <1>4, <1>8, <1>9
  <2> QED BY <1>4, <2>1, <2>2 DEF Stores
<1>12. \A v \in Units : UnitSound(r, v)
  <2> SUFFICES ASSUME NEW v \in Units PROVE UnitSound(r, v)
    OBVIOUS
  <2>1. UnitSound(s, v) /\ s.u[v].deps \subseteq Units
    BY <1>4, UnitFields DEF Fit, SoundStore
  <2>2. \A d \in Units : s.u[d].st = "completed" => r.u[d].st = "completed"
    BY <1>10
  <2>3. r.u[v].deps = s.u[v].deps
    BY <1>5, <1>8, <1>10
  <2>4. DepsDone(s, v) => DepsDone(r, v)
    BY <2>1, <2>2, <2>3 DEF DepsDone
  <2>5. CASE v = u
    BY <1>5, <1>8, <1>10, <2>1, <2>4, <2>5 DEF UnitSound
  <2>6. CASE v # u
    BY <1>10, <2>1, <2>4, <2>6 DEF UnitSound
  <2> QED BY <2>5, <2>6
<1>13. TotalsSound(r)
  <2>1. {v \in Units : r.u[v].req} = {v \in Units : s.u[v].req}
    BY <1>5, <1>8, <1>10
  <2>2. /\ RequiredIn(r, "completed") = RequiredIn(s, "completed")
        /\ RequiredIn(r, "failed") = RequiredIn(s, "failed")
    BY <1>8, <1>10 DEF RequiredIn
  <2> QED BY <1>9, <2>1, <2>2 DEF Fit, SoundStore, TotalsSound
<1>14. Cardinality(LiveAt(r, n)) <= MaxParallel
  <2>1. LiveAt(r, n) \subseteq LiveAt(s, n) \cup {u}
    BY <1>10 DEF LiveAt
  <2>2. IsFiniteSet(LiveAt(s, n)) /\ Cardinality(LiveAt(s, n)) \in Nat /\ Cardinality(LiveAt(r, n)) \in Nat
    BY UnitSets DEF LiveAt
  <2>3. /\ IsFiniteSet(LiveAt(s, n) \cup {u}) /\ Cardinality(LiveAt(s, n) \cup {u}) \in Nat
        /\ Cardinality(LiveAt(s, n) \cup {u}) <= Cardinality(LiveAt(s, n)) + 1
    <3>1. PICK L : L = LiveAt(s, n)
      OBVIOUS
    <3>2. IsFiniteSet(L \cup {u}) /\ Cardinality(L \cup {u}) = IF u \in L THEN Cardinality(L) ELSE Cardinality(L) + 1
      BY <2>2, <3>1, FS_AddElement
    <3> QED BY <2>2, <3>1, <3>2
  <2>4. Cardinality(LiveAt(r, n)) <= Cardinality(LiveAt(s, n) \cup {u})
    BY <2>1, <2>3, FS_Subset
  <2>5. MaxParallel \in Nat
    BY LongTaskAssumption DEF LegalCommand
  <2> QED BY <2>2, <2>3, <2>4, <2>5
<1>15. Grows(s, r)
  <2>1. \A v \in Units : s.u[v].epoch \in Nat
    BY <1>4, UnitFields
  <2>2. s.u[u].epoch <= r.u[u].epoch /\ s.u[u].st # "completed"
    BY <1>5, <1>7, <1>8, <1>10
  <2> QED BY <1>10, <2>1, <2>2 DEF Grows
<1>16. Fit(r, n)
  BY <1>9, <1>11, <1>12, <1>13, <1>14 DEF Fit, SoundStore
<1> QED BY <1>1, <1>5, <1>8, <1>10, <1>15, <1>16

\* complete_unit.
LEMMA CompletedFit ==
    ASSUME NEW s, NEW n \in Nat, Fit(s, n), s.t.status = "running", NEW u \in Units, s.u[u].st = "claimed"
    PROVE  LET r == RefreshTotals(EndUnits(s, {u}, "completed")) IN Fit(r, n) /\ Grows(s, r)
<1>1. s \in Stores
  BY DEF Fit
<1>2. PICK m : m = EndUnits(s, {u}, "completed")
  OBVIOUS
<1>3. /\ m \in Stores /\ m.t = s.t
      /\ \A v \in Units : v # u => m.u[v] = s.u[v]
      /\ m.u[u].st = "completed" /\ m.u[u].deps = s.u[u].deps /\ m.u[u].req = s.u[u].req
      /\ m.u[u].epoch = s.u[u].epoch
  BY <1>1, <1>2, EndUnitsFacts DEF UnitStatus
<1>4. PICK r : r = RefreshTotals(m)
  OBVIOUS
<1>5. r \in Stores /\ r.u = m.u /\ r.t.status = "running" /\ TotalsSound(r)
  BY <1>3, <1>4, RefreshFacts
<1>6. \A v \in Units : UnitSound(r, v)
  <2> SUFFICES ASSUME NEW v \in Units PROVE UnitSound(r, v)
    OBVIOUS
  <2>1. UnitSound(s, v) /\ s.u[v].deps \subseteq Units
    BY <1>1, StoreFields, UnitFields DEF Fit, SoundStore
  <2>2. \A d \in Units : s.u[d].st = "completed" => r.u[d].st = "completed"
    BY <1>3, <1>5
  <2>3. r.u[v].deps = s.u[v].deps
    BY <1>3, <1>5
  <2>4. DepsDone(s, v) => DepsDone(r, v)
    BY <2>1, <2>2, <2>3 DEF DepsDone
  <2>5. CASE v = u
    BY <1>3, <1>5, <2>1, <2>4, <2>5 DEF UnitSound
  <2>6. CASE v # u
    BY <1>3, <1>5, <2>1, <2>4, <2>6 DEF UnitSound
  <2> QED BY <2>5, <2>6
<1>7. Cardinality(LiveAt(r, n)) <= MaxParallel
  <2>1. \A v \in Units : r.u[v].st = "claimed" /\ r.u[v].exp > n => s.u[v].st = "claimed" /\ s.u[v].exp > n
    BY <1>3, <1>5
  <2> QED BY <1>1, <1>5, <2>1, LiveFewer DEF Fit
<1>8. Grows(s, r)
  <2>1. \A v \in Units : s.u[v].epoch \in Nat
    BY <1>1, StoreFields, UnitFields
  <2> QED BY <1>3, <1>5, <2>1 DEF Grows
<1> QED BY <1>2, <1>4, <1>5, <1>6, <1>7, <1>8 DEF Fit, SoundStore

\* renew_unit_lease.
LEMMA RenewedFit ==
    ASSUME NEW s, NEW n \in Nat, Fit(s, n), s.t.status = "running", NEW u \in Units, s.u[u].st = "claimed",
           s.u[u].exp > n, NEW e \in Nat, NEW r, r = [s EXCEPT !.u[u].exp = e]
    PROVE  Fit(r, n) /\ Grows(s, r)
<1>1. s \in Stores /\ s.u \in [Units -> UnitRecords] /\ s.t \in TaskRecords
  BY StoreFields DEF Fit
<1>2. PICK x \in UnitRecords : x = s.u[u]
  BY <1>1
<1>3. PICK y : y = [x EXCEPT !.exp = e]
  OBVIOUS
<1>4. y \in UnitRecords /\ y.st = x.st /\ y.deps = x.deps /\ y.req = x.req /\ y.epoch = x.epoch
  BY <1>3 DEF UnitRecords
<1>5. r.t = s.t /\ r.u = [s.u EXCEPT ![u] = y]
  BY <1>1, <1>2, <1>3 DEF Stores
<1>6. r.u[u] = y /\ \A v \in Units : v # u => r.u[v] = s.u[v]
  BY <1>1, <1>5
<1>7. r \in Stores
  <2>1. r = [s EXCEPT !.u = r.u]
    BY <1>1, <1>2, <1>3, <1>5 DEF Stores
  <2>2. r.u \in [Units -> UnitRecords]
    BY <1>1, <1>4, <1>5
  <2> QED BY <1>1, <2>1, <2>2 DEF Stores
<1>8. \A v \in Units : /\ r.u[v].st = s.u[v].st /\ r.u[v].deps = s.u[v].deps /\ r.u[v].req = s.u[v].req
                       /\ r.u[v].epoch = s.u[v].epoch
  BY <1>2, <1>4, <1>6
<1>9. \A v \in Units : UnitSound(r, v)
  <2> SUFFICES ASSUME NEW v \in Units PROVE UnitSound(r, v)
    OBVIOUS
  <2>1. UnitSound(s, v) /\ s.u[v].deps \subseteq Units
    BY <1>1, UnitFields DEF Fit, SoundStore
  <2> QED BY <1>8, <2>1 DEF UnitSound, DepsDone
<1>10. TotalsSound(r)
  <2>1. {v \in Units : r.u[v].req} = {v \in Units : s.u[v].req}
    BY <1>8
  <2>2. /\ RequiredIn(r, "completed") = RequiredIn(s, "completed")
        /\ RequiredIn(r, "failed") = RequiredIn(s, "failed")
    BY <1>8 DEF RequiredIn
  <2> QED BY <1>5, <2>1, <2>2 DEF Fit, SoundStore, TotalsSound
<1>11. Cardinality(LiveAt(r, n)) <= MaxParallel
  <2>1. \A v \in Units : r.u[v].st = "claimed" /\ r.u[v].exp > n => s.u[v].st = "claimed" /\ s.u[v].exp > n
    BY <1>6
  <2> QED BY <1>1, <1>7, <2>1, LiveFewer DEF Fit
<1>12. Grows(s, r)
  <2>1. \A v \in Units : s.u[v].epoch \in Nat
    BY <1>1, UnitFields
  <2> QED BY <1>6, <1>8, <2>1 DEF Grows
<1> QED BY <1>5, <1>7, <1>9, <1>10, <1>11, <1>12 DEF Fit, SoundStore

\* A unit of a specification.
LEMMA NewUnit ==
    /\ NoUnit \in UnitRecords /\ NoUnit.st = "absent" /\ NoUnit.req = FALSE /\ NoUnit.epoch = 0
    /\ \A u, ds : ds \in SUBSET Units /\ Attempts[u] \in Nat \ {0} =>
         /\ UnitFromSpec(u, ds) \in UnitRecords /\ UnitFromSpec(u, ds).st = "pending"
         /\ UnitFromSpec(u, ds).req = TRUE /\ UnitFromSpec(u, ds).epoch = 0
<1>1. NoUnit \in UnitRecords /\ NoUnit.st = "absent" /\ NoUnit.req = FALSE /\ NoUnit.epoch = 0
  BY DEF NoUnit, UnitRecords, UnitStatus
<1>2. ASSUME NEW u, NEW ds, ds \in SUBSET Units, Attempts[u] \in Nat \ {0}, NEW y, y = UnitFromSpec(u, ds)
      PROVE  y \in UnitRecords /\ y.st = "pending" /\ y.req = TRUE /\ y.epoch = 0
  <2>1. PICK x \in UnitRecords : x = NoUnit
    BY <1>1
  <2>2. y = [x EXCEPT !.st = "pending", !.deps = ds, !.req = TRUE, !.max = Attempts[u]]
    BY <1>2, <2>1 DEF UnitFromSpec
  <2>3. y \in UnitRecords /\ y.st = "pending" /\ y.req = TRUE /\ y.epoch = x.epoch
    BY <1>2, <2>2 DEF UnitRecords, UnitStatus
  <2> QED BY <1>1, <2>1, <2>3
<1> QED BY <1>1, <1>2

\* expand_unit.
LEMMA ExpandedFit ==
    ASSUME NEW n \in Nat, Fit(Store, n), task.status = "running", NEW u \in Units, unit[u].st = "claimed",
           ~SplitConflicts(u)
    PROVE  Fit(Expanded(u), n) /\ Grows(Store, Expanded(u))
<1> DEFINE kids == ChildrenOf[u]
           deps(v) == IF u \in unit[v].deps THEN (unit[v].deps \ {u}) \cup kids ELSE unit[v].deps
<1>1. PICK s : s = Store
  OBVIOUS
<1>2. s \in Stores /\ s.t = task /\ s.u = unit /\ unit \in [Units -> UnitRecords]
  BY <1>1, StoreFields DEF Fit, Store
<1>3. PICK m : m = EndUnits(s, {u}, "expanded")
  OBVIOUS
<1>4. /\ m \in Stores /\ m.t = s.t
      /\ \A v \in Units : v # u => m.u[v] = unit[v]
      /\ m.u[u].st = "expanded" /\ m.u[u].deps = unit[u].deps /\ m.u[u].epoch = unit[u].epoch
  BY <1>2, <1>3, EndUnitsFacts DEF UnitStatus
<1> DEFINE f == [v \in Units |->
            CASE v \in kids -> UnitFromSpec(v, unit[u].deps \cup Deps[v])
              [] v = u -> [m.u[v] EXCEPT !.req = FALSE]
              [] OTHER -> [m.u[v] EXCEPT !.deps = deps(v)]]
<1>5. kids \subseteq Units /\ \A v \in kids : unit[v].st = "absent"
  BY LongTaskAssumption DEF SplitConflicts
<1>6. u \notin kids
  BY <1>5
<1>7. ASSUME NEW v \in Units, v \in kids
      PROVE  /\ f[v] \in UnitRecords /\ f[v].st = "pending" /\ f[v].req = TRUE /\ f[v].epoch = 0
             /\ unit[v].epoch = 0
  <2>1. f[v] = UnitFromSpec(v, unit[u].deps \cup Deps[v])
    BY <1>6, <1>7
  <2>2. unit[u].deps \cup Deps[v] \in SUBSET Units /\ Attempts[v] \in Nat \ {0}
    BY <1>2, UnitFields, LongTaskAssumption DEF LegalCommand
  <2>3. unit[v].epoch = 0
    BY <1>1, <1>2, <1>5, <1>7 DEF Fit, SoundStore, UnitSound
  <2> HIDE DEF f
  <2> QED BY <2>1, <2>2, <2>3, NewUnit
<1>8. /\ f[u] \in UnitRecords /\ f[u].st = "expanded" /\ f[u].req = FALSE /\ f[u].epoch = unit[u].epoch
  <2>1. PICK x \in UnitRecords : x = m.u[u]
    BY <1>4, StoreFields
  <2>2. f[u] = [x EXCEPT !.req = FALSE]
    BY <1>6, <2>1
  <2> HIDE DEF f
  <2>3. f[u] \in UnitRecords /\ f[u].st = x.st /\ f[u].req = FALSE /\ f[u].epoch = x.epoch
    BY <2>2 DEF UnitRecords
  <2> QED BY <1>4, <2>1, <2>3
<1>9. ASSUME NEW v \in Units, v \notin kids, v # u
      PROVE  /\ f[v] \in UnitRecords /\ f[v].st = unit[v].st /\ f[v].req = unit[v].req
             /\ f[v].epoch = unit[v].epoch /\ f[v].exp = unit[v].exp
             /\ unit[v].st \in {"claimed", "completed"} => f[v] = unit[v]
  <2>1. PICK x \in UnitRecords : x = unit[v]
    BY <1>2
  <2>2. PICK ds : ds = deps(v)
    OBVIOUS
  <2>3. f[v] = [x EXCEPT !.deps = ds]
    BY <1>4, <1>9, <2>1, <2>2
  <2>4. ds \in SUBSET Units
    BY <1>5, <2>1, <2>2, UnitFields
  <2>5. unit[v].st \in {"claimed", "completed"} => ds = x.deps
    <3>1. unit[v].st \in {"claimed", "completed"} => u \notin unit[v].deps
      BY <1>1, <1>2 DEF Fit, SoundStore, UnitSound, DepsDone
    <3> QED BY <2>1, <2>2, <3>1
  <2> HIDE DEF f
  <2>6. /\ f[v] \in UnitRecords /\ f[v].st = x.st /\ f[v].req = x.req /\ f[v].epoch = x.epoch
        /\ f[v].exp = x.exp /\ (ds = x.deps => f[v] = x)
    BY <2>3, <2>4 DEF UnitRecords
  <2> QED BY <2>1, <2>5, <2>6
<1>10. PICK g : g = f
  OBVIOUS
<1>11. g \in [Units -> UnitRecords]
  <2>1. \A v \in Units : f[v] \in UnitRecords
    BY <1>7, <1>8, <1>9
  <2>2. f = [v \in Units |-> f[v]]
    OBVIOUS
  <2> HIDE DEF f
  <2> QED BY <1>10, <2>1, <2>2
<1>12. PICK k : k = [m EXCEPT !.u = g]
  OBVIOUS
<1>13. k \in Stores /\ k.u = g /\ k.t = task
  BY <1>2, <1>4, <1>11, <1>12 DEF Stores
<1>14. PICK r : r = RefreshTotals(k)
  OBVIOUS
<1>15. r \in Stores /\ r.u = g /\ r.t.status = "running" /\ TotalsSound(r)
  BY <1>13, <1>14, RefreshFacts
<1>16. r = Expanded(u)
  BY <1>1, <1>3, <1>10, <1>12, <1>14 DEF Expanded
<1> HIDE DEF f, deps
<1>17. \A v \in Units : UnitSound(r, v)
  <2> SUFFICES ASSUME NEW v \in Units PROVE UnitSound(r, v)
    OBVIOUS
  <2>1. CASE v \in kids
    BY <1>7, <1>10, <1>15, <2>1 DEF UnitSound
  <2>2. CASE v = u
    BY <1>8, <1>10, <1>15, <2>2 DEF UnitSound
  <2>3. CASE v \notin kids /\ v # u
    <3>1. UnitSound(s, v) /\ s.u[v].deps \subseteq Units
      BY <1>1, <1>2, UnitFields DEF Fit, SoundStore
    <3>2. \A d \in Units : s.u[d].st = "completed" => r.u[d].st = "completed"
      <4> SUFFICES ASSUME NEW d \in Units, s.u[d].st = "completed" PROVE r.u[d].st = "completed"
        OBVIOUS
      <4>1. d \notin kids /\ d # u
        BY <1>2, <1>5
      <4> QED BY <1>2, <1>9, <1>10, <1>15, <4>1
    <3>3. /\ r.u[v].st = s.u[v].st /\ r.u[v].req = s.u[v].req /\ r.u[v].epoch = s.u[v].epoch
          /\ s.u[v].st \in {"claimed", "completed"} => r.u[v].deps = s.u[v].deps
      BY <1>2, <1>9, <1>10, <1>15, <2>3
    <3> QED BY <3>1, <3>2, <3>3 DEF UnitSound, DepsDone
  <2> QED BY <2>1, <2>2, <2>3
<1>18. Cardinality(LiveAt(r, n)) <= MaxParallel
  <2>1. \A v \in Units : r.u[v].st = "claimed" /\ r.u[v].exp > n => s.u[v].st = "claimed" /\ s.u[v].exp > n
    <3> SUFFICES ASSUME NEW v \in Units, r.u[v].st = "claimed", r.u[v].exp > n
                 PROVE  s.u[v].st = "claimed" /\ s.u[v].exp > n
      OBVIOUS
    <3>1. v \notin kids /\ v # u
      BY <1>7, <1>8, <1>10, <1>15
    <3> QED BY <1>2, <1>9, <1>10, <1>15, <3>1
  <2> QED BY <1>1, <1>2, <1>15, <2>1, LiveFewer DEF Fit
<1>19. Grows(s, r)
  <2> SUFFICES ASSUME NEW v \in Units
               PROVE s.u[v].epoch <= r.u[v].epoch /\ (s.u[v].st = "completed" => r.u[v] = s.u[v])
    BY DEF Grows
  <2>1. s.u[v].epoch \in Nat
    BY <1>2, UnitFields
  <2>2. CASE v \in kids
    <3>1. s.u[v].epoch = 0 /\ r.u[v].epoch = 0 /\ s.u[v].st = "absent"
      BY <1>2, <1>5, <1>7, <1>10, <1>15, <2>2
    <3> QED BY <3>1
  <2>3. CASE v = u
    BY <1>2, <1>8, <1>10, <1>15, <2>1, <2>3
  <2>4. CASE v \notin kids /\ v # u
    BY <1>2, <1>9, <1>10, <1>15, <2>1, <2>4
  <2> QED BY <2>2, <2>3, <2>4
<1> QED BY <1>1, <1>15, <1>16, <1>17, <1>18, <1>19 DEF Fit, SoundStore

-----------------------------------------------------------------------------
(* The repository's methods.                                               *)

\* The methods that end the task or stop its units.
LEMMA EndingFit ==
    ASSUME NEW s, NEW n \in Nat, Fit(s, n)
    PROVE  /\ Fit(CancelTask(s), n) /\ Grows(s, CancelTask(s))
           /\ Fit(ExpireDeadline(s), n) /\ Grows(s, ExpireDeadline(s))
           /\ Fit(FailBudget(s), n) /\ Grows(s, FailBudget(s))
           /\ Fit(SetTaskStatus(ReleaseActive(s), "paused"), n)
           /\ Grows(s, SetTaskStatus(ReleaseActive(s), "paused"))
<1>1. s \in Stores /\ TotalsSound(s)
  BY DEF Fit, SoundStore
<1>2. /\ Good(s, CancelTask(s)) /\ Good(s, ExpireDeadline(s)) /\ Good(s, FailBudget(s))
      /\ Good(s, SetTaskStatus(ReleaseActive(s), "paused"))
  BY <1>1, CancelGood, FailuresGood, ReleaseGood
<1> QED BY <1>2, GoodFit

\* _claim_unit.
LEMMA ClaimedFit ==
    ASSUME Fit(Store, now), now \in Nat, NEW w \in Workers
    PROVE  LET r == Claimed(Store, w) IN
           /\ Fit(r.s, now) /\ Grows(Store, r.s)
           /\ r.u # 0 => r.u \in Units /\ r.s.u[r.u].epoch = unit[r.u].epoch + 1
<1>1. PICK s : s = Store
  OBVIOUS
<1>2. s \in Stores /\ s.u = unit /\ s.t = task /\ Fit(s, now)
  BY <1>1, StoreFields DEF Fit, Store
<1> DEFINE normal == EndUnits(s, Spent(s), "failed")
           reqFailed == {u \in Spent(s) : s.u[u].req}
           cands == Candidates(normal)
           full == Cardinality({u \in Units : Live(normal, u)}) >= MaxParallel
           pick == Leased(normal, Min(cands), w)
<1>3. PICK r : r = Claimed(s, w)
  OBVIOUS
<1>4. r = IF Elapsed THEN [s |-> ExpireDeadline(s), u |-> 0]
          ELSE IF Budget # 0 /\ s.t.usage >= Budget THEN [s |-> FailBudget(s), u |-> 0]
          ELSE IF s.t.status # "running" \/ s.t.cancel THEN [s |-> s, u |-> 0]
          ELSE IF reqFailed # {} THEN [s |-> FailTask(normal, Min(reqFailed)), u |-> 0]
          ELSE IF full \/ cands = {} THEN [s |-> normal, u |-> 0]
          ELSE [s |-> pick, u |-> Min(cands)]
  BY <1>3 DEF Claimed
<1>5. Spent(s) \subseteq Units /\ \A u \in Spent(s) : s.u[u].st = "claimed"
  BY DEF Spent, Stale
<1>6. PICK m : m = normal
  OBVIOUS
<1>7. m \in Stores /\ m.t = s.t /\ Lasting(s, m)
  BY <1>2, <1>5, <1>6, EndUnitsKept DEF Ended, Fixed
<1>8. s.t.status = "running" => Good(s, m) /\ Fit(m, now) /\ Grows(s, m)
  <2>1. TotalsSound(m)
    BY <1>2, <1>7, LastingTotals DEF Fit, SoundStore
  <2>2. s.t.status = "running" => Good(s, m)
    BY <1>7, <2>1 DEF Good, Lasting
  <2> QED BY <1>2, <2>2, GoodFit
<1>9. Fit(ExpireDeadline(s), now) /\ Grows(s, ExpireDeadline(s)) /\ Fit(FailBudget(s), now) /\ Grows(s, FailBudget(s))
  BY <1>2, EndingFit
<1>10. ASSUME s.t.status = "running", NEW v PROVE Fit(FailTask(m, v), now) /\ Grows(s, FailTask(m, v))
  <2>1. Good(m, FailTask(m, v))
    BY <1>7, FailuresGood
  <2>2. Good(s, FailTask(m, v))
    BY <1>7, <2>1, KeptTransitive DEF Lasting
  <2> QED BY <1>2, <2>2, GoodFit
<1>11. ASSUME s.t.status = "running", ~full, cands # {}
       PROVE  /\ Fit(pick, now) /\ Grows(s, pick) /\ Min(cands) \in Units
              /\ pick.u[Min(cands)].epoch = s.u[Min(cands)].epoch + 1
  <2>1. PICK u : u = Min(cands)
    OBVIOUS
  <2>2. u \in Units /\ m.u[u].st \in {"pending", "waiting_retry", "claimed"} /\ DepsDone(m, u)
    <3>1. cands \in SUBSET Units
      BY DEF Candidates
    <3>2. u \in cands
      <4> HIDE DEF cands
      <4> QED BY <1>11, <2>1, <3>1, MinUnit
    <3> QED BY <1>6, <3>2 DEF Candidates, Stale
  <2>3. Cardinality(LiveAt(m, now)) < MaxParallel
    <3>1. LiveAt(m, now) = {v \in Units : Live(normal, v)}
      BY <1>6 DEF LiveAt, Live
    <3>2. Cardinality(LiveAt(m, now)) \in Nat /\ MaxParallel \in Nat
      BY UnitSets, LongTaskAssumption DEF LiveAt, LegalCommand
    <3> QED BY <1>11, <3>1, <3>2
  <2>5. PICK k : k = Leased(m, u, w)
    OBVIOUS
  <2>6. m.t.status = "running" /\ Fit(m, now)
    BY <1>7, <1>8, <1>11
  <2>7. Fit(k, now) /\ Grows(m, k) /\ k.u[u].epoch = m.u[u].epoch + 1
    BY <2>2, <2>3, <2>5, <2>6, ClaimFit
  <2>8. k = pick
    BY <1>6, <2>1, <2>5
  <2>9. Grows(s, k)
    <3>1. \A v \in Units : s.u[v].epoch \in Nat /\ m.u[v].epoch \in Nat /\ k.u[v].epoch \in Nat
      BY <1>2, <2>6, <2>7, StoreFields, UnitFields DEF Fit
    <3> QED BY <1>8, <1>11, <2>7, <3>1 DEF Grows
  <2>10. m.u[u].epoch = s.u[u].epoch
    BY <1>7, <2>2 DEF Lasting, Kept
  <2> HIDE DEF pick, cands
  <2> QED BY <2>1, <2>2, <2>7, <2>8, <2>9, <2>10
<1>12. Fit(r.s, now) /\ Grows(s, r.s) /\ (r.u # 0 => r.u \in Units /\ r.s.u[r.u].epoch = s.u[r.u].epoch + 1)
  <2> HIDE DEF normal, reqFailed, cands, full, pick
  <2>1. CASE Elapsed
    BY <1>4, <1>9, <2>1
  <2>2. CASE ~Elapsed /\ Budget # 0 /\ s.t.usage >= Budget
    BY <1>4, <1>9, <2>2
  <2>3. CASE ~Elapsed /\ ~(Budget # 0 /\ s.t.usage >= Budget)
    <3>1. CASE s.t.status # "running" \/ s.t.cancel
      BY <1>2, <1>4, <2>3, <3>1, SameGrows
    <3>2. CASE ~(s.t.status # "running" \/ s.t.cancel) /\ reqFailed # {}
      <4>1. r.s = FailTask(m, Min(reqFailed)) /\ r.u = 0
        BY <1>4, <1>6, <2>3, <3>2
      <4> QED BY <1>10, <3>2, <4>1
    <3>3. CASE ~(s.t.status # "running" \/ s.t.cancel) /\ reqFailed = {} /\ (full \/ cands = {})
      <4>1. r.s = m /\ r.u = 0
        BY <1>4, <1>6, <2>3, <3>3
      <4> QED BY <1>8, <3>3, <4>1
    <3>4. CASE ~(s.t.status # "running" \/ s.t.cancel) /\ reqFailed = {} /\ ~(full \/ cands = {})
      <4>1. r.s = pick /\ r.u = Min(cands)
        BY <1>4, <2>3, <3>4
      <4> QED BY <1>11, <3>4, <4>1
    <3> QED BY <3>1, <3>2, <3>3, <3>4
  <2> QED BY <2>1, <2>2, <2>3
<1> QED BY <1>1, <1>2, <1>3, <1>12

\* finalize_if_complete.
LEMMA FinalizedFit ==
    ASSUME NEW s, now \in Nat, Fit(s, now)
    PROVE  Fit(Finalized(s), now) /\ Grows(s, Finalized(s))
<1> DEFINE open == {u \in Units : s.u[u].req /\ s.u[u].st # "completed"}
           stranded == Min(open)
<1>1. s \in Stores /\ TotalsSound(s)
  BY DEF Fit, SoundStore
<1>2. Fit(s, now) /\ Grows(s, s)
  BY <1>1, SameGrows
<1>3. CASE Elapsed
  <2>1. Finalized(s) = ExpireDeadline(s)
    BY <1>3 DEF Finalized
  <2> QED BY <2>1, EndingFit
<1>4. CASE ~Elapsed /\ s.t.cancel
  <2>1. Finalized(s) = CancelTask(s)
    BY <1>4 DEF Finalized
  <2> QED BY <2>1, EndingFit
<1>5. CASE ~Elapsed /\ ~s.t.cancel /\ s.t.status # "running"
  <2>1. Finalized(s) = s
    BY <1>5 DEF Finalized
  <2> QED BY <1>2, <2>1
<1>6. CASE ~Elapsed /\ ~s.t.cancel /\ s.t.status = "running"
  <2>1. Finalized(s) = IF RequiredIn(s, "failed") # {} THEN SetTaskStatus(s, "failed")
               ELSE IF open = {} THEN SetTaskStatus(s, "completed")
               ELSE IF HasRunnableWork(s) THEN s
               ELSE IF RequiredIn(s, "blocked") # {} THEN SetTaskStatus(s, "paused")
               ELSE FailTask(EndUnits(s, {stranded}, "failed"), stranded)
    BY <1>6 DEF Finalized
  <2>2. Fit(SetTaskStatus(s, "failed"), now) /\ Grows(s, SetTaskStatus(s, "failed"))
    BY StatusFit DEF TaskStatus
  <2>3. Fit(SetTaskStatus(s, "paused"), now) /\ Grows(s, SetTaskStatus(s, "paused"))
    BY StatusFit DEF TaskStatus
  <2>4. open = {} => Fit(SetTaskStatus(s, "completed"), now) /\ Grows(s, SetTaskStatus(s, "completed"))
    BY <1>6, StatusFit DEF TaskStatus
  <2>5. ASSUME open # {}
        PROVE  LET r == FailTask(EndUnits(s, {stranded}, "failed"), stranded) IN Fit(r, now) /\ Grows(s, r)
    <3>1. PICK v : v = stranded
      OBVIOUS
    <3>2. v \in open
      <4>1. open \in SUBSET Units
        OBVIOUS
      <4> HIDE DEF open
      <4> QED BY <2>5, <3>1, <4>1, MinUnit
    <3>3. s.u[v].st \notin Fixed
      BY <3>2 DEF Fixed, Fit, SoundStore, UnitSound
    <3>4. PICK m : m = EndUnits(s, {v}, "failed")
      OBVIOUS
    <3>5. m \in Stores /\ Kept(s, m)
      BY <1>1, <3>3, <3>4, EndUnitsKept DEF Ended
    <3>6. Good(m, FailTask(m, v))
      BY <3>5, FailuresGood
    <3>7. Good(s, FailTask(m, v))
      BY <3>5, <3>6, KeptTransitive
    <3>8. Fit(FailTask(m, v), now) /\ Grows(s, FailTask(m, v))
      BY <3>7, GoodFit
    <3> HIDE DEF stranded
    <3> QED BY <3>1, <3>4, <3>8
  <2> HIDE DEF open, stranded
  <2> QED BY <1>2, <2>1, <2>2, <2>3, <2>4, <2>5
<1> QED BY <1>3, <1>4, <1>5, <1>6

\* Units that are stopped and may get attempts back.
LEMMA StoppedKept ==
    ASSUME NEW s \in Stores, NEW set, NEW st \in Ended, NEW n \in Nat,
           \A u \in Units : u \in set => s.u[u].st \notin Fixed
    PROVE  LET r == MoreAttempts(EndUnits(s, set, st), set, n) IN
           /\ r \in Stores /\ r.t = s.t /\ Kept(s, r)
           /\ (\A u \in Units : u \in set => s.u[u].st # "failed" \/ st = "failed") => Lasting(s, r)
<1>1. PICK m : m = EndUnits(s, set, st)
  OBVIOUS
<1>2. /\ m \in Stores /\ m.t = s.t /\ Kept(s, m)
      /\ (\A u \in Units : u \in set => s.u[u].st # "failed" \/ st = "failed") => Lasting(s, m)
  BY <1>1, EndUnitsKept
<1>3. \A u \in Units : u \in set => m.u[u].st \notin Fixed
  <2>1. st \in UnitStatus /\ st \notin Fixed
    BY DEF Ended, UnitStatus, Fixed
  <2> QED BY <1>1, <2>1, EndUnitsFacts
<1>4. PICK r : r = MoreAttempts(m, set, n)
  OBVIOUS
<1>5. r \in Stores /\ r.t = m.t /\ Lasting(m, r)
  BY <1>2, <1>3, <1>4, RaisedKept
<1>6. Kept(s, r) /\ (Lasting(s, m) => Lasting(s, r))
  BY <1>2, <1>5, KeptTransitive DEF Lasting
<1> QED BY <1>1, <1>2, <1>4, <1>5, <1>6

\* repository.resume.
LEMMA ResumedFit ==
    ASSUME Fit(Store, now), now \in Nat, NEW asked \in Nat
    PROVE  Fit(Resumed(asked).s, now) /\ Grows(Store, Resumed(asked).s)
<1> DEFINE targets == {u \in Units : unit[u].st \in Resumable}
           extra == IF asked = 0 /\ targets # {} /\ \A u \in targets : unit[u].st = "blocked" THEN 1 ELSE asked
<1>1. PICK s : s = Store
  OBVIOUS
<1>2. s \in Stores /\ s.u = unit /\ TotalsSound(s) /\ Fit(s, now)
  BY <1>1 DEF Fit, SoundStore, Store
<1>3. PICK m : m = MoreAttempts(EndUnits(s, targets, "pending"), targets, extra)
  OBVIOUS
<1>4. extra \in Nat
  OBVIOUS
<1>5. \A u \in Units : u \in targets => s.u[u].st \notin Fixed
  BY <1>2 DEF Resumable, Fixed
<1>6. m \in Stores /\ m.t = s.t /\ Kept(s, m)
  <2> HIDE DEF targets, extra
  <2> QED BY <1>2, <1>3, <1>4, <1>5, StoppedKept DEF Ended
<1>7. PICK k : k = SetTaskStatus(m, "running")
  OBVIOUS
<1>8. /\ k \in Stores /\ k.u = m.u /\ k.t.status = "running" /\ k.t.cancel = m.t.cancel
      /\ k.t.total = m.t.total /\ k.t.done = m.t.done
  BY <1>6, <1>7, SetStatusFacts DEF TaskStatus
<1>9. PICK x \in TaskRecords : x = k.t
  BY <1>8, StoreFields
<1>10. PICK y : y = [x EXCEPT !.failed = 0]
  OBVIOUS
<1>11. /\ y \in TaskRecords /\ y.status = x.status /\ y.cancel = x.cancel /\ y.total = x.total
       /\ y.done = x.done /\ y.failed = 0
  BY <1>10 DEF TaskRecords
<1>12. PICK r : r = [k EXCEPT !.t.failed = 0]
  OBVIOUS
<1>13. r \in Stores /\ r.t = y /\ r.u = k.u
  BY <1>8, <1>9, <1>10, <1>11, <1>12 DEF Stores
<1>14. Kept(s, r)
  BY <1>6, <1>8, <1>9, <1>11, <1>13 DEF Kept
<1>15. TotalsSound(r)
  BY <1>2, <1>6, <1>8, <1>9, <1>11, <1>13, <1>14, TotalsKept
<1>16. Good(s, r)
  BY <1>8, <1>9, <1>11, <1>13, <1>14, <1>15 DEF Good
<1>17. Resumed(asked).s = r
  BY <1>1, <1>3, <1>7, <1>12 DEF Resumed
<1> QED BY <1>1, <1>2, <1>16, <1>17, GoodFit

\* interrupt_unit.
LEMMA InterruptedFit ==
    ASSUME Fit(Store, now), now \in Nat, NEW u \in Units, unit[u].st = "claimed"
    PROVE  Fit(UnitInterrupted(u), now) /\ Grows(Store, UnitInterrupted(u))
<1>1. PICK s : s = Store
  OBVIOUS
<1>2. s \in Stores /\ s.u = unit /\ TotalsSound(s) /\ Fit(s, now)
  BY <1>1 DEF Fit, SoundStore, Store
<1>3. PICK m : m = MoreAttempts(EndUnits(s, {u}, "pending"), {u}, 1)
  OBVIOUS
<1>4. m \in Stores /\ Lasting(s, m)
  BY <1>2, <1>3, StoppedKept DEF Ended, Fixed
<1>5. PICK r : r = SetTaskStatus(m, "paused")
  OBVIOUS
<1>6. r \in Stores /\ Lasting(m, r) /\ r.t.status = "paused"
  BY <1>4, <1>5, StatusKept DEF TaskStatus
<1>7. Lasting(s, r)
  BY <1>4, <1>6, KeptTransitive DEF Lasting
<1>8. TotalsSound(r)
  BY <1>2, <1>6, <1>7, LastingTotals
<1>9. Good(s, r)
  BY <1>6, <1>7, <1>8 DEF Good, Lasting
<1> QED BY <1>1, <1>2, <1>3, <1>5, <1>9, GoodFit DEF UnitInterrupted

\* settle_unit_failure.
LEMMA SettledFit ==
    ASSUME Fit(Store, now), now \in Nat, NEW u \in Units, unit[u].st = "claimed", task.status = "running",
           NEW d \in {"retry", "resume", "pause", "cancel", "fail"}, NEW systemic \in BOOLEAN
    PROVE  Fit(Settled(u, d, systemic), now) /\ Grows(Store, Settled(u, d, systemic))
<1> DEFINE st == CASE d \in {"retry", "resume"} -> "waiting_retry"
                   [] d = "pause" -> "blocked"
                   [] d = "cancel" -> "canceled"
                   [] d = "fail" -> "failed"
<1>1. PICK s : s = Store
  OBVIOUS
<1>2. s \in Stores /\ s.u = unit /\ s.t = task /\ TotalsSound(s) /\ Fit(s, now)
  BY <1>1 DEF Fit, SoundStore, Store
<1>3. st \in Ended
  BY DEF Ended
<1>4. PICK e : e = EndUnits(s, {u}, st)
  OBVIOUS
<1>5. e \in Stores /\ e.t = s.t /\ Lasting(s, e)
  <2> HIDE DEF st
  <2> QED BY <1>2, <1>3, <1>4, EndUnitsKept DEF Fixed
<1>6. PICK m : m = IF d = "resume" /\ unit[u].att >= unit[u].max THEN MoreAttempts(e, {u}, 1) ELSE e
  OBVIOUS
<1>7. m \in Stores /\ m.t = s.t /\ Lasting(s, m)
  <2>1. PICK k : k = MoreAttempts(EndUnits(s, {u}, st), {u}, 1)
    OBVIOUS
  <2>2. k \in Stores /\ k.t = s.t /\ Lasting(s, k)
    <3> HIDE DEF st
    <3> QED BY <1>2, <1>3, <2>1, StoppedKept DEF Fixed
  <2> QED BY <1>4, <1>5, <1>6, <2>1, <2>2
<1>8. TotalsSound(m)
  BY <1>2, <1>7, LastingTotals
<1>9. PICK r : r = Settled(u, d, systemic)
  OBVIOUS
<1>10. r = CASE d = "cancel" -> CancelTask(m)
             [] d = "fail" -> FailTask(m, u)
             [] d = "pause" /\ (systemic \/ ~HasRunnableWork(m)) -> SetTaskStatus(ReleaseActive(m), "paused")
             [] OTHER -> m
  BY <1>1, <1>4, <1>6, <1>9 DEF Settled
<1>11. r \in {CancelTask(m), FailTask(m, u), SetTaskStatus(ReleaseActive(m), "paused"), m}
  BY <1>10
<1>12. Kept(s, m) /\ Good(s, m)
  BY <1>2, <1>7, <1>8 DEF Good, Lasting
<1>13. Good(m, CancelTask(m)) /\ Good(m, FailTask(m, u)) /\ Good(m, SetTaskStatus(ReleaseActive(m), "paused"))
  BY <1>7, <1>8, CancelGood, FailuresGood, ReleaseGood
<1>14. Good(s, r)
  BY <1>11, <1>12, <1>13, KeptTransitive
<1> QED BY <1>1, <1>2, <1>9, <1>14, GoodFit

\* repository.create.
LEMMA CreatedFit ==
    ASSUME Fit(Store, now), now \in Nat, task.status = "none"
    PROVE  Fit(Created, now) /\ Grows(Store, Created)
<1>1. PICK s : s = Store
  OBVIOUS
<1>2. s \in Stores /\ s.u = unit /\ s.t = task /\ Fit(s, now) /\ task \in TaskRecords /\ unit \in [Units -> UnitRecords]
  BY <1>1, StoreFields DEF Fit, Store
<1>3. \A u \in Units : unit[u].st = "absent" /\ unit[u].epoch = 0
  BY <1>2 DEF Fit, SoundStore, UnitSound
<1>4. ASSUME NEW u \in Units
      PROVE  /\ RecipeUnits[u] \in UnitRecords /\ RecipeUnits[u].epoch = 0
             /\ RecipeUnits[u].st = (IF u \in Recipe THEN "pending" ELSE "absent")
             /\ u \in Recipe => RecipeUnits[u].req = TRUE
             /\ u \notin Recipe => RecipeUnits[u].req = FALSE
  <2>1. Deps[u] \in SUBSET Units /\ Attempts[u] \in Nat \ {0}
    BY LongTaskAssumption DEF LegalCommand
  <2>2. CASE u \in Recipe
    <3>1. RecipeUnits[u] = UnitFromSpec(u, Deps[u])
      BY <2>2 DEF RecipeUnits
    <3> QED BY <2>1, <2>2, <3>1, NewUnit
  <2>3. CASE u \notin Recipe
    <3>1. RecipeUnits[u] = NoUnit
      BY <2>3 DEF RecipeUnits
    <3> QED BY <2>3, <3>1, NewUnit
  <2> QED BY <2>2, <2>3
<1>5. PICK g : g = RecipeUnits
  OBVIOUS
<1>6. g \in [Units -> UnitRecords]
  BY <1>4, <1>5 DEF RecipeUnits
<1>7. Recipe \subseteq Units /\ Cardinality(Recipe) \in Nat
  BY LongTaskAssumption, UnitSets DEF LegalCommand
<1>8. PICK y : y = [task EXCEPT !.status = "pending", !.total = Cardinality(Recipe)]
  OBVIOUS
<1>9. /\ y \in TaskRecords /\ y.status = "pending" /\ y.total = Cardinality(Recipe)
      /\ y.done = task.done /\ y.failed = task.failed
  BY <1>2, <1>7, <1>8 DEF TaskRecords, TaskStatus
<1>10. PICK r : r = [t |-> y, u |-> g]
  OBVIOUS
<1>11. r = Created /\ r \in Stores /\ r.t = y /\ r.u = g
  BY <1>5, <1>6, <1>8, <1>9, <1>10 DEF Created, Stores
<1>12. \A u \in Units : /\ r.u[u].epoch = 0 /\ r.u[u].st = (IF u \in Recipe THEN "pending" ELSE "absent")
                        /\ u \in Recipe => r.u[u].req = TRUE
                        /\ u \notin Recipe => r.u[u].req = FALSE
  BY <1>4, <1>5, <1>11
<1>13. \A u \in Units : UnitSound(r, u)
  BY <1>12 DEF UnitSound
<1>14. TotalsSound(r)
  <2>1. {u \in Units : r.u[u].req} = Recipe
    BY <1>7, <1>12
  <2>2. RequiredIn(r, "completed") = {} /\ RequiredIn(r, "failed") = {}
    BY <1>12 DEF RequiredIn
  <2>3. RequiredIn(s, "completed") = {} /\ RequiredIn(s, "failed") = {}
    BY <1>2, <1>3 DEF RequiredIn
  <2> QED BY <1>2, <1>9, <1>11, <2>1, <2>2, <2>3 DEF Fit, SoundStore, TotalsSound
<1>15. Cardinality(LiveAt(r, now)) <= MaxParallel
  <2>1. LiveAt(r, now) = {}
    BY <1>12 DEF LiveAt
  <2> QED BY <2>1, FS_EmptySet, LongTaskAssumption DEF LegalCommand
<1>16. Grows(s, r)
  BY <1>2, <1>3, <1>12 DEF Grows
<1> QED BY <1>1, <1>9, <1>11, <1>13, <1>14, <1>15, <1>16 DEF Fit, SoundStore

\* record_usage.
LEMMA UsageFit ==
    ASSUME NEW s, now \in Nat, Fit(s, now), NEW r, r = [s EXCEPT !.t.usage = @ + 1]
    PROVE  Fit(r, now) /\ Grows(s, r)
<1>1. s \in Stores
  BY DEF Fit
<1>2. PICK x \in TaskRecords : x = s.t
  BY <1>1, StoreFields
<1>3. PICK y : y = [x EXCEPT !.usage = @ + 1]
  OBVIOUS
<1>4. /\ y \in TaskRecords /\ y.status = x.status /\ y.cancel = x.cancel /\ y.total = x.total
      /\ y.done = x.done /\ y.failed = x.failed
  <2>1. x.usage + 1 \in Nat
    BY TaskFields
  <2> QED BY <1>3, <2>1 DEF TaskRecords
<1>5. r \in Stores /\ r.t = y /\ r.u = s.u
  BY <1>1, <1>2, <1>3, <1>4 DEF Stores
<1>6. r.t.status = "completed" => ~r.t.cancel /\ \A u \in Units : s.u[u].req => s.u[u].st = "completed"
  BY <1>2, <1>4, <1>5 DEF Fit
<1> QED BY <1>2, <1>4, <1>5, <1>6, SameUnitsFit

-----------------------------------------------------------------------------
(* What a step does to the store.                                          *)

\* A write.
LEMMA PutStore ==
    ASSUME NEW s \in Stores, Put(s)
    PROVE  Store' = s
BY StoreFields DEF Put, Store

\* The store of a reachable state, and a write or none.
LEMMA WriteFit ==
    ASSUME Fit(Store, now), now \in Nat
    PROVE  /\ UNCHANGED <<task, unit>> => Fit(Store', now) /\ Grows(Store, Store')
           /\ \A s : Fit(s, now) /\ Grows(Store, s) /\ Put(s) => Fit(Store', now) /\ Grows(Store, Store')
<1>1. ASSUME UNCHANGED <<task, unit>> PROVE Fit(Store', now) /\ Grows(Store, Store')
  <2>1. Store' = Store
    BY <1>1 DEF Store
  <2>2. Grows(Store, Store)
    BY SameGrows DEF Fit
  <2> QED BY <2>1, <2>2
<1>2. ASSUME NEW s, Fit(s, now), Grows(Store, s), Put(s) PROVE Fit(Store', now) /\ Grows(Store, Store')
  <2>1. s \in Stores
    BY <1>2 DEF Fit
  <2>2. Store' = s
    BY <1>2, <2>1, PutStore
  <2> QED BY <1>2, <2>2
<1> QED BY <1>1, <1>2

\* A fenced write.
LEMMA FencedFit ==
    ASSUME Fit(Store, now), now \in Nat, NEW c, NEW x, NEW s,
           HoldsUnit(c, x) => Fit(s, now) /\ Grows(Store, s), Fenced(c, x, s)
    PROVE  Fit(Store', now) /\ Grows(Store, Store')
<1>1. CASE Elapsed
  <2>1. Put(ExpireDeadline(Store))
    BY <1>1 DEF Fenced
  <2> QED BY <2>1, EndingFit, WriteFit
<1>2. CASE ~Elapsed
  BY <1>2, WriteFit DEF Fenced
<1> QED BY <1>1, <1>2

\* The dispatches.
LEMMA DispatchFit ==
    ASSUME Fit(Store, now), now \in Nat, NEW c \in Coords, Dispatch(c)
    PROVE  Fit(Store', now) /\ Grows(Store, Store')
<1>1. CASE FindActive(c) \/ FindByKey(c) \/ Link(c)
  BY <1>1, WriteFit DEF FindActive, FindByKey, Link
<1>2. CASE Create(c)
  <2>1. task.status = "none" => Fit(Created, now) /\ Grows(Store, Created)
    BY CreatedFit
  <2>2. (task.status = "none" /\ Put(Created)) \/ UNCHANGED <<task, unit>>
    BY <1>2 DEF Create
  <2> QED BY <2>1, <2>2, WriteFit
<1>3. CASE Resume(c)
  <2>1. PICK asked \in Nat : asked = IF co[c].saw = "failed" THEN RetryFailed ELSE 0
    BY LongTaskAssumption
  <2>2. Put(Resumed(asked).s) \/ UNCHANGED <<task, unit>>
    BY <1>3, <2>1 DEF Resume
  <2>3. Fit(Resumed(asked).s, now) /\ Grows(Store, Resumed(asked).s)
    BY ResumedFit
  <2> QED BY <2>2, <2>3, WriteFit
<1> QED BY <1>1, <1>2, <1>3 DEF Dispatch

\* The coordinator.
LEMMA CoordinateFit ==
    ASSUME Fit(Store, now), now \in Nat, NEW c \in Coords, Coordinate(c)
    PROVE  Fit(Store', now) /\ Grows(Store, Store')
<1>1. /\ Fit(CancelTask(Store), now) /\ Grows(Store, CancelTask(Store))
      /\ Fit(ExpireDeadline(Store), now) /\ Grows(Store, ExpireDeadline(Store))
      /\ Fit(SetTaskStatus(ReleaseActive(Store), "paused"), now)
      /\ Grows(Store, SetTaskStatus(ReleaseActive(Store), "paused"))
  BY EndingFit
<1>2. CASE Enter(c)
  <2>1. UNCHANGED <<task, unit>> \/ Put(CancelTask(Store))
    BY <1>2 DEF Enter
  <2> QED BY <1>1, <2>1, WriteFit
<1>3. CASE Start(c)
  <2>1. \/ UNCHANGED <<task, unit>> \/ Put(CancelTask(Store)) \/ Put(ExpireDeadline(Store))
        \/ Put(SetTaskStatus(Store, "running"))
    BY <1>3 DEF Start
  <2>2. Fit(SetTaskStatus(Store, "running"), now) /\ Grows(Store, SetTaskStatus(Store, "running"))
    BY StatusFit DEF TaskStatus
  <2> QED BY <1>1, <2>1, <2>2, WriteFit
<1>4. CASE Loop(c) \/ Drain(c)
  BY <1>4, WriteFit DEF Loop, Drain
<1>5. CASE Claim(c)
  <2>1. PICK r : r = Claimed(Store, WorkerOf[c])
    OBVIOUS
  <2>2. UNCHANGED <<task, unit>> \/ Put(r.s)
    BY <1>5, <2>1 DEF Claim
  <2>3. WorkerOf[c] \in Workers
    BY LongTaskAssumption
  <2>4. Fit(r.s, now) /\ Grows(Store, r.s)
    BY <2>1, <2>3, ClaimedFit
  <2> QED BY <2>2, <2>4, WriteFit
<1>6. CASE Finalize(c)
  <2>1. Put(Finalized(Store))
    BY <1>6 DEF Finalize
  <2>2. Fit(Finalized(Store), now) /\ Grows(Store, Finalized(Store))
    BY FinalizedFit
  <2> QED BY <2>1, <2>2, WriteFit
<1>7. CASE Stop(c)
  <2>1. \/ UNCHANGED <<task, unit>> \/ Put(CancelTask(Store))
        \/ Put(SetTaskStatus(ReleaseActive(Store), "paused"))
    BY <1>7 DEF Stop
  <2> QED BY <1>1, <2>1, WriteFit
<1>8. CASE Expire(c)
  <2>1. UNCHANGED <<task, unit>> \/ Put(ExpireDeadline(Store))
    BY <1>8 DEF Expire
  <2> QED BY <1>1, <2>1, WriteFit
<1> QED BY <1>2, <1>3, <1>4, <1>5, <1>6, <1>7, <1>8 DEF Coordinate

\* The unit executions.
LEMMA ExecuteFit ==
    ASSUME Fit(Store, now), now \in Nat, NEW c, NEW x, x.u \in Units, Execute(c, x)
    PROVE  Fit(Store', now) /\ Grows(Store, Store')
<1>1. PICK u \in Units : u = x.u
  OBVIOUS
<1>2. HoldsUnit(c, x) => task.status = "running" /\ unit[u].st = "claimed" /\ unit[u].exp > now
  BY <1>1 DEF HoldsUnit
<1>3. Store.t = task /\ Store.u = unit
  BY DEF Store
<1>4. CASE CompleteUnit(c, x)
  <2>1. HoldsUnit(c, x) => Fit(Completed(u), now) /\ Grows(Store, Completed(u))
    BY <1>2, <1>3, CompletedFit DEF Completed
  <2>2. UNCHANGED <<task, unit>> \/ Fenced(c, x, Completed(u))
    BY <1>1, <1>4 DEF CompleteUnit
  <2> QED BY <2>1, <2>2, WriteFit, FencedFit
<1>5. CASE Heartbeat(c, x)
  <2>1. now + LeaseMs \in Nat
    BY LongTaskAssumption
  <2>2. HoldsUnit(c, x) => Fit(Renewed(u), now) /\ Grows(Store, Renewed(u))
    BY <1>2, <1>3, <2>1, RenewedFit DEF Renewed
  <2>3. Fenced(c, x, Renewed(u))
    BY <1>1, <1>5 DEF Heartbeat
  <2> QED BY <2>2, <2>3, FencedFit
<1>6. CASE Interrupt(c, x)
  <2>1. HoldsUnit(c, x) => Fit(UnitInterrupted(u), now) /\ Grows(Store, UnitInterrupted(u))
    BY <1>2, InterruptedFit
  <2>2. UNCHANGED <<task, unit>> \/ Fenced(c, x, UnitInterrupted(u))
    BY <1>1, <1>6 DEF Interrupt
  <2> QED BY <2>1, <2>2, WriteFit, FencedFit
<1>7. CASE FailUnit(c, x)
  <2>1. CASE task.status # "running"
    BY <1>7, <2>1, WriteFit DEF FailUnit
  <2>2. CASE task.status = "running"
    <3>1. PICK systemic \in BOOLEAN,
               d \in IF unit[u].max > unit[u].att THEN DecisionsWithAttempts ELSE DecisionsExhausted :
            IF d = "split" /\ ChildrenOf[u] # {}
            THEN Fenced(c, x, IF SplitConflicts(u) THEN Store ELSE Expanded(u))
            ELSE Fenced(c, x, Settled(u, IF d = "split" THEN "fail" ELSE d, systemic))
      BY <1>1, <1>7, <2>2 DEF FailUnit
    <3>2. d \in {"retry", "resume", "pause", "cancel", "fail", "split"}
      BY DEF DecisionsWithAttempts, DecisionsExhausted, DecideFailure, Signals
    <3>3. CASE d = "split" /\ ChildrenOf[u] # {}
      <4>1. PICK s : s = IF SplitConflicts(u) THEN Store ELSE Expanded(u)
        OBVIOUS
      <4>2. Fenced(c, x, s)
        BY <3>1, <3>3, <4>1
      <4>3. HoldsUnit(c, x) => Fit(s, now) /\ Grows(Store, s)
        <5>1. CASE SplitConflicts(u)
          <6>1. s = Store /\ Grows(Store, Store)
            BY <4>1, <5>1, SameGrows DEF Fit
          <6> QED BY <6>1
        <5>2. CASE ~SplitConflicts(u)
          BY <1>2, <4>1, <5>2, ExpandedFit
        <5> QED BY <5>1, <5>2
      <4> QED BY <4>2, <4>3, FencedFit
    <3>4. CASE ~(d = "split" /\ ChildrenOf[u] # {})
      <4>1. PICK e \in {"retry", "resume", "pause", "cancel", "fail"} : e = IF d = "split" THEN "fail" ELSE d
        BY <3>2
      <4>2. Fenced(c, x, Settled(u, e, systemic))
        BY <3>1, <3>4, <4>1
      <4>3. HoldsUnit(c, x) => Fit(Settled(u, e, systemic), now) /\ Grows(Store, Settled(u, e, systemic))
        BY <1>2, SettledFit
      <4> QED BY <4>2, <4>3, FencedFit
    <3> QED BY <3>3, <3>4
  <2> QED BY <2>1, <2>2
<1> QED BY <1>4, <1>5, <1>6, <1>7 DEF Execute

\* The environment.
LEMMA EnvironmentFit ==
    ASSUME Fit(Store, now), now \in Nat, RequestCancel \/ RecordUsage \/ RecoverAfterRestart
    PROVE  Fit(Store', now) /\ Grows(Store, Store')
<1>1. PICK s : s = Store
  OBVIOUS
<1>2. s \in Stores /\ s.t = task /\ s.u = unit /\ Fit(s, now) /\ task \in TaskRecords
  BY <1>1, StoreFields DEF Fit, Store
<1>3. CASE RequestCancel
  <2>1. PICK x : x = [task EXCEPT !.cancel = TRUE]
    OBVIOUS
  <2>2. /\ x \in TaskRecords /\ x.status = task.status /\ x.total = task.total
        /\ x.done = task.done /\ x.failed = task.failed
    BY <1>2, <2>1 DEF TaskRecords
  <2>3. PICK r : r = Store'
    OBVIOUS
  <2>4. r.t = x /\ r.u = unit /\ r \in Stores
    BY <1>2, <1>3, <2>1, <2>2, <2>3, StoreFields DEF RequestCancel, Store, Stores
  <2>5. task.status \notin {"none", "completed"}
    BY <1>3 DEF RequestCancel, TaskActive
  <2>6. Fit(r, now) /\ Grows(s, r)
    BY <1>2, <2>2, <2>4, <2>5, SameUnitsFit
  <2> QED BY <1>1, <2>3, <2>6
<1>4. CASE RecordUsage
  <2>1. PICK r : r = [s EXCEPT !.t.usage = @ + 1]
    OBVIOUS
  <2>2. Put(r) \/ Put(FailBudget(r))
    BY <1>1, <1>4, <2>1 DEF RecordUsage
  <2>3. Fit(r, now) /\ Grows(s, r)
    BY <1>2, <2>1, UsageFit
  <2>4. Fit(FailBudget(r), now) /\ Grows(r, FailBudget(r))
    BY <2>3, EndingFit
  <2>5. Grows(s, FailBudget(r))
    <3>1. \A u \in Units : s.u[u].epoch \in Nat /\ r.u[u].epoch \in Nat /\ FailBudget(r).u[u].epoch \in Nat
      BY <1>2, <2>3, <2>4, StoreFields, UnitFields DEF Fit
    <3> QED BY <2>3, <2>4, <3>1 DEF Grows
  <2> QED BY <1>1, <2>2, <2>3, <2>4, <2>5, WriteFit
<1>5. CASE RecoverAfterRestart
  <2>1. Put(CancelTask(Store)) \/ Put(SetTaskStatus(ReleaseActive(Store), "paused"))
    BY <1>5 DEF RecoverAfterRestart
  <2> QED BY <2>1, EndingFit, WriteFit
<1> QED BY <1>3, <1>4, <1>5

-----------------------------------------------------------------------------
(* The coordinators and their executions.                                  *)

Places == [at : CoSteps, saw : TaskStatus, use : Nat, sig : BOOLEAN]

\* Where a coordinator goes.
LEMMA GotoTypes ==
    ASSUME co \in [Coords -> Places], NEW c \in Coords
    PROVE  /\ \A where \in CoSteps : Goto(c, where) => co' \in [Coords -> Places]
           /\ task.status \in TaskStatus /\ Joins(c) => co' \in [Coords -> Places]
<1>1. PICK x \in Places : x = co[c]
  OBVIOUS
<1>2. x.saw \in TaskStatus /\ x.use \in Nat /\ x.sig \in BOOLEAN
  BY DEF Places
<1>3. ASSUME NEW where \in CoSteps, Goto(c, where) PROVE co' \in [Coords -> Places]
  <2>1. PICK y : y = [at |-> where, use |-> 0, saw |-> IF where = "resume" THEN x.saw ELSE "none",
                      sig |-> x.sig /\ where \notin Resting]
    OBVIOUS
  <2>2. y \in Places
    BY <1>2, <2>1 DEF Places, TaskStatus
  <2>3. co' = [co EXCEPT ![c] = y]
    BY <1>1, <1>3, <2>1 DEF Goto
  <2> QED BY <2>2, <2>3
<1>4. ASSUME task.status \in TaskStatus, Joins(c) PROVE co' \in [Coords -> Places]
  <2>1. PICK y : y = [x EXCEPT !.at = "link", !.saw = task.status]
    OBVIOUS
  <2>2. y \in Places
    BY <1>4, <2>1 DEF Places, CoSteps
  <2>3. co' = [co EXCEPT ![c] = y]
    BY <1>1, <1>4, <2>1 DEF Joins
  <2> QED BY <2>2, <2>3
<1> QED BY <1>3, <1>4

\* Every step of a coordinator takes it to one of its places.
LEMMA PlacesKept ==
    ASSUME co \in [Coords -> Places], task \in TaskRecords, NEW c \in Coords,
           Dispatch(c) \/ Coordinate(c) \/ Signal(c) \/ Crash(c)
    PROVE  co' \in [Coords -> Places]
<1>1. task.status \in TaskStatus /\ task.usage \in Nat
  BY TaskFields
<1>2. {"lookup", "create", "link", "resume", "enter", "start", "loop", "claim", "finalize", "wait", "stop",
       "abort", "expire", "drain", "returned", "raised", "dead", "twin"} \subseteq CoSteps
  BY DEF CoSteps, Resting
<1>3. CASE FindActive(c) \/ FindByKey(c) \/ Create(c)
  BY <1>1, <1>2, <1>3, GotoTypes DEF FindActive, FindByKey, Create
<1>4. CASE Link(c)
  <2>1. Goto(c, "resume") \/ Goto(c, "enter")
    BY <1>4 DEF Link
  <2> QED BY <1>2, <2>1, GotoTypes
<1>5. CASE Resume(c)
  <2>1. Goto(c, "enter") \/ Goto(c, "raised")
    BY <1>5 DEF Resume
  <2> QED BY <1>2, <2>1, GotoTypes
<1>6. CASE Enter(c)
  <2>1. CASE co' = [co EXCEPT ![c].at = "start", ![c].use = task.usage]
    <3>1. PICK x \in Places : x = co[c]
      OBVIOUS
    <3>2. PICK y : y = [x EXCEPT !.at = "start", !.use = task.usage]
      OBVIOUS
    <3>3. y \in Places
      BY <1>1, <1>2, <3>2 DEF Places
    <3>4. co' = [co EXCEPT ![c] = y]
      BY <2>1, <3>1, <3>2
    <3> QED BY <3>3, <3>4
  <2>2. CASE Goto(c, "raised") \/ Goto(c, "returned") \/ Goto(c, "loop")
    BY <1>2, <2>2, GotoTypes
  <2> QED BY <1>6, <2>1, <2>2 DEF Enter
<1>7. CASE Start(c)
  <2>1. Goto(c, "returned") \/ Goto(c, "loop") \/ Goto(c, "raised")
    BY <1>7 DEF Start
  <2> QED BY <1>2, <2>1, GotoTypes
<1>8. CASE Loop(c)
  <2>1. Goto(c, "abort") \/ Goto(c, "stop") \/ Goto(c, "expire") \/ Goto(c, "drain") \/ Goto(c, "claim")
    BY <1>8 DEF Loop
  <2> QED BY <1>2, <2>1, GotoTypes
<1>9. CASE Claim(c)
  <2>1. Goto(c, "wait") \/ UNCHANGED co \/ Goto(c, "finalize")
    BY <1>9 DEF Claim
  <2> QED BY <1>2, <2>1, GotoTypes
<1>10. CASE Finalize(c)
  <2>1. Goto(c, "loop") \/ Goto(c, "returned")
    BY <1>10 DEF Finalize
  <2> QED BY <1>2, <2>1, GotoTypes
<1>11. CASE Stop(c)
  <2>1. Goto(c, "raised") \/ Goto(c, "returned")
    BY <1>11 DEF Stop
  <2> QED BY <1>2, <2>1, GotoTypes
<1>12. CASE Expire(c) \/ Drain(c) \/ Crash(c)
  BY <1>2, <1>12, GotoTypes DEF Expire, Drain, Crash
<1>13. CASE Signal(c)
  <2>1. PICK x \in Places : x = co[c]
    OBVIOUS
  <2>2. PICK y : y = [x EXCEPT !.sig = TRUE]
    OBVIOUS
  <2>3. y \in Places
    BY <2>2 DEF Places
  <2>4. co' = [co EXCEPT ![c] = y]
    BY <1>13, <2>1, <2>2 DEF Signal
  <2> QED BY <2>3, <2>4
<1> QED BY <1>3, <1>4, <1>5, <1>6, <1>7, <1>8, <1>9, <1>10, <1>11, <1>12, <1>13 DEF Dispatch, Coordinate

\* An execution in another state.
LEMMA ExecutionMoved ==
    ASSUME NEW x \in Execution, NEW st \in {"run", "cancel", "ended", "error"}, NEW y, y = [x EXCEPT !.st = st]
    PROVE  y \in Execution /\ y.u = x.u /\ y.ep = x.ep
BY DEF Execution

\* active holds the same claims of coordinator c or fewer.
NoneNew(c, T) ==
    /\ T \subseteq Execution
    /\ active' = [active EXCEPT ![c] = T]
    /\ \A y \in T : \E x \in active[c] : x.u = y.u /\ x.ep = y.ep
    /\ \A y, z \in T : y.u = z.u /\ y.ep = z.ep => y = z

\* Then it still holds one execution per claim.
LEMMA NoneNewSound ==
    ASSUME active \in [Coords -> SUBSET Execution], unit \in [Units -> UnitRecords],
           unit' \in [Units -> UnitRecords], ExecutionsSound, NEW c \in Coords, NEW T, NoneNew(c, T),
           \A u \in Units : unit[u].epoch <= unit'[u].epoch
    PROVE  active' \in [Coords -> SUBSET Execution] /\ ExecutionsSound'
<1>1. active' \in [Coords -> SUBSET Execution] /\ active'[c] = T /\ \A d \in Coords : d # c => active'[d] = active[d]
  BY DEF NoneNew
<1>2. ASSUME NEW d \in Coords, NEW y \in active'[d]
      PROVE  y.u \in Units /\ y.ep \in Nat /\ \E x \in active[d] : x.u = y.u /\ x.ep = y.ep
  <2>1. y \in Execution
    BY <1>1, <1>2
  <2>2. y.u \in Units /\ y.ep \in Nat
    BY <2>1 DEF Execution
  <2> QED BY <1>1, <1>2, <2>2 DEF NoneNew
<1>3. ASSUME NEW d \in Coords, NEW y \in active'[d]
      PROVE  y.ep \in 1..unit'[y.u].epoch
  <2>1. PICK x \in active[d] : x.u = y.u /\ x.ep = y.ep
    BY <1>2, <1>3
  <2>2. x.ep \in 1..unit[x.u].epoch
    BY <1>3 DEF ExecutionsSound
  <2>3. y.u \in Units /\ y.ep \in Nat
    BY <1>2, <1>3
  <2>4. unit[y.u].epoch \in Nat /\ unit'[y.u].epoch \in Nat
    BY <2>3, UnitFields
  <2> QED BY <2>1, <2>2, <2>3, <2>4
<1>4. ASSUME NEW d \in Coords, NEW y \in active'[d], NEW e \in Coords, NEW z \in active'[e], y.u = z.u, y.ep = z.ep
      PROVE  d = e /\ y = z
  <2>1. PICK x \in active[d] : x.u = y.u /\ x.ep = y.ep
    BY <1>2
  <2>2. PICK w \in active[e] : w.u = z.u /\ w.ep = z.ep
    BY <1>2
  <2>3. d = e /\ x = w
    BY <1>4, <2>1, <2>2 DEF ExecutionsSound
  <2>4. CASE d = c
    BY <1>1, <1>4, <2>3, <2>4 DEF NoneNew
  <2>5. CASE d # c
    <3>1. y \in active[d] /\ z \in active[d]
      BY <1>1, <1>4, <2>3, <2>5
    <3> QED BY <1>4, <2>3, <3>1 DEF ExecutionsSound
  <2> QED BY <2>4, <2>5
<1>5. ExecutionsSound'
  BY <1>3, <1>4 DEF ExecutionsSound
<1> QED BY <1>1, <1>5

\* Canceling, Ends, Fails and the rest bring nothing new.
LEMMA ActiveKinds ==
    ASSUME active \in [Coords -> SUBSET Execution], ExecutionsSound, NEW c \in Coords
    PROVE  /\ Canceling(c) => \E T : NoneNew(c, T)
           /\ active' = [active EXCEPT ![c] = Unfinished(c)] => \E T : NoneNew(c, T)
           /\ active' = [active EXCEPT ![c] = {}] => \E T : NoneNew(c, T)
           /\ UNCHANGED active => \E T : NoneNew(c, T)
           /\ \A x \in active[c] : Ends(c, x) \/ Fails(c, x) => \E T : NoneNew(c, T)
<1>1. active[c] \subseteq Execution
  OBVIOUS
<1>2. \A x, y \in active[c] : x.u = y.u /\ x.ep = y.ep => x = y
  BY DEF ExecutionsSound
<1>3. ASSUME Canceling(c) PROVE \E T : NoneNew(c, T)
  <2>1. PICK T : T = {[x EXCEPT !.st = "cancel"] : x \in Unfinished(c)}
    OBVIOUS
  <2>2. ASSUME NEW y \in T
        PROVE  y \in Execution /\ \E x \in active[c] : y = [x EXCEPT !.st = "cancel"] /\ x.u = y.u /\ x.ep = y.ep
    <3>1. PICK x \in active[c] : y = [x EXCEPT !.st = "cancel"]
      BY <2>1, <2>2 DEF Unfinished
    <3>2. y \in Execution /\ y.u = x.u /\ y.ep = x.ep
      BY <1>1, <3>1, ExecutionMoved
    <3> QED BY <3>1, <3>2
  <2>3. \A y, z \in T : y.u = z.u /\ y.ep = z.ep => y = z
    <3> SUFFICES ASSUME NEW y \in T, NEW z \in T, y.u = z.u, y.ep = z.ep PROVE y = z
      OBVIOUS
    <3>1. PICK x \in active[c] : y = [x EXCEPT !.st = "cancel"] /\ x.u = y.u /\ x.ep = y.ep
      BY <2>2
    <3>2. PICK w \in active[c] : z = [w EXCEPT !.st = "cancel"] /\ w.u = z.u /\ w.ep = z.ep
      BY <2>2
    <3>3. x = w
      BY <1>2, <3>1, <3>2
    <3> QED BY <3>1, <3>2, <3>3
  <2>4. active' = [active EXCEPT ![c] = T]
    BY <1>3, <2>1 DEF Canceling
  <2>5. NoneNew(c, T)
    BY <2>2, <2>3, <2>4 DEF NoneNew
  <2> QED BY <2>5
<1>4. ASSUME NEW T, T \subseteq active[c], active' = [active EXCEPT ![c] = T] PROVE NoneNew(c, T)
  BY <1>1, <1>2, <1>4 DEF NoneNew
<1>5. ASSUME NEW x \in active[c], Ends(c, x) \/ Fails(c, x) PROVE \E T : NoneNew(c, T)
  <2>1. PICK st \in {"ended", "error"} : \E E : /\ E \subseteq {[x EXCEPT !.st = st]}
                                               /\ active' = [active EXCEPT ![c] = (active[c] \ {x}) \cup E]
    <3>1. CASE Ends(c, x)
      <4>1. PICK E : E = {[x EXCEPT !.st = "ended"] : y \in {z \in {x} : co[c].at = "claim"}}
        OBVIOUS
      <4>2. E \subseteq {[x EXCEPT !.st = "ended"]}
        BY <4>1
      <4>3. active' = [active EXCEPT ![c] = (active[c] \ {x}) \cup E]
        BY <3>1, <4>1 DEF Ends
      <4> QED BY <4>2, <4>3
    <3>2. CASE Fails(c, x)
      <4>1. active' = [active EXCEPT ![c] = (active[c] \ {x}) \cup {[x EXCEPT !.st = "error"]}]
        BY <3>2 DEF Fails
      <4> QED BY <4>1
    <3> QED BY <1>5, <3>1, <3>2
  <2>9. PICK E : E \subseteq {[x EXCEPT !.st = st]} /\ active' = [active EXCEPT ![c] = (active[c] \ {x}) \cup E]
    BY <2>1
  <2>2. PICK e : e = [x EXCEPT !.st = st]
    OBVIOUS
  <2>3. e \in Execution /\ e.u = x.u /\ e.ep = x.ep
    BY <1>1, <1>5, <2>2, ExecutionMoved
  <2>4. PICK T : T = (active[c] \ {x}) \cup E
    OBVIOUS
  <2>5. \A y \in T : y = e \/ (y \in active[c] /\ y # x)
    BY <2>2, <2>4, <2>9
  <2>6. T \subseteq Execution /\ \A y \in T : \E w \in active[c] : w.u = y.u /\ w.ep = y.ep
    BY <1>1, <1>5, <2>3, <2>5
  <2>7. \A y, z \in T : y.u = z.u /\ y.ep = z.ep => y = z
    BY <1>2, <1>5, <2>3, <2>5
  <2>8. NoneNew(c, T)
    BY <2>4, <2>6, <2>7, <2>9 DEF NoneNew
  <2> QED BY <2>8
<1>6. Unfinished(c) \subseteq active[c] /\ {} \subseteq active[c]
  BY DEF Unfinished
<1>7. UNCHANGED active => active' = [active EXCEPT ![c] = active[c]]
  OBVIOUS
<1> QED BY <1>3, <1>4, <1>5, <1>6, <1>7

\* A claim adds an execution with an epoch of its own.
LEMMA ClaimSound ==
    ASSUME active \in [Coords -> SUBSET Execution], unit \in [Units -> UnitRecords],
           unit' \in [Units -> UnitRecords], ExecutionsSound, NEW c \in Coords, NEW v \in Units,
           unit'[v].epoch = unit[v].epoch + 1, \A u \in Units : unit[u].epoch <= unit'[u].epoch,
           active' = [active EXCEPT ![c] = @ \cup {[u |-> v, ep |-> unit'[v].epoch, st |-> "run"]}]
    PROVE  active' \in [Coords -> SUBSET Execution] /\ ExecutionsSound'
<1>1. unit[v].epoch \in Nat /\ unit'[v].epoch \in Nat
  BY UnitFields
<1>2. PICK e : e = [u |-> v, ep |-> unit'[v].epoch, st |-> "run"]
  OBVIOUS
<1>3. e \in Execution /\ e.u = v /\ e.ep = unit[v].epoch + 1
  BY <1>1, <1>2 DEF Execution
<1>4. active' = [active EXCEPT ![c] = active[c] \cup {e}]
  BY <1>2
<1>5. active' \in [Coords -> SUBSET Execution]
  BY <1>3, <1>4
<1>6. \A d \in Coords : \A y \in active'[d] : y \in active[d] \/ (d = c /\ y = e)
  BY <1>4
<1>7. ASSUME NEW d \in Coords, NEW y \in active[d]
      PROVE  y.ep \in 1..unit'[y.u].epoch /\ ~(y.u = v /\ y.ep = e.ep)
  <2>1. y.u \in Units
    BY <1>7 DEF Execution
  <2>2. y.ep \in 1..unit[y.u].epoch
    BY <1>7 DEF ExecutionsSound
  <2>3. unit[y.u].epoch \in Nat /\ unit'[y.u].epoch \in Nat /\ unit[y.u].epoch <= unit'[y.u].epoch
    BY <2>1, UnitFields
  <2> QED BY <1>1, <1>3, <2>2, <2>3
<1>8. ASSUME NEW d \in Coords, NEW y \in active'[d] PROVE y.ep \in 1..unit'[y.u].epoch
  BY <1>1, <1>3, <1>6, <1>7, <1>8
<1>9. ASSUME NEW d \in Coords, NEW y \in active'[d], NEW f \in Coords, NEW z \in active'[f], y.u = z.u, y.ep = z.ep
      PROVE  d = f /\ y = z
  <2>1. CASE y \in active[d] /\ z \in active[f]
    BY <1>9, <2>1 DEF ExecutionsSound
  <2>2. CASE d = c /\ y = e
    BY <1>3, <1>6, <1>7, <1>9, <2>2
  <2>3. CASE f = c /\ z = e
    BY <1>3, <1>6, <1>7, <1>9, <2>3
  <2> QED BY <1>6, <1>9, <2>1, <2>2, <2>3
<1>10. ExecutionsSound'
  BY <1>8, <1>9 DEF ExecutionsSound
<1> QED BY <1>5, <1>10

-----------------------------------------------------------------------------
(* LongTaskInv.                                                            *)

\* The part of LongTaskInv that steps keep.
Core == LTTypeOK /\ Fit(Store, now) /\ ExecutionsSound

\* LongTaskInv contains it.
LEMMA InvCore == LongTaskInv => Core
<1> SUFFICES ASSUME LongTaskInv PROVE Core
  OBVIOUS
<1>1. Store.t = task /\ Store.u = unit /\ Store \in Stores
  BY DEF LongTaskInv, LTTypeOK, Store, Stores
<1>2. LiveAt(Store, now) = {u \in Units : Live(Store, u)}
  BY DEF LiveAt, Live
<1> QED BY <1>1, <1>2 DEF LongTaskInv, Core, Fit, CompletedMeansAll, CancelBeatsCompletion, ParallelBounded

\* completed and failed units are different required units.
LEMMA CoreProgress == Core => ProgressExact
<1> SUFFICES ASSUME Core PROVE ProgressExact
  OBVIOUS
<1>1. PICK s : s = Store
  OBVIOUS
<1>2. s.t = task /\ s \in Stores /\ TotalsSound(s)
  BY <1>1 DEF Core, Fit, SoundStore, Store
<1> DEFINE R == {u \in Units : s.u[u].req}
           C == RequiredIn(s, "completed")
           F == RequiredIn(s, "failed")
<1>3. IsFiniteSet(R) /\ IsFiniteSet(C) /\ IsFiniteSet(F) /\ Cardinality(R) \in Nat /\ Cardinality(C) \in Nat /\ Cardinality(F) \in Nat
  BY UnitSets DEF RequiredIn
<1>4. C \cap F = {} /\ C \cup F \subseteq R
  BY DEF RequiredIn
<1>5. Cardinality(C \cup F) = Cardinality(C) + Cardinality(F)
  <2> HIDE DEF C, F
  <2>1. Cardinality(C \cup F) = Cardinality(C) + Cardinality(F) - Cardinality(C \cap F)
    BY <1>3, FS_Union
  <2>2. Cardinality(C \cap F) = 0
    BY <1>4, FS_EmptySet
  <2> QED BY <1>3, <2>1, <2>2
<1>6. Cardinality(C \cup F) <= Cardinality(R)
  <2> HIDE DEF R, C, F
  <2> QED BY <1>3, <1>4, FS_Subset
<1>7. task.total = Cardinality(R) /\ task.done = Cardinality(C) /\ task.failed <= Cardinality(F) /\ task.failed \in Nat
  BY <1>2, StoreFields, TaskFields DEF TotalsSound
<1> HIDE DEF R, F
<1>8. task.done + task.failed <= task.total
  <2> HIDE DEF C
  <2> QED BY <1>3, <1>5, <1>6, <1>7
<1> QED BY <1>1, <1>7, <1>8 DEF ProgressExact

\* Two executions that may settle a unit are the execution of one claim.
LEMMA CoreSettler == Core => OneSettler
<1> SUFFICES ASSUME Core, NEW u \in Units
             PROVE  LET holders == {h \in Coords \X UNION {active[c] : c \in Coords} :
                          /\ h[2] \in active[h[1]] /\ h[2].u = u
                          /\ h[2].st \in {"run", "cancel"} /\ HoldsUnit(h[1], h[2])}
                    IN  Cardinality(holders) <= 1 /\ (holders # {} => DepsDone(Store, u))
  BY DEF OneSettler
<1> DEFINE holders == {h \in Coords \X UNION {active[c] : c \in Coords} :
                         /\ h[2] \in active[h[1]] /\ h[2].u = u
                         /\ h[2].st \in {"run", "cancel"} /\ HoldsUnit(h[1], h[2])}
<1>1. ASSUME NEW h \in holders, NEW k \in holders PROVE h = k
  <2>1. /\ h[1] \in Coords /\ h[2] \in active[h[1]] /\ h[2].u = u /\ h[2].ep = unit[u].epoch /\ h = <<h[1], h[2]>>
        /\ k[1] \in Coords /\ k[2] \in active[k[1]] /\ k[2].u = u /\ k[2].ep = unit[u].epoch /\ k = <<k[1], k[2]>>
    BY <1>1 DEF HoldsUnit
  <2>2. h[1] = k[1] /\ h[2] = k[2]
    <3> HIDE DEF holders
    <3> QED BY <2>1 DEF Core, ExecutionsSound
  <2> QED BY <2>1, <2>2
<1>2. holders # {} => unit[u].st = "claimed"
  BY DEF HoldsUnit
<1>3. Store.u = unit /\ UnitSound(Store, u)
  BY DEF Core, Fit, SoundStore, Store
<1>4. holders # {} => DepsDone(Store, u)
  BY <1>2, <1>3 DEF UnitSound
<1>5. holders = {} \/ \E h : holders = {h}
  <2> HIDE DEF holders
  <2> QED BY <1>1
<1>6. Cardinality(holders) <= 1
  <2> HIDE DEF holders
  <2>1. CASE holders = {}
    BY <2>1, FS_EmptySet
  <2>2. CASE \E h : holders = {h}
    <3>1. PICK h : holders = {h}
      BY <2>2
    <3> QED BY <3>1, FS_Singleton
  <2> QED BY <1>5, <2>1, <2>2
<1> QED BY <1>4, <1>6

\* The core implies the rest.
LEMMA CoreInv == Core => LongTaskInv
<1> SUFFICES ASSUME Core PROVE LongTaskInv
  OBVIOUS
<1>1. Store.t = task /\ Store.u = unit
  BY DEF Store
<1>2. ParallelBounded
  <2>1. LiveAt(Store, now) = {u \in Units : Live(Store, u)}
    BY DEF LiveAt, Live
  <2> QED BY <2>1 DEF Core, Fit, ParallelBounded
<1>3. CompletedMeansAll /\ CancelBeatsCompletion
  BY <1>1 DEF Core, Fit, CompletedMeansAll, CancelBeatsCompletion
<1> QED BY <1>2, <1>3, CoreProgress, CoreSettler DEF Core, Fit, LongTaskInv

\* The first state.
LEMMA CoreInit == LTInit => Core
<1> SUFFICES ASSUME LTInit PROVE Core
  OBVIOUS
<1>1. NoUnit \in UnitRecords /\ NoUnit.st = "absent" /\ NoUnit.req = FALSE /\ NoUnit.epoch = 0
  BY NewUnit
<1>2. task \in TaskRecords /\ task.status = "none" /\ task.total = 0 /\ task.done = 0 /\ task.failed = 0
  BY DEF LTInit, TaskRecords, TaskStatus
<1>3. unit \in [Units -> UnitRecords] /\ \A u \in Units : unit[u] = NoUnit
  BY <1>1 DEF LTInit
<1>4. LTTypeOK
  <2>1. co \in [Coords -> [at : CoSteps, saw : TaskStatus, use : Nat, sig : BOOLEAN]]
    BY DEF LTInit, CoSteps, Resting, TaskStatus
  <2>2. active \in [Coords -> SUBSET Execution] /\ now \in Nat /\ bound \subseteq Coords
    BY DEF LTInit
  <2> QED BY <1>2, <1>3, <2>1, <2>2 DEF LTTypeOK
<1>5. PICK s : s = Store
  OBVIOUS
<1>6. s.t = task /\ s.u = unit /\ s \in Stores
  BY <1>2, <1>3, <1>5 DEF Store, Stores
<1>7. \A u \in Units : UnitSound(s, u)
  BY <1>1, <1>3, <1>6 DEF UnitSound
<1>8. TotalsSound(s)
  <2>1. {u \in Units : s.u[u].req} = {} /\ RequiredIn(s, "completed") = {} /\ RequiredIn(s, "failed") = {}
    BY <1>1, <1>3, <1>6 DEF RequiredIn
  <2>2. Cardinality({}) = 0
    BY FS_EmptySet
  <2>3. s.t.total = 0 /\ s.t.done = 0 /\ s.t.failed <= 0
    BY <1>2, <1>6
  <2> QED BY <2>1, <2>2, <2>3 DEF TotalsSound
<1>9. Cardinality(LiveAt(s, now)) <= MaxParallel
  <2>1. LiveAt(s, now) = {}
    BY <1>1, <1>3, <1>6 DEF LiveAt
  <2> QED BY <2>1, FS_EmptySet, LongTaskAssumption DEF LegalCommand
<1>10. Fit(s, now)
  BY <1>1, <1>2, <1>3, <1>6, <1>7, <1>8, <1>9 DEF Fit, SoundStore
<1>11. ExecutionsSound
  BY DEF LTInit, ExecutionsSound
<1> QED BY <1>4, <1>5, <1>10, <1>11 DEF Core

\* A step that keeps the store fit and brings no new execution keeps the core.
LEMMA QuietStep ==
    ASSUME Core, Fit(Store', now), Grows(Store, Store'), UNCHANGED now, bound' \subseteq Coords,
           co' \in [Coords -> Places], NEW c \in Coords, \E T : NoneNew(c, T)
    PROVE  Core' /\ WorkKept
<1>1. Store'.t = task' /\ Store'.u = unit' /\ Store.u = unit /\ Store' \in Stores
  BY DEF Store, Fit
<1>2. task' \in TaskRecords /\ unit' \in [Units -> UnitRecords] /\ unit \in [Units -> UnitRecords]
  BY <1>1, StoreFields DEF Core, LTTypeOK
<1>3. \A u \in Units : unit[u].epoch <= unit'[u].epoch
  BY <1>1 DEF Grows
<1>4. active' \in [Coords -> SUBSET Execution] /\ ExecutionsSound'
  BY <1>2, <1>3, NoneNewSound DEF Core, LTTypeOK
<1>5. LTTypeOK'
  BY <1>2, <1>4 DEF LTTypeOK, Core, Places
<1>6. WorkKept
  BY <1>1 DEF WorkKept, Grows
<1> QED BY <1>4, <1>5, <1>6 DEF Core

\* claim_ready_unit in the coordinator's loop.
LEMMA ClaimStep ==
    ASSUME Core, NEW c \in Coords, Claim(c)
    PROVE  Core' /\ WorkKept
<1>1. PICK r : r = Claimed(Store, WorkerOf[c])
  OBVIOUS
<1>2. co' \in [Coords -> Places]
  BY PlacesKept DEF Coordinate, Core, LTTypeOK, Places
<1>3. Fit(Store', now) /\ Grows(Store, Store')
  BY CoordinateFit DEF Coordinate, Core, LTTypeOK
<1>4. UNCHANGED <<now, bound>> /\ bound' \subseteq Coords
  BY DEF Claim, Core, LTTypeOK
<1>5. CASE UNCHANGED active
  BY <1>2, <1>3, <1>4, <1>5, ActiveKinds, QuietStep DEF Core, LTTypeOK
<1>6. CASE ~UNCHANGED active
  <2>1. /\ Put(r.s) /\ r.u # 0
        /\ active' = [active EXCEPT ![c] = @ \cup {[u |-> r.u, ep |-> r.s.u[r.u].epoch, st |-> "run"]}]
    BY <1>1, <1>6 DEF Claim
  <2>2. WorkerOf[c] \in Workers /\ now \in Nat
    BY LongTaskAssumption DEF Core, LTTypeOK
  <2>3. r.u \in Units /\ r.s.u[r.u].epoch = unit[r.u].epoch + 1
    BY <1>1, <2>1, <2>2, ClaimedFit DEF Core
  <2>4. Store'.t = task' /\ Store'.u = unit' /\ Store.u = unit /\ Store' \in Stores
    BY <1>3 DEF Store, Fit
  <2>5. task' \in TaskRecords /\ unit' \in [Units -> UnitRecords] /\ unit \in [Units -> UnitRecords]
    BY <2>4, StoreFields DEF Core, LTTypeOK
  <2>6. \A u \in Units : unit[u].epoch <= unit'[u].epoch
    BY <1>3, <2>4 DEF Grows
  <2>7. unit' = r.s.u
    BY <2>1 DEF Put
  <2>8. PICK v \in Units : v = r.u
    BY <2>3
  <2>9. /\ unit'[v].epoch = unit[v].epoch + 1
        /\ active' = [active EXCEPT ![c] = @ \cup {[u |-> v, ep |-> unit'[v].epoch, st |-> "run"]}]
    BY <2>1, <2>3, <2>7, <2>8
  <2>10. active' \in [Coords -> SUBSET Execution] /\ ExecutionsSound'
    BY <2>5, <2>6, <2>9, ClaimSound DEF Core, LTTypeOK
  <2>11. LTTypeOK'
    BY <1>2, <1>4, <2>5, <2>10 DEF LTTypeOK, Core, Places
  <2>12. WorkKept
    BY <1>3, <2>4 DEF WorkKept, Grows
  <2> QED BY <1>3, <1>4, <2>10, <2>11, <2>12 DEF Core
<1> QED BY <1>5, <1>6

\* Every step keeps the core and the completed work.
LEMMA CoreStep ==
    ASSUME Core, [LTNext]_ltVars
    PROVE  Core' /\ WorkKept
<1>1. Fit(Store, now) /\ now \in Nat /\ co \in [Coords -> Places] /\ task \in TaskRecords /\ bound \subseteq Coords
  BY DEF Core, LTTypeOK, Places
<1>2. active \in [Coords -> SUBSET Execution] /\ ExecutionsSound
  BY DEF Core, LTTypeOK
<1>3. ASSUME NEW c \in Coords, Dispatch(c) PROVE Core' /\ WorkKept
  <2>1. UNCHANGED <<now, active>> /\ bound' \subseteq Coords
    BY <1>1, <1>3 DEF Dispatch, FindActive, FindByKey, Create, Link, Resume
  <2>2. Fit(Store', now) /\ Grows(Store, Store') /\ co' \in [Coords -> Places]
    BY <1>1, <1>3, DispatchFit, PlacesKept
  <2> QED BY <1>2, <2>1, <2>2, ActiveKinds, QuietStep
<1>4. ASSUME NEW c \in Coords, Coordinate(c) PROVE Core' /\ WorkKept
  <2>1. CASE Claim(c)
    BY <2>1, ClaimStep
  <2>2. CASE ~Claim(c)
    <3>1. UNCHANGED <<now, bound>>
      BY <1>4, <2>2 DEF Coordinate, Enter, Start, Loop, Finalize, Stop, Expire, Drain
    <3>2. \/ UNCHANGED active \/ Canceling(c) \/ active' = [active EXCEPT ![c] = Unfinished(c)]
      BY <1>4, <2>2 DEF Coordinate, Enter, Start, Loop, Finalize, Stop, Expire, Drain
    <3>3. Fit(Store', now) /\ Grows(Store, Store') /\ co' \in [Coords -> Places]
      BY <1>1, <1>4, CoordinateFit, PlacesKept
    <3>4. \E T : NoneNew(c, T)
      BY <1>2, <3>2, ActiveKinds
    <3> QED BY <1>1, <3>1, <3>3, <3>4, QuietStep
  <2> QED BY <2>1, <2>2
<1>5. ASSUME NEW c \in Coords, Signal(c) \/ Crash(c) PROVE Core' /\ WorkKept
  <2>1. UNCHANGED <<now, task, unit, bound>>
    BY <1>5 DEF Signal, Crash
  <2>2. UNCHANGED active \/ active' = [active EXCEPT ![c] = {}]
    BY <1>5 DEF Signal, Crash
  <2>3. Fit(Store', now) /\ Grows(Store, Store') /\ co' \in [Coords -> Places]
    BY <1>1, <1>5, <2>1, WriteFit, PlacesKept
  <2>4. \E T : NoneNew(c, T)
    BY <1>2, <2>2, ActiveKinds
  <2> QED BY <1>1, <2>1, <2>3, <2>4, QuietStep
<1>6. ASSUME NEW c \in Coords, NEW x \in active[c], Execute(c, x) PROVE Core' /\ WorkKept
  <2>1. x.u \in Units
    BY <1>2, <1>6 DEF Execution
  <2>2. UNCHANGED <<now, bound, co>>
    BY <1>6 DEF Execute, CompleteUnit, Heartbeat, Interrupt, FailUnit
  <2>3. Ends(c, x) \/ Fails(c, x) \/ UNCHANGED active
    <3>1. CASE CompleteUnit(c, x) \/ Heartbeat(c, x) \/ Interrupt(c, x)
      BY <3>1 DEF CompleteUnit, Heartbeat, Interrupt
    <3>2. CASE FailUnit(c, x)
      BY <3>2 DEF FailUnit
    <3> QED BY <1>6, <3>1, <3>2 DEF Execute
  <2>4. Fit(Store', now) /\ Grows(Store, Store')
    BY <1>1, <1>6, <2>1, ExecuteFit
  <2>5. \E T : NoneNew(c, T)
    BY <1>2, <1>6, <2>3, ActiveKinds
  <2> QED BY <1>1, <2>2, <2>4, <2>5, QuietStep
<1>7. ASSUME RequestCancel \/ RecordUsage \/ RecoverAfterRestart \/ UNCHANGED ltVars PROVE Core' /\ WorkKept
  <2>1. UNCHANGED <<now, bound, co, active>>
    BY <1>7 DEF RequestCancel, RecordUsage, RecoverAfterRestart, ltVars
  <2>2. Fit(Store', now) /\ Grows(Store, Store')
    <3>1. CASE UNCHANGED ltVars
      BY <1>1, <3>1, WriteFit DEF ltVars
    <3>2. CASE RequestCancel \/ RecordUsage \/ RecoverAfterRestart
      BY <1>1, <3>2, EnvironmentFit
    <3> QED BY <1>7, <3>1, <3>2
  <2>3. Store'.t = task' /\ Store'.u = unit' /\ Store.u = unit /\ Store' \in Stores
    BY <2>2 DEF Store, Fit
  <2>4. task' \in TaskRecords /\ unit' \in [Units -> UnitRecords] /\ unit \in [Units -> UnitRecords]
    BY <2>3, StoreFields DEF Core, LTTypeOK
  <2>5. ExecutionsSound'
    <3>1. ASSUME NEW c \in Coords, NEW x \in active[c] PROVE x.ep \in 1..unit'[x.u].epoch
      <4>1. x.u \in Units /\ x.ep \in Nat /\ x.ep \in 1..unit[x.u].epoch
        BY <1>2, <3>1 DEF Execution, ExecutionsSound
      <4>2. unit[x.u].epoch \in Nat /\ unit'[x.u].epoch \in Nat /\ unit[x.u].epoch <= unit'[x.u].epoch
        BY <2>2, <2>3, <2>4, <4>1, UnitFields DEF Grows
      <4> QED BY <4>1, <4>2
    <3> QED BY <1>2, <2>1, <3>1 DEF ExecutionsSound
  <2>6. LTTypeOK'
    BY <2>1, <2>4 DEF LTTypeOK, Core
  <2>7. WorkKept
    BY <2>2, <2>3 DEF WorkKept, Grows
  <2> QED BY <2>1, <2>2, <2>5, <2>6, <2>7 DEF Core
<1>8. ASSUME Tick PROVE Core' /\ WorkKept
  <2>1. UNCHANGED <<task, unit, bound, co, active>> /\ now' = now + 1 /\ now' \in Nat
    BY <1>1, <1>8 DEF Tick
  <2>2. PICK s : s = Store
    OBVIOUS
  <2>3. s = Store' /\ s \in Stores /\ Fit(s, now)
    BY <1>1, <2>1, <2>2 DEF Store, Fit
  <2>4. Cardinality(LiveAt(s, now')) <= MaxParallel
    <3>1. LiveAt(s, now') \subseteq LiveAt(s, now)
      <4>1. \A u \in Units : s.u[u].exp \in Nat
        BY <2>3, StoreFields, UnitFields
      <4> QED BY <1>1, <2>1, <4>1 DEF LiveAt
    <3>2. IsFiniteSet(LiveAt(s, now)) /\ Cardinality(LiveAt(s, now)) \in Nat /\ Cardinality(LiveAt(s, now')) \in Nat
      BY UnitSets DEF LiveAt
    <3>3. Cardinality(LiveAt(s, now')) <= Cardinality(LiveAt(s, now))
      BY <3>1, <3>2, FS_Subset
    <3> QED BY <2>3, <3>2, <3>3, LongTaskAssumption DEF LegalCommand, Fit
  <2>5. Fit(Store', now')
    BY <2>3, <2>4 DEF Fit
  <2>6. LTTypeOK' /\ ExecutionsSound' /\ WorkKept
    BY <1>2, <2>1 DEF Core, LTTypeOK, ExecutionsSound, WorkKept
  <2> QED BY <2>5, <2>6 DEF Core
<1> QED BY <1>3, <1>4, <1>5, <1>6, <1>7, <1>8 DEF LTNext

\* A durable task is completed only with all its work, never after an accepted
\* cancellation; its totals are exact; no unit has two executions that may
\* settle it; and the parallelism of the recipe bounds its leases: for every
\* recipe, split, number of coordinators and every limit.
THEOREM LongTaskInvariant == LTSpec => []LongTaskInv
<1>1. LTInit => Core
  BY CoreInit
<1>2. Core /\ [LTNext]_ltVars => Core'
  BY CoreStep
<1>3. Core => LongTaskInv
  BY CoreInv
<1> QED BY <1>1, <1>2, <1>3, PTL DEF LTSpec

\* No resume, split, failure, deadline or cancellation touches a completed unit.
THEOREM CompletedWorkKept == LTSpec => [][WorkKept]_ltVars
<1>1. LTInit => Core
  BY CoreInit
<1>2. Core /\ [LTNext]_ltVars => Core' /\ WorkKept
  BY CoreStep
<1> QED BY <1>1, <1>2, PTL DEF LTSpec
=============================================================================
