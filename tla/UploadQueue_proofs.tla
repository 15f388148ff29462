-------------------------- MODULE UploadQueue_proofs --------------------------
(***************************************************************************)
(* Proofs about UploadQueue: its safety properties hold for any number of  *)
(* rows, any concurrency and any supply of runs, whether or not an aborted *)
(* call can still succeed.                                                 *)
(*                                                                         *)
(* The argument rests on pump: the rows it picks are ranked by the queued  *)
(* rows before them, so they are as many as there are slots left, or all   *)
(* the rows that wait.                                                     *)
(***************************************************************************)
EXTENDS UploadQueue, FiniteSetTheorems, WellFoundedInduction, TLAPS

-----------------------------------------------------------------------------
(* Which rows pump picks *)

\* The rows queued before row k.
Before(st, k) == {j \in Items : st[j] = "queued" /\ j < k}

LEMMA ItemsFinite == IsFiniteSet(Items) /\ \A i \in Items : i \in Nat
  BY FS_Interval, BoundsAssumption DEF Items

LEMMA BeforeFinite ==
    ASSUME NEW st, NEW k
    PROVE  /\ IsFiniteSet(Before(st, k))
           /\ Cardinality(Before(st, k)) \in Nat
<1>1. Before(st, k) \in SUBSET Items
  BY DEF Before
<1> QED
  BY <1>1, ItemsFinite, FS_Subset, FS_CardinalityType

LEMMA PickedMeans ==
    ASSUME NEW st, NEW n
    PROVE  Picked(st, n) = {i \in Items : st[i] = "queued"
                                /\ n + Cardinality(Before(st, i)) < Concurrency}
<1> DEFINE Queued == {i \in Items : st[i] = "queued"}
<1>1. \A i : {j \in Queued : j < i} = Before(st, i)
  BY DEF Before
<1>2. Picked(st, n) = {i \in Queued : n + Cardinality({j \in Queued : j < i}) < Concurrency}
  BY DEF Picked
<1> QED
  BY <1>1, <1>2

\* A queued row has more rows before it than each row before it has.
LEMMA RankGrows ==
    ASSUME NEW st, NEW i \in Items, NEW k \in Items, st[i] = "queued", i < k
    PROVE  Cardinality(Before(st, i)) < Cardinality(Before(st, k))
<1>1. i \notin Before(st, i) /\ Before(st, i) \cup {i} \in SUBSET Before(st, k)
  BY ItemsFinite DEF Before
<1>2. /\ IsFiniteSet(Before(st, i) \cup {i})
      /\ Cardinality(Before(st, i) \cup {i}) = Cardinality(Before(st, i)) + 1
  BY <1>1, BeforeFinite, FS_AddElement
<1>3. Cardinality(Before(st, i) \cup {i}) <= Cardinality(Before(st, k))
  BY <1>1, BeforeFinite, FS_Subset
<1> QED
  BY <1>2, <1>3, BeforeFinite

LEMMA PickedFinite ==
    ASSUME NEW st, NEW n
    PROVE  /\ IsFiniteSet(Picked(st, n))
           /\ Cardinality(Picked(st, n)) \in Nat
           /\ Picked(st, n) \subseteq Items
<1>1. Picked(st, n) \in SUBSET Items
  BY PickedMeans
<1> QED
  BY <1>1, ItemsFinite, FS_Subset, FS_CardinalityType

\* The picked rows fit in the free slots: their ranks are different numbers
\* below the number of free slots.
LEMMA PickedFits ==
    ASSUME NEW st, NEW n \in Nat, n <= Concurrency
    PROVE  n + Cardinality(Picked(st, n)) <= Concurrency
<1> DEFINE P == Picked(st, n)
           free == Concurrency - n
           T == 0 .. (free - 1)
           rank == [i \in P |-> Cardinality(Before(st, i))]
<1> USE BoundsAssumption
<1>1. free \in Nat /\ IsFiniteSet(T) /\ Cardinality(T) = free
  BY FS_Interval
<1>2. \A i \in P : i \in Items /\ st[i] = "queued" /\ n + Cardinality(Before(st, i)) < Concurrency
  BY PickedMeans
<1>3. rank \in [P -> T]
  BY <1>2, BeforeFinite
<1>4. ASSUME NEW i \in P, NEW k \in P, i # k
      PROVE  rank[i] # rank[k]
  <2>1. i < k \/ k < i
    BY <1>2, <1>4, ItemsFinite
  <2>2. i < k => rank[i] < rank[k]
    BY <1>2, RankGrows
  <2>3. k < i => rank[k] < rank[i]
    BY <1>2, RankGrows
  <2>4. rank[i] \in Nat /\ rank[k] \in Nat
    BY BeforeFinite
  <2> QED
    BY <2>1, <2>2, <2>3, <2>4
<1>5. rank \in Injection(P, T)
  BY <1>3, <1>4 DEF Injection, IsInjective
<1>6. Cardinality(P) <= Cardinality(T)
  BY <1>1, <1>5, FS_Injection
<1> QED
  BY <1>1, <1>6, PickedFinite

\* When a queued row is left over the picked rows fill the free slots: the
\* first one left over has only picked rows before it, too many for its turn.
LEMMA PickedFills ==
    ASSUME NEW st, NEW n \in Nat,
           NEW k \in Items, st[k] = "queued", k \notin Picked(st, n)
    PROVE  n + Cardinality(Picked(st, n)) >= Concurrency
<1> DEFINE Left == {i \in Items : st[i] = "queued" /\ i \notin Picked(st, n)}
<1>1. Left \subseteq Nat /\ Left # {}
  BY ItemsFinite
<1>2. PICK u \in Left : \A v \in Left : ~(<<v, u>> \in OpToRel(<, Nat))
  BY <1>1, NatLessThanWellFounded, WFMin, Zenon
<1>3. \A v \in Left : ~(v < u)
  BY <1>1, <1>2 DEF OpToRel
<1>4. Before(st, u) \in SUBSET Picked(st, n)
  BY <1>3 DEF Before
<1>5. Cardinality(Before(st, u)) <= Cardinality(Picked(st, n))
  BY <1>4, PickedFinite, FS_Subset
<1>6. ~(n + Cardinality(Before(st, u)) < Concurrency)
  BY PickedMeans
<1> QED
  BY <1>5, <1>6, BeforeFinite, PickedFinite, BoundsAssumption

-----------------------------------------------------------------------------
(* What pump leaves *)

\* The runs in progress when run is rn.
BusyIn(rn) == {r \in Runs : rn[r] # Idle}

LEMMA IdleIsNotAlive == Idle \notin Alive /\ Idle.item \notin Items
  BY BoundsAssumption DEF Idle, Alive, Await, Items

\* What pump is called with: rows, runs, controllers and a counter that agree.
PumpInput(st, rn, ctl, n) ==
    /\ st \in [Items -> Status]
    /\ rn \in [Runs -> Alive \cup {Idle}]
    /\ ctl \in [Items -> Runs \cup {None}]
    /\ \A i \in Items : ctl[i] # None => rn[ctl[i]].item = i
    /\ IsFiniteSet(BusyIn(rn))
    /\ n = Cardinality(BusyIn(rn))
    /\ n <= Concurrency

\* A row is left alone, or it was queued and has a new run behind it.
RowPumped(st, i) ==
    \/ status'[i] = st[i]
    \/ /\ st[i] = "queued"
       /\ status'[i] = "reserving"
       /\ \E r \in Runs : run'[r].item = i

\* A run in progress is left alone; a new one awaits its first call.
RunPumped(rn, r) ==
    \/ run'[r] = rn[r]
    \/ rn[r] = Idle /\ run'[r] # Idle /\ run'[r].step = "reserve"

LEMMA PumpResult ==
    ASSUME NEW st, NEW rn, NEW ctl, NEW n,
           PumpInput(st, rn, ctl, n), Pump(st, rn, ctl, n)
    PROVE  /\ status' \in [Items -> Status]
           /\ run' \in [Runs -> Alive \cup {Idle}]
           /\ controller' \in [Items -> Runs \cup {None}]
           /\ running' \in Nat
           /\ IsFiniteSet(Busy)'
           /\ RunningCountsRuns'
           /\ NoIdleSlot'
           /\ \A i \in Items : controller'[i] # None => run'[controller'[i]].item = i
           /\ \A i \in Items : RowPumped(st, i)
           /\ \A r \in Runs : RunPumped(rn, r)
<1> DEFINE next == Picked(st, n)
<1> USE BoundsAssumption
<1>1. PICK slot \in [next -> {r \in Runs : rn[r] = Idle}] :
        /\ \A i, j \in next : slot[i] = slot[j] => i = j
        /\ status' = [i \in Items |-> IF i \in next THEN "reserving" ELSE st[i]]
        /\ run' = [r \in Runs |->
                     IF \E i \in next : slot[i] = r
                     THEN [item |-> CHOOSE i \in next : slot[i] = r,
                           step |-> "reserve"]
                     ELSE rn[r]]
        /\ controller' = [i \in Items |-> IF i \in next THEN slot[i] ELSE ctl[i]]
        /\ running' = n + Cardinality(next)
  BY DEF Pump
<1> HIDE DEF next
<1>2. /\ next \subseteq Items /\ IsFiniteSet(next) /\ Cardinality(next) \in Nat
      /\ \A i \in next : st[i] = "queued"
  BY PickedFinite, PickedMeans DEF next
<1>3. n \in Nat
  BY FS_CardinalityType DEF PumpInput
<1> DEFINE R == {slot[i] : i \in next}
<1>4. \A i \in next : /\ slot[i] \in Runs /\ rn[slot[i]] = Idle
                     /\ run'[slot[i]] = [item |-> i, step |-> "reserve"]
  <2> TAKE i \in next
  <2>1. slot[i] \in Runs /\ rn[slot[i]] = Idle
    BY <1>1
  <2>2. (CHOOSE j \in next : slot[j] = slot[i]) = i
    BY <1>1
  <2> QED
    BY <1>1, <2>1, <2>2
<1>5. \A r \in Runs :
        \/ run'[r] = rn[r] /\ \A i \in next : slot[i] # r
        \/ \E i \in next : /\ slot[i] = r /\ rn[r] = Idle
                          /\ run'[r] \in Alive /\ run'[r] # Idle /\ run'[r].step = "reserve"
  <2> TAKE r \in Runs
  <2>1. CASE \E i \in next : slot[i] = r
    <3> PICK i \in next : slot[i] = r
      BY <2>1
    <3>1. [item |-> i, step |-> "reserve"] # Idle
      BY DEF Idle
    <3>2. [item |-> i, step |-> "reserve"] \in Alive
      BY <1>2 DEF Alive, Await
    <3> QED
      BY <1>4, <3>1, <3>2
  <2>2. CASE ~\E i \in next : slot[i] = r
    BY <1>1, <2>2
  <2> QED
    BY <2>1, <2>2
<1>6. run' \in [Runs -> Alive \cup {Idle}]
  <2>2. \A r \in Runs : rn[r] \in Alive \cup {Idle}
    BY DEF PumpInput
  <2>3. \A r \in Runs : run'[r] \in Alive \cup {Idle}
    BY <1>5, <2>2
  <2> QED
    BY <1>1, <2>3
<1>7. Busy' = BusyIn(rn) \cup R /\ BusyIn(rn) \cap R = {}
  <2>2. \A r \in Runs : r \in Busy' <=> r \in BusyIn(rn) \/ \E i \in next : slot[i] = r
    BY <1>5 DEF Busy, BusyIn
  <2>3. \A i \in next : slot[i] \notin BusyIn(rn)
    BY <1>4 DEF BusyIn
  <2>4. Busy' \subseteq Runs /\ BusyIn(rn) \subseteq Runs /\ R \subseteq Runs
    BY <1>4 DEF Busy, BusyIn
  <2> QED
    BY <2>2, <2>3, <2>4
<1>8. IsFiniteSet(R) /\ Cardinality(R) = Cardinality(next)
  <2> DEFINE g == [i \in next |-> slot[i]]
  <2>1. g \in Bijection(next, R)
    BY <1>1 DEF Bijection, Injection, Surjection, IsInjective
  <2>2. ExistsBijection(next, R)
    BY <2>1 DEF ExistsBijection
  <2> QED
    BY <1>2, <2>2, FS_Bijection
<1>9. IsFiniteSet(Busy)' /\ Cardinality(Busy') = n + Cardinality(next)
  <2>1. IsFiniteSet(BusyIn(rn)) /\ n = Cardinality(BusyIn(rn))
    BY DEF PumpInput
  <2> HIDE DEF R
  <2>2. /\ IsFiniteSet(BusyIn(rn) \cup R)
        /\ Cardinality(BusyIn(rn) \cup R) =
             Cardinality(BusyIn(rn)) + Cardinality(R) - Cardinality(BusyIn(rn) \cap R)
    BY <1>8, <2>1, FS_Union
  <2>3. Cardinality(BusyIn(rn) \cap R) = 0
    BY <1>7, FS_EmptySet
  <2> QED
    BY <1>2, <1>3, <1>7, <1>8, <2>1, <2>2, <2>3
<1>10. running' \in Nat /\ RunningCountsRuns'
  <2>1. n + Cardinality(next) <= Concurrency
    BY <1>3, PickedFits DEF PumpInput, next
  <2> QED
    BY <1>1, <1>2, <1>3, <1>9, <2>1 DEF RunningCountsRuns
<1>11. NoIdleSlot'
  <2> SUFFICES ASSUME NEW k \in Items, status'[k] = "queued"
               PROVE  ~(running' < Concurrency)
    BY DEF NoIdleSlot
  <2>1. st[k] = "queued" /\ k \notin next
    BY <1>1
  <2>2. n + Cardinality(next) >= Concurrency
    BY <1>3, <2>1, PickedFills DEF next
  <2> QED
    BY <1>1, <1>2, <1>3, <2>2
<1>12. status' \in [Items -> Status]
  BY <1>1 DEF PumpInput, Status, Active
<1>13. /\ controller' \in [Items -> Runs \cup {None}]
       /\ \A i \in Items : controller'[i] # None => run'[controller'[i]].item = i
  <2>1. ASSUME NEW i \in Items
        PROVE  /\ controller'[i] \in Runs \cup {None}
               /\ controller'[i] # None => run'[controller'[i]].item = i
    <3>1. CASE i \in next
      BY <1>1, <1>4, <3>1
    <3>2. CASE i \notin next
      <4>1. controller'[i] = ctl[i] /\ ctl[i] \in Runs \cup {None}
        BY <1>1, <3>2 DEF PumpInput
      <4>2. ctl[i] # None => rn[ctl[i]].item = i /\ rn[ctl[i]] # Idle
        BY IdleIsNotAlive DEF PumpInput
      <4>3. ctl[i] # None => ctl[i] \notin R
        BY <1>4, <4>2
      <4> QED
        BY <1>5, <4>1, <4>2, <4>3
    <3> QED
      BY <3>1, <3>2
  <2> QED
    BY <1>1, <2>1
<1>14. \A i \in Items : RowPumped(st, i)
  BY <1>1, <1>2, <1>4 DEF RowPumped
<1>15. \A r \in Runs : RunPumped(rn, r)
  BY <1>5 DEF RunPumped
<1> QED
  BY <1>6, <1>9, <1>10, <1>11, <1>12, <1>13, <1>14, <1>15

-----------------------------------------------------------------------------
(* The inductive invariant *)

LEMMA IInvInit == Init => IInv
<1> SUFFICES ASSUME Init PROVE IInv
  OBVIOUS
<1> USE BoundsAssumption
<1>1. TypeOK
  BY DEF Init, TypeOK, Status
<1>2. Busy = {}
  BY DEF Init, Busy
<1>3. IsFiniteSet(Busy) /\ RunningCountsRuns
  BY <1>2, FS_EmptySet DEF Init, RunningCountsRuns
<1>4. NoIdleSlot /\ StoppedRowsStayStopped /\ RowsTellTheTruth
  BY DEF Init, NoIdleSlot, StoppedRowsStayStopped, RowsTellTheTruth
<1>5. ControllersAreLive /\ AppliedCommitsAreReady
  BY DEF Init, ControllersAreLive, AppliedCommitsAreReady, Idle
<1> QED
  BY <1>1, <1>3, <1>4, <1>5 DEF IInv, Init

\* A turn that ends in pump keeps the invariant if what it hands to pump has
\* the invariant's other parts.
LEMMA PumpKeepsIInv ==
    ASSUME NEW st, NEW rn, NEW ctl, NEW n,
           PumpInput(st, rn, ctl, n), Pump(st, rn, ctl, n),
           cancelled' \subseteq Items, ready' \subseteq Items,
           aborted' \subseteq BusyIn(rn),
           \A i \in cancelled' : st[i] \in {"gone", "cancelled"},
           \A i \in Items : st[i] \in {"reserving", "sending", "committing"}
                             => \E r \in Runs : rn[r].item = i,
           \A i \in Items : st[i] = "done" => i \in ready',
           \A r \in Runs : rn[r].step = "committed" => rn[r].item \in ready'
    PROVE  IInv'
<1>1. /\ status' \in [Items -> Status]
      /\ run' \in [Runs -> Alive \cup {Idle}]
      /\ controller' \in [Items -> Runs \cup {None}]
      /\ running' \in Nat
      /\ IsFiniteSet(Busy)'
      /\ RunningCountsRuns'
      /\ NoIdleSlot'
      /\ \A i \in Items : controller'[i] # None => run'[controller'[i]].item = i
  BY PumpResult
<1>2. \A i \in Items : RowPumped(st, i)
  BY PumpResult
<1>3. \A r \in Runs : RunPumped(rn, r)
  BY PumpResult
<1>4. TypeOK'
  BY <1>1 DEF TypeOK, BusyIn
<1>5. ControllersAreLive'
  <2>1. \A r \in BusyIn(rn) : run'[r] = rn[r] /\ rn[r] # Idle
    BY <1>3 DEF RunPumped, BusyIn
  <2>2. aborted' \subseteq Busy'
    BY <2>1 DEF Busy, BusyIn
  <2> QED
    BY <1>1, <2>2 DEF ControllersAreLive
<1>6. AppliedCommitsAreReady'
  BY <1>3 DEF RunPumped, AppliedCommitsAreReady
<1>7. StoppedRowsStayStopped' /\ \A i \in cancelled' : status'[i] # "none"
  BY <1>2 DEF RowPumped, StoppedRowsStayStopped, HasRow
<1>8. RowsTellTheTruth'
  <2> SUFFICES ASSUME NEW i \in Items
               PROVE  /\ status'[i] \in {"reserving", "sending", "committing"}
                           => \E r \in Runs : run'[r].item = i
                      /\ status'[i] = "done" => i \in ready'
    BY DEF RowsTellTheTruth, RunsOf
  <2>1. ASSUME NEW r \in Runs, rn[r].item = i PROVE run'[r].item = i
    BY <1>3, <2>1, IdleIsNotAlive DEF RunPumped
  <2> QED
    BY <1>2, <2>1 DEF RowPumped
<1> QED
  BY <1>1, <1>4, <1>5, <1>6, <1>7, <1>8 DEF IInv

\* The last turn of a run: its row's outcome is one the row may show.
LEMMA FinishKeepsIInv ==
    ASSUME IInv, NEW r \in Busy, NEW s, Finish(r, s), UNCHANGED ready,
           HasRow(run[r].item) =>
             /\ s \in {"done", "failed", "cancelled"}
             /\ run[r].item \in cancelled => s = "cancelled"
             /\ s = "done" => run[r].item \in ready
    PROVE  IInv'
<1> DEFINE i == run[r].item
           st == Patched(i, s)
           rn == [run EXCEPT ![r] = Idle]
           ctl == [controller EXCEPT ![i] = None]
<1> USE BoundsAssumption
<1>1. /\ r \in Runs /\ run[r] \in Alive /\ run[r] # Idle /\ i \in Items
      /\ TypeOK
  BY DEF IInv, TypeOK, Busy, Alive
<1> HIDE DEF i
<1>2. /\ st \in [Items -> Status]
      /\ \A j \in Items : \/ st[j] = status[j] /\ (j = i => ~HasRow(i))
                          \/ j = i /\ HasRow(i) /\ st[i] = s
  <2>1. CASE HasRow(i)
    <3>1. st = [status EXCEPT ![i] = s] /\ s \in Status
      BY <2>1 DEF Patched, Status, i
    <3> QED
      BY <1>1, <2>1, <3>1 DEF TypeOK
  <2>2. CASE ~HasRow(i)
    <3>1. st = status
      BY <2>2 DEF Patched
    <3> HIDE DEF st
    <3> QED
      BY <1>1, <2>2, <3>1 DEF TypeOK
  <2> QED
    BY <2>1, <2>2
<1>3. /\ rn \in [Runs -> Alive \cup {Idle}]
      /\ rn[r] = Idle
      /\ \A x \in Runs \ {r} : rn[x] = run[x]
  BY <1>1 DEF TypeOK
<1>4. /\ ctl \in [Items -> Runs \cup {None}]
      /\ ctl[i] = None
      /\ \A j \in Items \ {i} : ctl[j] = controller[j]
  BY <1>1 DEF TypeOK
<1> HIDE DEF st, rn, ctl
<1>5. BusyIn(rn) = Busy \ {r}
  BY <1>1, <1>3 DEF BusyIn, Busy
<1>6. /\ IsFiniteSet(BusyIn(rn))
      /\ running - 1 = Cardinality(BusyIn(rn))
      /\ running - 1 <= Concurrency
  BY <1>1, <1>5, FS_RemoveElement DEF IInv, RunningCountsRuns, TypeOK
<1>7. \A j \in Items : ctl[j] # None => rn[ctl[j]].item = j
  BY <1>1, <1>3, <1>4 DEF IInv, ControllersAreLive, TypeOK, i
<1>8. PumpInput(st, rn, ctl, running - 1)
  BY <1>2, <1>3, <1>4, <1>6, <1>7 DEF PumpInput
<1>9. Pump(st, rn, ctl, running - 1) /\ aborted' = aborted \ {r} /\ UNCHANGED cancelled
  BY DEF Finish, st, rn, ctl, i
<1>10. cancelled' \subseteq Items /\ ready' \subseteq Items /\ aborted' \subseteq BusyIn(rn)
  BY <1>1, <1>5, <1>9 DEF IInv, TypeOK, ControllersAreLive
<1>11. \A j \in cancelled' : st[j] \in {"gone", "cancelled"}
  BY <1>1, <1>2, <1>9 DEF IInv, TypeOK, StoppedRowsStayStopped, HasRow, i
<1>12. \A j \in Items : st[j] \in {"reserving", "sending", "committing"}
                          => \E x \in Runs : rn[x].item = j
  <2> SUFFICES ASSUME NEW j \in Items, st[j] \in {"reserving", "sending", "committing"}
               PROVE  \E x \in Runs : rn[x].item = j
    OBVIOUS
  <2>1. st[j] = status[j] /\ j # i
    BY <1>2 DEF HasRow, i
  <2>2. PICK x \in Runs : run[x].item = j
    BY <2>1 DEF IInv, RowsTellTheTruth, RunsOf
  <2>3. x # r
    BY <2>1, <2>2 DEF i
  <2> QED
    BY <1>3, <2>2, <2>3
<1>13. \A j \in Items : st[j] = "done" => j \in ready'
  BY <1>2 DEF IInv, RowsTellTheTruth, i
<1>14. \A x \in Runs : rn[x].step = "committed" => rn[x].item \in ready'
  BY <1>3 DEF IInv, AppliedCommitsAreReady, Idle
<1> QED
  BY <1>8, <1>9, <1>10, <1>11, <1>12, <1>13, <1>14, PumpKeepsIInv

\* A turn in which a run goes on to its next await.
LEMMA ContinueKeepsIInv ==
    ASSUME IInv, NEW r \in Busy, NEW step \in Await, NEW st, Continue(r, step, st),
           ready \subseteq ready', ready' \subseteq Items,
           step = "committed" => run[r].item \in ready',
           \/ st = status
           \/ /\ run[r].item \notin cancelled
              /\ HasRow(run[r].item)
              /\ \E s \in {"sending", "committing"} :
                    st = [status EXCEPT ![run[r].item] = s]
    PROVE  IInv'
<1> DEFINE i == run[r].item
<1>1. /\ r \in Runs /\ run[r] \in Alive /\ run[r] # Idle /\ i \in Items
      /\ TypeOK
  BY BoundsAssumption DEF IInv, TypeOK, Busy, Alive
<1>2. /\ run' = [run EXCEPT ![r] = [item |-> i, step |-> step]]
      /\ UNCHANGED <<cancelled, controller, aborted, running>>
      /\ status' = st
  <2>1. [run[r] EXCEPT !.step = step] = [item |-> i, step |-> step]
    BY <1>1 DEF Alive
  <2> QED
    BY <1>1, <2>1 DEF Continue, TypeOK
<1>3. [item |-> i, step |-> step] \in Alive
  BY <1>1 DEF Alive
<1> HIDE DEF i
<1>4. /\ \A x \in Runs : run'[x].item = run[x].item
      /\ run'[r].step = step
      /\ \A x \in Runs \ {r} : run'[x] = run[x]
      /\ run'[r] # Idle
  BY <1>1, <1>2, <1>3, IdleIsNotAlive DEF TypeOK, i
<1>5. Busy' = Busy
  BY <1>1, <1>4 DEF Busy
<1>6. \A j \in Items : \/ status'[j] = status[j]
                      \/ /\ j = i /\ j \notin cancelled /\ HasRow(j)
                         /\ status'[j] \in {"sending", "committing"}
  BY <1>1, <1>2 DEF TypeOK, i
<1>7. TypeOK'
  <2>1. status' \in [Items -> Status]
    BY <1>1, <1>2 DEF TypeOK, Status, Active
  <2>2. run' \in [Runs -> Alive \cup {Idle}]
    BY <1>1, <1>2, <1>3 DEF TypeOK
  <2> QED
    BY <1>1, <1>2, <2>1, <2>2 DEF TypeOK
<1>8. IsFiniteSet(Busy)' /\ RunningCountsRuns'
  BY <1>2, <1>5 DEF IInv, RunningCountsRuns
<1>9. ControllersAreLive'
  BY <1>1, <1>2, <1>4, <1>5 DEF IInv, ControllersAreLive, TypeOK
<1>10. AppliedCommitsAreReady'
  BY <1>1, <1>4 DEF IInv, AppliedCommitsAreReady, i
<1>11. NoIdleSlot'
  BY <1>2, <1>6 DEF IInv, NoIdleSlot
<1>12. StoppedRowsStayStopped' /\ \A j \in cancelled' : status'[j] # "none"
  BY <1>1, <1>2, <1>6 DEF IInv, StoppedRowsStayStopped, HasRow, TypeOK
<1>13. RowsTellTheTruth'
  BY <1>1, <1>4, <1>6 DEF IInv, RowsTellTheTruth, RunsOf, i
<1> QED
  BY <1>7, <1>8, <1>9, <1>10, <1>11, <1>12, <1>13 DEF IInv

LEMMA PatchCases ==
    ASSUME NEW i \in Items, NEW s
    PROVE  \/ RunPatched(i, s) = status
           \/ /\ i \notin cancelled /\ HasRow(i)
              /\ RunPatched(i, s) = [status EXCEPT ![i] = s]
  BY DEF RunPatched, Patched

\* Every turn of a run.
LEMMA RunStepKeepsIInv ==
    ASSUME IInv, NEW r \in Runs, RunStep(r)
    PROVE  IInv'
<1> DEFINE i == run[r].item
<1> USE BoundsAssumption
<1>0. TypeOK /\ ready \subseteq Items
  BY DEF IInv, TypeOK
<1>1. r \in Busy /\ i \in Items
  <2>1. r \in Busy
    BY DEF RunStep, Reserved, Sent, SendExpires, ServerCommits, Committed, Fails,
           Aborts, Busy, Idle, IInv, ControllersAreLive
  <2> QED
    BY <1>0, <2>1 DEF Busy, TypeOK, Alive
<1>2. CASE Reserved(r)
  <2>1. UNCHANGED ready /\ \E step \in {"send", "send2"} : Continue(r, step, RunPatched(i, "sending"))
    BY <1>2 DEF Reserved
  <2> PICK step \in {"send", "send2"} : Continue(r, step, RunPatched(i, "sending"))
    BY <2>1
  <2> QED
    BY <1>0, <1>1, <2>1, PatchCases, ContinueKeepsIInv DEF Await
<1>3. CASE Sent(r)
  BY <1>0, <1>1, <1>3, PatchCases, ContinueKeepsIInv DEF Sent, Await
<1>4. CASE SendExpires(r)
  BY <1>0, <1>1, <1>4, ContinueKeepsIInv DEF SendExpires, Await
<1>5. CASE ServerCommits(r)
  BY <1>0, <1>1, <1>5, ContinueKeepsIInv DEF ServerCommits, Await
<1>6. i \in cancelled /\ HasRow(i) => status[i] = "cancelled"
  BY <1>1 DEF IInv, StoppedRowsStayStopped
<1>7. CASE Committed(r)
  <2>1. i \in ready
    BY <1>7 DEF Committed, IInv, AppliedCommitsAreReady
  <2> QED
    BY <1>1, <1>6, <1>7, <2>1, FinishKeepsIInv DEF Committed
<1>8. CASE Fails(r)
  BY <1>1, <1>8, FinishKeepsIInv DEF Fails
<1>9. CASE Aborts(r)
  BY <1>1, <1>9, FinishKeepsIInv DEF Aborts
<1> QED
  BY <1>2, <1>3, <1>4, <1>5, <1>7, <1>8, <1>9 DEF RunStep

\* What pump is called with when no run has ended.
LEMMA WaitingInput ==
    ASSUME IInv, NEW st \in [Items -> Status],
           NEW ctl \in [Items -> Runs \cup {None}],
           \A i \in Items : ctl[i] \in {None, controller[i]}
    PROVE  PumpInput(st, run, ctl, running) /\ BusyIn(run) = Busy
<1>1. BusyIn(run) = Busy
  BY DEF BusyIn, Busy
<1>2. \A i \in Items : ctl[i] # None => run[ctl[i]].item = i
  BY DEF IInv, ControllersAreLive
<1> QED
  BY <1>1, <1>2 DEF IInv, TypeOK, RunningCountsRuns, PumpInput

\* A row that forgets its node has no run that is to hear of its commit.
LEMMA OnlySettledRowsForget ==
    ASSUME NEW S, AppliedCommitsAreReady
    PROVE  \A r \in Runs : run[r].step = "committed"
             => run[r].item \in ready \ Forgotten(S)
  BY DEF Forgotten, RunsOf, AppliedCommitsAreReady

LEMMA UserStepKeepsIInv ==
    ASSUME IInv, UserStep
    PROVE  IInv'
<1> USE BoundsAssumption
<1>0. TypeOK
  BY DEF IInv
<1>1. ASSUME NEW n \in 1 .. MaxItems, Enqueue(n) PROVE IInv'
  <2> DEFINE fresh == {i \in Items : status[i] = "none"}
             new == {i \in fresh : Cardinality({j \in fresh : j < i}) < n}
             st == [i \in Items |-> IF i \in new THEN "queued" ELSE status[i]]
  <2>1. Pump(st, run, controller, running) /\ UNCHANGED <<cancelled, aborted, ready>>
    BY <1>1 DEF Enqueue
  <2>2. /\ st \in [Items -> Status]
        /\ \A i \in Items : st[i] = status[i] \/ (status[i] = "none" /\ st[i] = "queued")
    BY <1>0 DEF TypeOK, Status, Active
  <2> HIDE DEF st
  <2>3. PumpInput(st, run, controller, running) /\ BusyIn(run) = Busy
    BY <1>0, <2>2, WaitingInput DEF TypeOK
  <2>4. \A i \in cancelled' : st[i] \in {"gone", "cancelled"}
    BY <1>0, <2>1, <2>2 DEF IInv, TypeOK, StoppedRowsStayStopped, HasRow
  <2>5. \A i \in Items : st[i] \in {"reserving", "sending", "committing"}
                         => \E r \in Runs : run[r].item = i
    BY <2>2 DEF IInv, RowsTellTheTruth, RunsOf
  <2>6. \A i \in Items : st[i] = "done" => i \in ready'
    BY <2>1, <2>2 DEF IInv, RowsTellTheTruth
  <2>7. \A r \in Runs : run[r].step = "committed" => run[r].item \in ready'
    BY <2>1 DEF IInv, AppliedCommitsAreReady
  <2>8. cancelled' \subseteq Items /\ ready' \subseteq Items /\ aborted' \subseteq BusyIn(run)
    BY <1>0, <2>1, <2>3 DEF IInv, TypeOK, ControllersAreLive
  <2> QED
    BY <2>1, <2>3, <2>4, <2>5, <2>6, <2>7, <2>8, PumpKeepsIInv
<1>2. ASSUME NEW k \in Items, Retry(k) PROVE IInv'
  <2> DEFINE st == [status EXCEPT ![k] = "queued"]
             ctl == [controller EXCEPT ![k] = None]
  <2>1. /\ Pump(st, run, ctl, running) /\ UNCHANGED aborted
        /\ cancelled' = cancelled \ {k} /\ ready' = ready \ Forgotten({k})
    BY <1>2 DEF Retry
  <2>2. /\ st \in [Items -> Status] /\ st[k] = "queued"
        /\ \A i \in Items \ {k} : st[i] = status[i]
        /\ ctl \in [Items -> Runs \cup {None}]
        /\ \A i \in Items : ctl[i] \in {None, controller[i]}
    BY <1>0 DEF TypeOK, Status, Active
  <2> HIDE DEF st, ctl
  <2>3. PumpInput(st, run, ctl, running) /\ BusyIn(run) = Busy
    BY <2>2, WaitingInput
  <2>4. \A i \in cancelled' : st[i] \in {"gone", "cancelled"}
    BY <1>0, <2>1, <2>2 DEF IInv, TypeOK, StoppedRowsStayStopped, HasRow
  <2>5. \A i \in Items : st[i] \in {"reserving", "sending", "committing"}
                         => \E r \in Runs : run[r].item = i
    BY <2>2 DEF IInv, RowsTellTheTruth, RunsOf
  <2>6. \A i \in Items : st[i] = "done" => i \in ready'
    BY <2>1, <2>2 DEF IInv, RowsTellTheTruth, Forgotten
  <2>7. \A r \in Runs : run[r].step = "committed" => run[r].item \in ready'
    BY <2>1, OnlySettledRowsForget DEF IInv
  <2>8. cancelled' \subseteq Items /\ ready' \subseteq Items /\ aborted' \subseteq BusyIn(run)
    BY <1>0, <2>1, <2>3 DEF IInv, TypeOK, ControllersAreLive
  <2> QED
    BY <2>1, <2>3, <2>4, <2>5, <2>6, <2>7, <2>8, PumpKeepsIInv
<1>3. ASSUME NEW k \in Items, Cancel(k) PROVE IInv'
  <2>1. /\ status[k] \in Active /\ status' = [status EXCEPT ![k] = "cancelled"]
        /\ cancelled' = cancelled \cup {k}
        /\ aborted' \in {aborted, aborted \cup ({controller[k]} \ {None})}
        /\ UNCHANGED <<controller, run, running, ready>>
    BY <1>3 DEF Cancel, IsActive
  <2>2. controller[k] # None => controller[k] \in Busy
    BY <1>0, IdleIsNotAlive DEF IInv, ControllersAreLive, TypeOK, Busy
  <2>3. TypeOK' /\ ControllersAreLive'
    BY <1>0, <2>1, <2>2 DEF IInv, TypeOK, ControllersAreLive, Status, Active, Busy
  <2>4. IsFiniteSet(Busy)' /\ RunningCountsRuns' /\ AppliedCommitsAreReady'
    BY <2>1 DEF IInv, Busy, RunningCountsRuns, AppliedCommitsAreReady
  <2>5. \A i \in Items : status'[i] = status[i] \/ (i = k /\ status'[i] = "cancelled")
    BY <1>0, <2>1 DEF TypeOK
  <2>6. NoIdleSlot' /\ RowsTellTheTruth'
    BY <2>1, <2>5 DEF IInv, NoIdleSlot, RowsTellTheTruth, RunsOf
  <2>7. StoppedRowsStayStopped' /\ \A i \in cancelled' : status'[i] # "none"
    BY <1>0, <2>1, <2>5 DEF IInv, TypeOK, StoppedRowsStayStopped, HasRow
  <2> QED
    BY <2>3, <2>4, <2>6, <2>7 DEF IInv
<1>4. ASSUME NEW gone \in SUBSET Finished, Drop(gone) PROVE IInv'
  <2>1. /\ UNCHANGED <<cancelled, controller, run, aborted, running>>
        /\ ready' = ready \ Forgotten(gone)
        /\ status' = [i \in Items |-> IF i \in gone THEN "gone" ELSE status[i]]
    BY <1>4 DEF Drop
  <2>2. TypeOK' /\ ControllersAreLive'
    BY <1>0, <2>1 DEF IInv, TypeOK, ControllersAreLive, Status, Busy
  <2>3. IsFiniteSet(Busy)' /\ RunningCountsRuns'
    BY <2>1 DEF IInv, Busy, RunningCountsRuns
  <2>4. AppliedCommitsAreReady'
    BY <2>1, OnlySettledRowsForget DEF IInv, AppliedCommitsAreReady
  <2>5. NoIdleSlot' /\ RowsTellTheTruth'
    BY <2>1 DEF IInv, NoIdleSlot, RowsTellTheTruth, RunsOf, Forgotten
  <2>6. StoppedRowsStayStopped' /\ \A i \in cancelled' : status'[i] # "none"
    BY <1>0, <2>1 DEF IInv, TypeOK, StoppedRowsStayStopped, HasRow
  <2> QED
    BY <2>2, <2>3, <2>4, <2>5, <2>6 DEF IInv
<1>5. Handled \subseteq Items
  BY DEF Items
<1> QED
  BY <1>1, <1>2, <1>3, <1>4, <1>5 DEF UserStep, Dismiss, ClearFinished

LEMMA Invariance == Spec => []IInv
<1>1. IInv /\ [Next]_vars => IInv'
  <2> SUFFICES ASSUME IInv, [Next]_vars PROVE IInv'
    OBVIOUS
  <2>1. CASE Next
    BY <2>1, RunStepKeepsIInv, UserStepKeepsIInv DEF Next
  <2>2. CASE UNCHANGED vars
    BY <2>2 DEF vars, IInv, TypeOK, Busy, ControllersAreLive, AppliedCommitsAreReady,
       RunningCountsRuns, NoIdleSlot, StoppedRowsStayStopped, RowsTellTheTruth, HasRow,
       RunsOf
  <2> QED
    BY <2>1, <2>2
<1> QED
  BY <1>1, IInvInit, PTL DEF Spec

-----------------------------------------------------------------------------
(* The theorems *)

\* The rows, runs and controllers of the queue have their types, whatever the
\* order of calls, answers and aborts.
THEOREM QueueTypeCorrect == Spec => []TypeOK
<1>1. IInv => TypeOK
  BY DEF IInv
<1> QED
  BY <1>1, Invariance, PTL

\* createUploadQueue admits at most `concurrency` runs, and its counter is their
\* number, over any history of cancels, retries and dismissals.
THEOREM SlotsAreCounted == Spec => []RunningCountsRuns
<1>1. IInv => RunningCountsRuns
  BY DEF IInv
<1> QED
  BY <1>1, Invariance, PTL

\* pump is called wherever a row could start: no row waits beside a free slot.
THEOREM NoSlotIdles == Spec => []NoIdleSlot
<1>1. IInv => NoIdleSlot
  BY DEF IInv
<1> QED
  BY <1>1, Invariance, PTL

\* A row the user cancelled keeps saying so until the user retries it.
THEOREM StoppedStaysStopped == Spec => []StoppedRowsStayStopped
<1>1. IInv => StoppedRowsStayStopped
  BY DEF IInv
<1> QED
  BY <1>1, Invariance, PTL

\* A row that shows a transfer has a run, one that says done has its file.
THEOREM RowsAreTruthful == Spec => []RowsTellTheTruth
<1>1. IInv => RowsTellTheTruth
  BY DEF IInv
<1> QED
  BY <1>1, Invariance, PTL

=============================================================================
