----------------------- MODULE UploadLifecycle_proofs -----------------------
(***************************************************************************)
(* Machine-checked proofs about UploadLifecycle, for every set of files,   *)
(* every folder tree, any number of concurrent requests and of faults.     *)
(***************************************************************************)
EXTENDS UploadLifecycle, TLAPS

USE DEF rowVars, storageVars, requestVars, sweepVars, vars

LEMMA MaxAgeInNat == MaxAge \in Nat /\ MaxAge > 0
  BY BoundsAssumption DEF MaxAge

\* Every step keeps every variable in its range.
LEMMA TypeInvariantStep == TypeOK /\ [Next]_vars => TypeOK'
<1> SUFFICES ASSUME TypeOK, [Next]_vars PROVE TypeOK'
  OBVIOUS
<1> USE TreeAssumption, BoundsAssumption, MaxAgeInNat
    DEF TypeOK, FileStep, Step, SweepStep, Mishap, Content, UploadState
<1>1. CASE \E r \in Requests : RequestStep(r)
  <2> PICK r \in Requests : RequestStep(r)
    BY <1>1
  <2>1. CASE CreateUploadUrl(r)
    BY <2>1 DEF CreateUploadUrl, Answer
  <2>2. CASE DiscardReservation(r)
    BY <2>2 DEF DiscardReservation, Answer, ReleaseAll, RemoveRows
  <2>3. CASE StatObject(r)
    BY <2>3 DEF StatObject, Goto
  <2>4. CASE ReadRange(r)
    BY <2>4 DEF ReadRange, Goto
  <2>5. CASE MarkReady(r)
    BY <2>5 DEF MarkReady, Goto, ReleaseAll, Befall
  <2>6. CASE ConfirmReady(r)
    BY <2>6 DEF ConfirmReady, Answer, ReleaseAll
  <2>7. CASE DeleteSubtree(r)
    BY <2>7 DEF DeleteSubtree, ReleaseAll, RemoveRows, Subtree
  <2>8. CASE \E k \in Files : Release(r, k)
    BY <2>8 DEF Release, DeleteObject, DeleteObjectRefused, Fault
  <2> QED
    BY <2>1, <2>2, <2>3, <2>4, <2>5, <2>6, <2>7, <2>8 DEF RequestStep
<1>2. CASE \E r \in Requests : NewRequest(r)
  <2> PICK r \in Requests : NewRequest(r)
    BY <1>2
  <2>1. CASE \E f \in Files, d \in Folders : ReserveFile(r, f, d)
    BY <2>1 DEF ReserveFile, Start
  <2>2. CASE \E f \in Files : StartCommit(r, f)
    BY <2>2 DEF StartCommit, Start
  <2>3. CASE \E f \in Files : DeleteFile(r, f)
    BY <2>3 DEF DeleteFile, ReleaseAll, RemoveRows
  <2>4. CASE \E d \in Folders : SelectSubtreeKeys(r, d)
    BY <2>4 DEF SelectSubtreeKeys, Subtree
  <2> QED
    BY <2>1, <2>2, <2>3, <2>4 DEF NewRequest
<1>3. CASE \E r \in Requests : CreateUploadUrlFails(r)
  BY <1>3 DEF CreateUploadUrlFails, Goto, Fault
<1>4. CASE \E r \in Requests : RequestFails(r)
  BY <1>4 DEF RequestFails, Answer, Fault
<1>5. CASE \E f \in Files, d \in Folders : MoveFile(f, d)
  BY <1>5 DEF MoveFile
<1>6. CASE \E f \in Files : StartPut(f)
  BY <1>6 DEF StartPut
<1>7. CASE \E f \in Files : PutEnds(f)
  BY <1>7 DEF PutEnds, FinishPut, AbortPut, Befall
<1>8. CASE \E f \in Files : Tick(f)
  BY <1>8 DEF Tick
<1>9. CASE SweepStepTaken
  BY <1>9 DEF SweepStepTaken, SweepScan, SweepDrain, SweepExpire, SweepRelease,
              ExpiredReservations, RemoveRows, DeleteObject, DeleteObjectRefused, Fault
<1>10. CASE SweepFails
  BY <1>10 DEF SweepFails, Fault
<1>11. CASE Crash
  BY <1>11 DEF Crash, Fault, Befall
<1>12. CASE UNCHANGED vars
  BY <1>12
<1> QED
  BY <1>1, <1>2, <1>3, <1>4, <1>5, <1>6, <1>7, <1>8, <1>9, <1>10, <1>11, <1>12 DEF Next

LEMMA TypeInvariantInit == Init => TypeOK
  BY TreeAssumption, BoundsAssumption, MaxAgeInNat
  DEF Init, TypeOK, FileStep, Step, SweepStep, Mishap, Content, UploadState

\* Every variable keeps its type in every reachable state.
THEOREM TypeCorrect == Spec => []TypeOK
  BY TypeInvariantInit, TypeInvariantStep, PTL DEF Spec

LEMMA CreateUploadUrlKeepsIInv ==
    ASSUME IInv, TypeOK', NEW r \in Requests, CreateUploadUrl(r)
    PROVE  IInv'
  BY TreeAssumption, BoundsAssumption
  DEF IInv, TypeOK, FileStep, Step, SweepStep, UploadState, Content, Held, HasRow,
      FreshIds, HeldKeysAreUnreferenced, ReadyHasObject, CheckedBytesStay,
      SelectedReservationsStay, SweepKeysMatchStep, OrphansAreTracked, ParentsExist,
      CreateUploadUrl, Answer

\* The row goes before its key is held, and only a PENDING row goes.
LEMMA DiscardReservationKeepsIInv ==
    ASSUME IInv, TypeOK', NEW r \in Requests, DiscardReservation(r)
    PROVE  IInv'
<1> USE TreeAssumption, BoundsAssumption
    DEF IInv, TypeOK, FileStep, Step, SweepStep, UploadState, Content, Held, HasRow,
        DiscardReservation, Answer, ReleaseAll, RemoveRows
<1>1. FreshIds'
  BY DEF FreshIds
<1>2. HeldKeysAreUnreferenced'
  BY DEF HeldKeysAreUnreferenced, FreshIds, SelectedReservationsStay, ReadyHasObject
<1>3. ReadyHasObject'
  BY DEF ReadyHasObject, HeldKeysAreUnreferenced, CheckedBytesStay
<1>4. CheckedBytesStay'
  BY DEF CheckedBytesStay, HeldKeysAreUnreferenced
<1>5. SelectedReservationsStay'
  BY DEF SelectedReservationsStay, FreshIds
<1>6. SweepKeysMatchStep'
  BY DEF SweepKeysMatchStep
<1>7. OrphansAreTracked'
  BY DEF OrphansAreTracked, SweepKeysMatchStep, FreshIds
<1>8. ParentsExist'
  BY DEF ParentsExist
<1> QED
  BY <1>1, <1>2, <1>3, <1>4, <1>5, <1>6, <1>7, <1>8

LEMMA StatObjectKeepsIInv ==
    ASSUME IInv, TypeOK', NEW r \in Requests, StatObject(r)
    PROVE  IInv'
  BY TreeAssumption, BoundsAssumption
  DEF IInv, TypeOK, FileStep, Step, SweepStep, UploadState, Content, Held, HasRow,
      FreshIds, HeldKeysAreUnreferenced, ReadyHasObject, CheckedBytesStay,
      SelectedReservationsStay, SweepKeysMatchStep, OrphansAreTracked, ParentsExist,
      StatObject, Goto

LEMMA ReadRangeKeepsIInv ==
    ASSUME IInv, TypeOK', NEW r \in Requests, ReadRange(r)
    PROVE  IInv'
  BY TreeAssumption, BoundsAssumption
  DEF IInv, TypeOK, FileStep, Step, SweepStep, UploadState, Content, Held, HasRow,
      FreshIds, HeldKeysAreUnreferenced, ReadyHasObject, CheckedBytesStay,
      SelectedReservationsStay, SweepKeysMatchStep, OrphansAreTracked, ParentsExist,
      ReadRange, Goto

\* A commit that finds the row READY holds its key, and the history says so.
LEMMA MarkReadyKeepsIInv ==
    ASSUME IInv, TypeOK', NEW r \in Requests, MarkReady(r)
    PROVE  IInv'
<1> USE TreeAssumption, BoundsAssumption
    DEF IInv, TypeOK, FileStep, Step, SweepStep, UploadState, Content, Held, HasRow,
        MarkReady, Goto, ReleaseAll, Befall
<1>1. FreshIds'
  BY DEF FreshIds
<1>2. HeldKeysAreUnreferenced'
  <2> SUFFICES ASSUME NEW f \in Held'
               PROVE  \/ ~HasRow(f)'
                      \/ /\ uploadState'[f] = "READY"
                         /\ mishap'[f] \cap {"lostCommit", "movedOut"} # {}
    BY DEF HeldKeysAreUnreferenced
  <2>1. CASE uploadState[target[r]] = "PENDING"
    BY <2>1 DEF HeldKeysAreUnreferenced
  <2>2. CASE uploadState[target[r]] # "PENDING" /\ f = target[r]
    <3>1. uploadState[f] \in {"READY", "gone"}
      BY <2>2 DEF FreshIds
    <3>2. uploadState[f] = "READY" => "lostCommit" \in mishap'[f]
      BY <2>2
    <3> QED
      BY <2>2, <3>1, <3>2
  <2>3. CASE uploadState[target[r]] # "PENDING" /\ f # target[r]
    BY <2>3 DEF HeldKeysAreUnreferenced
  <2> QED
    BY <2>1, <2>2, <2>3
<1>3. ReadyHasObject'
  BY DEF ReadyHasObject, HeldKeysAreUnreferenced, CheckedBytesStay
<1>4. CheckedBytesStay'
  BY DEF CheckedBytesStay, HeldKeysAreUnreferenced
<1>5. SelectedReservationsStay'
  BY DEF SelectedReservationsStay, FreshIds
<1>6. SweepKeysMatchStep'
  BY DEF SweepKeysMatchStep
<1>7. OrphansAreTracked'
  BY DEF OrphansAreTracked, SweepKeysMatchStep, FreshIds
<1>8. ParentsExist'
  BY DEF ParentsExist
<1> QED
  BY <1>1, <1>2, <1>3, <1>4, <1>5, <1>6, <1>7, <1>8

LEMMA ConfirmReadyKeepsIInv ==
    ASSUME IInv, TypeOK', NEW r \in Requests, ConfirmReady(r)
    PROVE  IInv'
<1> USE TreeAssumption, BoundsAssumption
    DEF IInv, TypeOK, FileStep, Step, SweepStep, UploadState, Content, Held, HasRow,
        ConfirmReady, Answer, ReleaseAll
<1>1. FreshIds'
  BY DEF FreshIds
<1>2. HeldKeysAreUnreferenced'
  BY DEF HeldKeysAreUnreferenced
<1>3. ReadyHasObject'
  BY DEF ReadyHasObject
<1>4. CheckedBytesStay'
  BY DEF CheckedBytesStay
<1>5. SelectedReservationsStay'
  BY DEF SelectedReservationsStay
<1>6. SweepKeysMatchStep'
  BY DEF SweepKeysMatchStep
<1>7. OrphansAreTracked'
  BY DEF OrphansAreTracked, SweepKeysMatchStep
<1>8. ParentsExist'
  BY DEF ParentsExist
<1> QED
  BY <1>1, <1>2, <1>3, <1>4, <1>5, <1>6, <1>7, <1>8

\* The selected keys are of removed rows, of files gone since, or moved out.
LEMMA DeleteSubtreeKeepsIInv ==
    ASSUME IInv, TypeOK', NEW r \in Requests, DeleteSubtree(r)
    PROVE  IInv'
<1> USE TreeAssumption, BoundsAssumption
    DEF IInv, TypeOK, FileStep, Step, SweepStep, UploadState, Content, Held, HasRow,
        DeleteSubtree, ReleaseAll, RemoveRows, Subtree
<1>1. FreshIds'
  BY DEF FreshIds
<1>2. HeldKeysAreUnreferenced'
  <2> SUFFICES ASSUME NEW f \in Held', HasRow(f)'
               PROVE  uploadState'[f] = "READY" /\ mishap'[f] \cap {"lostCommit", "movedOut"} # {}
    BY DEF HeldKeysAreUnreferenced
  <2>1. /\ f \in Files /\ HasRow(f) /\ f \notin Subtree(target[r])
        /\ uploadState'[f] = uploadState[f] /\ mishap[f] \subseteq mishap'[f]
    OBVIOUS
  <2>2. CASE f \in keys[r]
    <3>1. uploadState[f] = "READY"
      BY <2>1, <2>2 DEF SelectedReservationsStay
    <3>2. "movedOut" \in mishap'[f]
      BY <2>1, <2>2
    <3> QED
      BY <2>1, <3>1, <3>2
  <2>3. CASE f \notin keys[r]
    <3>1. f \in Held
      BY <2>3
    <3>2. uploadState[f] = "READY" /\ mishap[f] \cap {"lostCommit", "movedOut"} # {}
      BY <2>1, <3>1 DEF HeldKeysAreUnreferenced
    <3> QED
      BY <2>1, <3>2
  <2> QED
    BY <2>2, <2>3
<1>3. ReadyHasObject'
  BY DEF ReadyHasObject, HeldKeysAreUnreferenced, CheckedBytesStay
<1>4. CheckedBytesStay'
  BY DEF CheckedBytesStay, HeldKeysAreUnreferenced
<1>5. SelectedReservationsStay'
  BY DEF SelectedReservationsStay, FreshIds
<1>6. SweepKeysMatchStep'
  BY DEF SweepKeysMatchStep
<1>7. OrphansAreTracked'
  <2> SUFFICES ASSUME NEW f \in Files, object[f] # "absent", ~HasRow(f)'
               PROVE  \/ f \in Held'
                      \/ mishap'[f] \cap {"missedKey", "latePut", "forgotten"} # {}
    BY DEF OrphansAreTracked
  <2>1. CASE f \in keys[r]
    BY <2>1
  <2>2. CASE f \notin keys[r] /\ HasRow(f)
    <3>1. f \in Subtree(target[r])
      BY <2>2
    <3>2. "missedKey" \in mishap'[f]
      BY <2>2, <3>1
    <3> QED
      BY <3>2
  <2>3. CASE ~HasRow(f)
    <3>1. mishap[f] \subseteq mishap'[f]
      OBVIOUS
    <3>2. f \in Held => f \in Held'
      OBVIOUS
    <3> QED
      BY <2>3, <3>1, <3>2 DEF OrphansAreTracked
  <2> QED
    BY <2>1, <2>2, <2>3
<1>8. ParentsExist'
  BY DEF ParentsExist
<1> QED
  BY <1>1, <1>2, <1>3, <1>4, <1>5, <1>6, <1>7, <1>8

LEMMA ReleaseKeepsIInv ==
    ASSUME IInv, TypeOK', NEW r \in Requests, NEW k \in Files, Release(r, k)
    PROVE  IInv'
  BY TreeAssumption, BoundsAssumption
  DEF IInv, TypeOK, FileStep, Step, SweepStep, UploadState, Content, Held, HasRow,
      FreshIds, HeldKeysAreUnreferenced, ReadyHasObject, CheckedBytesStay,
      SelectedReservationsStay, SweepKeysMatchStep, OrphansAreTracked, ParentsExist,
      Release, DeleteObject, DeleteObjectRefused, Fault

LEMMA ReserveFileKeepsIInv ==
    ASSUME IInv, TypeOK', NEW r \in Requests, NEW f \in Files, NEW d \in Folders, ReserveFile(r, f, d)
    PROVE  IInv'
  BY TreeAssumption, BoundsAssumption
  DEF IInv, TypeOK, FileStep, Step, SweepStep, UploadState, Content, Held, HasRow,
      FreshIds, HeldKeysAreUnreferenced, ReadyHasObject, CheckedBytesStay,
      SelectedReservationsStay, SweepKeysMatchStep, OrphansAreTracked, ParentsExist,
      ReserveFile, Start

LEMMA StartCommitKeepsIInv ==
    ASSUME IInv, TypeOK', NEW r \in Requests, NEW f \in Files, StartCommit(r, f)
    PROVE  IInv'
  BY TreeAssumption, BoundsAssumption
  DEF IInv, TypeOK, FileStep, Step, SweepStep, UploadState, Content, Held, HasRow,
      FreshIds, HeldKeysAreUnreferenced, ReadyHasObject, CheckedBytesStay,
      SelectedReservationsStay, SweepKeysMatchStep, OrphansAreTracked, ParentsExist,
      StartCommit, Start

LEMMA DeleteFileKeepsIInv ==
    ASSUME IInv, TypeOK', NEW r \in Requests, NEW f \in Files, DeleteFile(r, f)
    PROVE  IInv'
  BY TreeAssumption, BoundsAssumption
  DEF IInv, TypeOK, FileStep, Step, SweepStep, UploadState, Content, Held, HasRow,
      FreshIds, HeldKeysAreUnreferenced, ReadyHasObject, CheckedBytesStay,
      SelectedReservationsStay, SweepKeysMatchStep, OrphansAreTracked, ParentsExist,
      DeleteFile, ReleaseAll, RemoveRows

LEMMA SelectSubtreeKeysKeepsIInv ==
    ASSUME IInv, TypeOK', NEW r \in Requests, NEW d \in Folders, SelectSubtreeKeys(r, d)
    PROVE  IInv'
  BY TreeAssumption, BoundsAssumption
  DEF IInv, TypeOK, FileStep, Step, SweepStep, UploadState, Content, Held, HasRow,
      FreshIds, HeldKeysAreUnreferenced, ReadyHasObject, CheckedBytesStay,
      SelectedReservationsStay, SweepKeysMatchStep, OrphansAreTracked, ParentsExist,
      SelectSubtreeKeys, Subtree

LEMMA CreateUploadUrlFailsKeepsIInv ==
    ASSUME IInv, TypeOK', NEW r \in Requests, CreateUploadUrlFails(r)
    PROVE  IInv'
  BY TreeAssumption, BoundsAssumption
  DEF IInv, TypeOK, FileStep, Step, SweepStep, UploadState, Content, Held, HasRow,
      FreshIds, HeldKeysAreUnreferenced, ReadyHasObject, CheckedBytesStay,
      SelectedReservationsStay, SweepKeysMatchStep, OrphansAreTracked, ParentsExist,
      CreateUploadUrlFails, Goto, Fault

LEMMA RequestFailsKeepsIInv ==
    ASSUME IInv, TypeOK', NEW r \in Requests, RequestFails(r)
    PROVE  IInv'
  BY TreeAssumption, BoundsAssumption
  DEF IInv, TypeOK, FileStep, Step, SweepStep, UploadState, Content, Held, HasRow,
      FreshIds, HeldKeysAreUnreferenced, ReadyHasObject, CheckedBytesStay,
      SelectedReservationsStay, SweepKeysMatchStep, OrphansAreTracked, ParentsExist,
      RequestFails, Answer, Fault

LEMMA MoveFileKeepsIInv ==
    ASSUME IInv, TypeOK', NEW f \in Files, NEW d \in Folders, MoveFile(f, d)
    PROVE  IInv'
  BY TreeAssumption, BoundsAssumption
  DEF IInv, TypeOK, FileStep, Step, SweepStep, UploadState, Content, Held, HasRow,
      FreshIds, HeldKeysAreUnreferenced, ReadyHasObject, CheckedBytesStay,
      SelectedReservationsStay, SweepKeysMatchStep, OrphansAreTracked, ParentsExist,
      MoveFile

LEMMA StartPutKeepsIInv ==
    ASSUME IInv, TypeOK', NEW f \in Files, StartPut(f)
    PROVE  IInv'
  BY TreeAssumption, BoundsAssumption
  DEF IInv, TypeOK, FileStep, Step, SweepStep, UploadState, Content, Held, HasRow,
      FreshIds, HeldKeysAreUnreferenced, ReadyHasObject, CheckedBytesStay,
      SelectedReservationsStay, SweepKeysMatchStep, OrphansAreTracked, ParentsExist,
      StartPut, UrlLive

LEMMA FinishPutKeepsIInv ==
    ASSUME IInv, TypeOK', NEW f \in Files, NEW c \in Content \ {"absent"}, FinishPut(f, c)
    PROVE  IInv'
  BY TreeAssumption, BoundsAssumption
  DEF IInv, TypeOK, FileStep, Step, SweepStep, UploadState, Content, Held, HasRow,
      FreshIds, HeldKeysAreUnreferenced, ReadyHasObject, CheckedBytesStay,
      SelectedReservationsStay, SweepKeysMatchStep, OrphansAreTracked, ParentsExist,
      FinishPut, Befall

LEMMA AbortPutKeepsIInv ==
    ASSUME IInv, TypeOK', NEW f \in Files, AbortPut(f)
    PROVE  IInv'
  BY TreeAssumption, BoundsAssumption
  DEF IInv, TypeOK, FileStep, Step, SweepStep, UploadState, Content, Held, HasRow,
      FreshIds, HeldKeysAreUnreferenced, ReadyHasObject, CheckedBytesStay,
      SelectedReservationsStay, SweepKeysMatchStep, OrphansAreTracked, ParentsExist,
      AbortPut

LEMMA TickKeepsIInv ==
    ASSUME IInv, TypeOK', NEW f \in Files, Tick(f)
    PROVE  IInv'
  BY TreeAssumption, BoundsAssumption
  DEF IInv, TypeOK, FileStep, Step, SweepStep, UploadState, Content, Held, HasRow,
      FreshIds, HeldKeysAreUnreferenced, ReadyHasObject, CheckedBytesStay,
      SelectedReservationsStay, SweepKeysMatchStep, OrphansAreTracked, ParentsExist,
      Tick

LEMMA SweepScanKeepsIInv ==
    ASSUME IInv, TypeOK', SweepScan
    PROVE  IInv'
  BY TreeAssumption, BoundsAssumption
  DEF IInv, TypeOK, FileStep, Step, SweepStep, UploadState, Content, Held, HasRow,
      FreshIds, HeldKeysAreUnreferenced, ReadyHasObject, CheckedBytesStay,
      SelectedReservationsStay, SweepKeysMatchStep, OrphansAreTracked, ParentsExist,
      SweepScan

LEMMA SweepDrainKeepsIInv ==
    ASSUME IInv, TypeOK', SweepDrain
    PROVE  IInv'
  BY TreeAssumption, BoundsAssumption
  DEF IInv, TypeOK, FileStep, Step, SweepStep, UploadState, Content, Held, HasRow,
      FreshIds, HeldKeysAreUnreferenced, ReadyHasObject, CheckedBytesStay,
      SelectedReservationsStay, SweepKeysMatchStep, OrphansAreTracked, ParentsExist,
      SweepDrain

LEMMA SweepExpireKeepsIInv ==
    ASSUME IInv, TypeOK', NEW f \in Files, SweepExpire(f)
    PROVE  IInv'
  BY TreeAssumption, BoundsAssumption
  DEF IInv, TypeOK, FileStep, Step, SweepStep, UploadState, Content, Held, HasRow,
      FreshIds, HeldKeysAreUnreferenced, ReadyHasObject, CheckedBytesStay,
      SelectedReservationsStay, SweepKeysMatchStep, OrphansAreTracked, ParentsExist,
      SweepExpire, RemoveRows

LEMMA SweepReleaseKeepsIInv ==
    ASSUME IInv, TypeOK', NEW k \in Files, SweepRelease(k)
    PROVE  IInv'
  BY TreeAssumption, BoundsAssumption
  DEF IInv, TypeOK, FileStep, Step, SweepStep, UploadState, Content, Held, HasRow,
      FreshIds, HeldKeysAreUnreferenced, ReadyHasObject, CheckedBytesStay,
      SelectedReservationsStay, SweepKeysMatchStep, OrphansAreTracked, ParentsExist,
      SweepRelease, DeleteObject, DeleteObjectRefused, Fault

LEMMA SweepFailsKeepsIInv ==
    ASSUME IInv, TypeOK', SweepFails
    PROVE  IInv'
  BY TreeAssumption, BoundsAssumption
  DEF IInv, TypeOK, FileStep, Step, SweepStep, UploadState, Content, Held, HasRow,
      FreshIds, HeldKeysAreUnreferenced, ReadyHasObject, CheckedBytesStay,
      SelectedReservationsStay, SweepKeysMatchStep, OrphansAreTracked, ParentsExist,
      SweepFails, Fault

\* Rows and objects survive; every key that was held is marked forgotten.
LEMMA CrashKeepsIInv ==
    ASSUME IInv, TypeOK', Crash
    PROVE  IInv'
<1> USE TreeAssumption, BoundsAssumption
    DEF IInv, TypeOK, FileStep, Step, SweepStep, UploadState, Content, Held, HasRow,
        Crash, Fault, Befall
<1>1. FreshIds'
  BY DEF FreshIds
<1>2. HeldKeysAreUnreferenced'
  BY DEF HeldKeysAreUnreferenced, FreshIds, SelectedReservationsStay, ReadyHasObject
<1>3. ReadyHasObject'
  BY DEF ReadyHasObject, HeldKeysAreUnreferenced, CheckedBytesStay
<1>4. CheckedBytesStay'
  BY DEF CheckedBytesStay, HeldKeysAreUnreferenced
<1>5. SelectedReservationsStay'
  BY DEF SelectedReservationsStay, FreshIds
<1>6. SweepKeysMatchStep'
  BY DEF SweepKeysMatchStep
<1>7. OrphansAreTracked'
  BY DEF OrphansAreTracked, SweepKeysMatchStep, FreshIds
<1>8. ParentsExist'
  BY DEF ParentsExist
<1> QED
  BY <1>1, <1>2, <1>3, <1>4, <1>5, <1>6, <1>7, <1>8

LEMMA IInvInit == Init => IInv
  BY TypeInvariantInit
  DEF Init, IInv, Held, HasRow, FileStep, FreshIds, HeldKeysAreUnreferenced,
      ReadyHasObject, CheckedBytesStay, SelectedReservationsStay,
      SweepKeysMatchStep, OrphansAreTracked, ParentsExist

LEMMA IInvStep == IInv /\ [Next]_vars => IInv'
<1> SUFFICES ASSUME IInv, [Next]_vars PROVE IInv'
  OBVIOUS
<1>0. TypeOK'
  BY TypeInvariantStep DEF IInv
<1>1. CASE \E r \in Requests : RequestStep(r)
  BY <1>0, <1>1, CreateUploadUrlKeepsIInv, DiscardReservationKeepsIInv,
     StatObjectKeepsIInv, ReadRangeKeepsIInv, MarkReadyKeepsIInv,
     ConfirmReadyKeepsIInv, DeleteSubtreeKeepsIInv, ReleaseKeepsIInv
  DEF RequestStep
<1>2. CASE \E r \in Requests : NewRequest(r)
  BY <1>0, <1>2, ReserveFileKeepsIInv, StartCommitKeepsIInv, DeleteFileKeepsIInv,
     SelectSubtreeKeysKeepsIInv
  DEF NewRequest
<1>3. CASE \E r \in Requests : CreateUploadUrlFails(r) \/ RequestFails(r)
  BY <1>0, <1>3, CreateUploadUrlFailsKeepsIInv, RequestFailsKeepsIInv
<1>4. CASE \E f \in Files, d \in Folders : MoveFile(f, d)
  BY <1>0, <1>4, MoveFileKeepsIInv
<1>5. CASE \E f \in Files : StartPut(f) \/ PutEnds(f)
  BY <1>0, <1>5, StartPutKeepsIInv, FinishPutKeepsIInv, AbortPutKeepsIInv DEF PutEnds
<1>6. CASE \E f \in Files : Tick(f)
  BY <1>0, <1>6, TickKeepsIInv
<1>7. CASE SweepStepTaken
  BY <1>0, <1>7, SweepScanKeepsIInv, SweepDrainKeepsIInv, SweepExpireKeepsIInv,
     SweepReleaseKeepsIInv
  DEF SweepStepTaken
<1>8. CASE SweepFails \/ Crash
  BY <1>0, <1>8, SweepFailsKeepsIInv, CrashKeepsIInv
<1>9. CASE UNCHANGED vars
  BY <1>0, <1>9
  DEF IInv, Held, HasRow, FreshIds, HeldKeysAreUnreferenced, ReadyHasObject,
      CheckedBytesStay, SelectedReservationsStay, SweepKeysMatchStep,
      OrphansAreTracked, ParentsExist
<1> QED
  BY <1>1, <1>2, <1>3, <1>4, <1>5, <1>6, <1>7, <1>8, <1>9 DEF Next

LEMMA InductiveInvariant == Spec => []IInv
  BY IInvInit, IInvStep, PTL DEF Spec

\* A committed file loses its bytes only at one of the two steps named.
THEOREM CommittedFilesKeepTheirBytes == Spec => []ReadyHasObject
<1>1. IInv => ReadyHasObject
  BY DEF IInv
<1> QED
  BY <1>1, InductiveInvariant, PTL

\* Row before object: what is about to be deleted has lost its row.
THEOREM RowBeforeObject == Spec => []HeldKeysAreUnreferenced
<1>1. IInv => HeldKeysAreUnreferenced
  BY DEF IInv
<1> QED
  BY <1>1, InductiveInvariant, PTL

\* An object that lost its row is on a list, or was lost at a named step.
THEOREM OrphansTracked == Spec => []OrphansAreTracked
<1>1. IInv => OrphansAreTracked
  BY DEF IInv
<1> QED
  BY <1>1, InductiveInvariant, PTL

\* No row survives the deletion of the folder it is in.
THEOREM ParentsAlwaysExist == Spec => []ParentsExist
<1>1. IInv => ParentsExist
  BY DEF IInv
<1> QED
  BY <1>1, InductiveInvariant, PTL

\* A committed row disappears only in a step of the owner's deletion.
THEOREM CommittedFilesLeave == Spec => CommittedFilesLeaveByDeletion
<1> DEFINE Leaves(f) ==
      uploadState[f] = "READY" /\ uploadState'[f] # "READY"
        => /\ uploadState'[f] = "gone"
           /\ UNCHANGED sweepVars
           /\ \E r \in Requests : pc[r] \in {"idle", "delete"} /\ pc'[r] # pc[r]
           /\ f \in Held' \/ "missedKey" \in mishap'[f]
<1>1. ASSUME IInv, IInv', [Next]_vars, NEW f \in Files
      PROVE  Leaves(f)
  <2> SUFFICES ASSUME uploadState[f] = "READY", uploadState'[f] # "READY"
               PROVE  Leaves(f)
    OBVIOUS
  <2> USE <1>1 DEF IInv, TypeOK, Held, HasRow, RemoveRows, ReleaseAll
  <2>1. ASSUME NEW r \in Requests, RequestStep(r)
        PROVE  Leaves(f)
    <3>1. DeleteSubtree(r)
      BY <2>1 DEF RequestStep, CreateUploadUrl, Answer, DiscardReservation, StatObject,
                  ReadRange, MarkReady, ConfirmReady, Release, Goto, FileStep
    <3>2. f \in Subtree(target[r]) /\ uploadState'[f] = "gone"
      BY <3>1 DEF DeleteSubtree
    <3>3. f \in keys[r] => f \in Held'
      BY <3>1 DEF DeleteSubtree
    <3>4. f \notin keys[r] => "missedKey" \in mishap'[f]
      BY <3>1, <3>2 DEF DeleteSubtree
    <3>5. pc[r] = "delete" /\ pc'[r] # pc[r] /\ UNCHANGED sweepVars
      BY <3>1 DEF DeleteSubtree
    <3> QED
      BY <3>2, <3>3, <3>4, <3>5
  <2>2. ASSUME NEW r \in Requests, NewRequest(r)
        PROVE  Leaves(f)
    <3>1. DeleteFile(r, f)
      BY <2>2 DEF NewRequest, ReserveFile, StartCommit, DeleteFile, SelectSubtreeKeys, Start
    <3>2. f \in Held' /\ uploadState'[f] = "gone" /\ UNCHANGED sweepVars
      BY <3>1 DEF DeleteFile
    <3>3. pc[r] = "idle" /\ pc'[r] # pc[r]
      BY <3>1 DEF DeleteFile
    <3> QED
      BY <3>2, <3>3
  <2>3. CASE UNCHANGED uploadState
    BY <2>3
  <2>4. CASE SweepStepTaken
    BY <2>4 DEF SweepStepTaken, SweepScan, SweepDrain, SweepExpire, SweepRelease
  <2> QED
    BY <2>1, <2>2, <2>3, <2>4
    DEF Next, CreateUploadUrlFails, RequestFails, MoveFile, StartPut, PutEnds, FinishPut,
        AbortPut, Tick, SweepFails, Crash
<1>2. IInv /\ IInv' /\ [Next]_vars => [\A f \in Files : Leaves(f)]_vars
  BY <1>1
<1> QED
  BY <1>2, InductiveInvariant, PTL DEF Spec, CommittedFilesLeaveByDeletion

=============================================================================
