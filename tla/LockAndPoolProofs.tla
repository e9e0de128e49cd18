------------------------- MODULE LockAndPoolProofs --------------------------
(***************************************************************************)
(* Proofs about the commands that change a lock, for any artifacts, tracks *)
(* and number of commands and faults, and about the object worker pool,    *)
(* for any number of objects and any set of workers.                       *)
(***************************************************************************)
EXTENDS WorkspaceLocks, ForEachObject, TLAPS

----------------------------------------------------------------------------
(* The object worker pool.  The invariant says that the indices below      *)
(* `next' are exactly those handed out, that each of them is in flight or  *)
(* finished, and that errs records truthfully what the finished ones       *)
(* returned.                                                               *)

(* Every index handed out is below next, and is finished or in flight.     *)
Accounted ==
  /\ \A i \in finished : i < next \/ count = 1
  /\ \A w \in Workers : at[w] # NoIndex => at[w] < next
  /\ count > 1 => \A i \in Index : i < next => (i \in finished \/ \E w \in Workers : at[w] = i)

(* errs holds the outcome of the finished indices and nothing else.        *)
Truthful ==
  count > 1 =>
    /\ \A i \in Index : errs[i] # NoError =>
         /\ i \in finished
         /\ \/ i \in broken /\ errs[i] = WorkError(i)
            \/ cancelled /\ errs[i] = CtxError
    /\ \A i \in finished : errs[i] = NoError => i \notin broken

(* A worker between recording an error and raising the flag did record it. *)
Raising ==
  \A w \in pending : at[w] # NoIndex /\ errs[at[w]] # NoError

(* The dispatcher stops only at the end, after a failure or when cancelled. *)
WhyStopped ==
  /\ dispatcher = "direct" => count \in {0, 1}
  /\ dispatcher \in {"check", "send", "wait"} => count > 1
  /\ dispatcher = "send" => next < count
  /\ dispatcher = "wait" => (next = count \/ failed \/ cancelled)
  /\ failed => \E i \in Index : errs[i] # NoError

IInv == TypeOK /\ Accounted /\ Truthful /\ Raising /\ WhyStopped /\ NilMeansAll /\ LowestFailure

USE CountAssumption, WorkersAssumption

(* The three kinds of outcome are told apart by their kind.                *)
LEMMA ErrorsDiffer ==
  /\ NoError # CtxError
  /\ \A i : WorkError(i) # NoError /\ WorkError(i) # CtxError
  /\ \A i, j : WorkError(i) = WorkError(j) => i = j
BY DEF NoError, CtxError, WorkError

(* A request returns nothing but its own outcome or the cancellation.      *)
LEMMA OutcomeCases ==
  ASSUME NEW i \in Index, NEW e \in Outcomes(i)
  PROVE  /\ e \in Errors
         /\ e = NoError => i \notin broken
         /\ e # NoError => (i \in broken /\ e = WorkError(i)) \/ (cancelled /\ e = CtxError)
BY ErrorsDiffer DEF Outcomes, Errors

(* A call starts with nothing handed out and nothing recorded.             *)
THEOREM InitInvariant == Init => IInv
<1> SUFFICES ASSUME Init PROVE IInv
  OBVIOUS
<1>1. TypeOK
  <2>1. NoError \in Errors
    BY DEF Errors
  <2>2. count \in 0 .. MaxCount /\ next \in 0 .. count
    BY DEF Init
  <2>3. at \in [Workers -> Index \union {NoIndex}]
    BY DEF Init
  <2>4. errs \in [Index -> Errors] /\ result \in Errors
    BY <2>1 DEF Init
  <2> QED
    BY <2>2, <2>3, <2>4, Zenon DEF Init, TypeOK
<1>2. Accounted /\ Raising /\ WhyStopped
  BY DEF Init, Accounted, Raising, WhyStopped, Index, NoIndex
<1>3. Truthful
  BY DEF Init, Truthful
<1>4. NilMeansAll /\ LowestFailure
  BY DEF Init, NilMeansAll, LowestFailure
<1> QED
  BY <1>1, <1>2, <1>3, <1>4 DEF IInv

(* The two promises are about a returned call: a step that leaves the call *)
(* running keeps them.                                                     *)
LEMMA RunningKeepsPromises ==
  ASSUME dispatcher' # "returned"
  PROVE  NilMeansAll' /\ LowestFailure'
BY DEF NilMeansAll, LowestFailure

(* Zero or one object is done in the caller's goroutine, and its error     *)
(* becomes the result.                                                     *)
LEMMA DirectStep == IInv /\ Direct => IInv'
<1> SUFFICES ASSUME IInv, Direct PROVE IInv'
  OBVIOUS
<1> USE DEF IInv
<1>1. count \in {0, 1} /\ count' = count /\ broken' = broken /\ cancelled' = cancelled
  BY DEF Direct, WhyStopped, call
<1>2. Index' = Index /\ Errors' = Errors
  BY <1>1 DEF Index, Errors
<1>3. /\ next' = next /\ at' = at /\ pending' = pending /\ errs' = errs /\ failed' = failed
      /\ dispatcher' = "returned"
  BY DEF Direct
<1>4. Truthful' /\ Raising' /\ WhyStopped'
  BY <1>1, <1>2, <1>3 DEF Truthful, Raising, WhyStopped
<1>5. CASE count = 0
  <2>1. Index = {} /\ broken = {} /\ finished = {} /\ finished' = {} /\ result' = result
    <3>1. Index = {}
      BY <1>5 DEF Index
    <3>2. finished' = finished /\ result' = result
      BY <1>5 DEF Direct
    <3> QED BY <3>1, <3>2 DEF TypeOK
  <2>2. TypeOK'
    BY <1>1, <1>2, <1>3, <2>1 DEF TypeOK
  <2>3. Accounted'
    BY <1>1, <1>2, <1>3, <2>1 DEF Accounted
  <2>4. NilMeansAll' /\ LowestFailure'
    BY <1>1, <1>2, <2>1 DEF NilMeansAll, LowestFailure
  <2> QED BY <1>4, <2>2, <2>3, <2>4
<1>6. CASE count = 1
  <2>1. PICK e \in Outcomes(0) : result' = e /\ finished' = {0}
    BY <1>6 DEF Direct
  <2>2. 0 \in Index /\ Index = {0} /\ broken \subseteq {0}
    BY <1>6 DEF Index, TypeOK
  <2>3. /\ e \in Errors
        /\ e = NoError => 0 \notin broken
        /\ e # NoError => (0 \in broken /\ e = WorkError(0)) \/ (cancelled /\ e = CtxError)
    BY <2>2, OutcomeCases
  <2>4. TypeOK'
    BY <1>1, <1>2, <1>3, <2>1, <2>2, <2>3 DEF TypeOK
  <2>5. Accounted'
    BY <1>1, <1>2, <1>3, <1>6, <2>1, <2>2 DEF Accounted
  <2>6. NilMeansAll'
    BY <1>1, <1>2, <2>1, <2>2, <2>3 DEF NilMeansAll
  <2>7. LowestFailure'
    <3>1. SUFFICES ASSUME ~cancelled, broken # {}
                   PROVE  e = WorkError(0) /\ broken = {0}
      BY <1>1, <2>1, <3>1 DEF LowestFailure
    <3> QED BY <2>2, <2>3, <3>1, Zenon
  <2> QED BY <1>4, <2>4, <2>5, <2>6, <2>7
<1> QED
  BY <1>1, <1>5, <1>6

(* Reading failed and the context moves the dispatcher only.               *)
LEMMA CheckStep == IInv /\ Check => IInv'
<1> SUFFICES ASSUME IInv, Check PROVE IInv'
  OBVIOUS
<1> USE DEF IInv
<1>1. /\ count' = count /\ broken' = broken /\ cancelled' = cancelled /\ next' = next
      /\ at' = at /\ pending' = pending /\ finished' = finished /\ errs' = errs
      /\ failed' = failed /\ result' = result
  BY DEF Check, call, worker
<1>2. Index' = Index /\ Errors' = Errors
  BY <1>1 DEF Index, Errors
<1>3. dispatcher' \in {"wait", "send"}
  BY DEF Check
<1>4. TypeOK'
  BY <1>1, <1>2, <1>3 DEF TypeOK
<1>5. Accounted' /\ Truthful' /\ Raising'
  BY <1>1, <1>2 DEF Accounted, Truthful, Raising
<1>6. WhyStopped'
  BY <1>1, <1>2 DEF TypeOK, WhyStopped, Check
<1> QED
  BY <1>3, <1>4, <1>5, <1>6, RunningKeepsPromises

(* Handing an index to a goroutine keeps every lower index accounted for.  *)
LEMMA DispatchStep == ASSUME IInv, NEW w \in Workers, Dispatch(w) PROVE IInv'
<1> USE DEF IInv
<1>1. /\ count' = count /\ broken' = broken /\ cancelled' = cancelled
      /\ pending' = pending /\ finished' = finished /\ errs' = errs
      /\ failed' = failed /\ result' = result
      /\ next' = next + 1 /\ dispatcher' = "check" /\ at' = [at EXCEPT ![w] = next]
      /\ at[w] = NoIndex /\ dispatcher = "send"
  BY DEF Dispatch, call
<1>2. Index' = Index /\ Errors' = Errors
  BY <1>1 DEF Index, Errors
<1>3. count \in Nat /\ next \in 0 .. (count - 1) /\ count > 1 /\ next \in Index
  BY <1>1 DEF TypeOK, WhyStopped, Index
<1>4. at \in [Workers -> Index \union {NoIndex}] /\ at' \in [Workers -> Index \union {NoIndex}]
  BY <1>1, <1>3 DEF TypeOK
<1>5. TypeOK'
  BY <1>1, <1>2, <1>3, <1>4 DEF TypeOK
<1>6. Accounted'
  <2>1. \A i \in finished' : i < next' \/ count' = 1
    BY <1>1, <1>3 DEF Accounted, TypeOK, Index
  <2>2. ASSUME NEW v \in Workers, at'[v] # NoIndex PROVE at'[v] < next'
    BY <1>1, <1>3, <1>4, <2>2 DEF Accounted, Index, NoIndex
  <2>3. ASSUME NEW i \in Index, i < next'
        PROVE  i \in finished' \/ \E v \in Workers : at'[v] = i
    <3>1. CASE i = next
      BY <1>1, <1>4, <3>1
    <3>2. CASE i < next
      <4>1. i \in finished \/ \E v \in Workers : at[v] = i
        BY <1>3, <3>2 DEF Accounted
      <4>2. ASSUME NEW v \in Workers, at[v] = i PROVE at'[v] = i
        BY <1>1, <1>4, <4>2 DEF Index, NoIndex
      <4> QED BY <1>1, <4>1, <4>2
    <3> QED BY <1>1, <1>3, <2>3, <3>1, <3>2 DEF Index
  <2> QED BY <1>1, <1>2, <2>1, <2>2, <2>3 DEF Accounted
<1>7. Truthful'
  BY <1>1, <1>2 DEF Truthful
<1>8. Raising'
  <2>1. w \notin pending
    BY <1>1 DEF Raising
  <2> QED BY <1>1, <1>4, <2>1 DEF Raising, TypeOK
<1>9. WhyStopped'
  BY <1>1, <1>2, <1>3 DEF WhyStopped
<1> QED
  BY <1>1, <1>5, <1>6, <1>7, <1>8, <1>9, RunningKeepsPromises

(* The flag is raised only by a goroutine that has recorded its error.     *)
LEMMA StoreFailedStep == ASSUME IInv, NEW w \in Workers, StoreFailed(w) PROVE IInv'
<1> USE DEF IInv
<1>1. /\ count' = count /\ broken' = broken /\ cancelled' = cancelled /\ next' = next
      /\ dispatcher' = dispatcher /\ finished' = finished /\ errs' = errs /\ result' = result
      /\ failed' = TRUE /\ pending' = pending \ {w} /\ at' = [at EXCEPT ![w] = NoIndex]
      /\ w \in pending
  BY DEF StoreFailed, call
<1>2. Index' = Index /\ Errors' = Errors
  BY <1>1 DEF Index, Errors
<1>3. at \in [Workers -> Index \union {NoIndex}] /\ at' \in [Workers -> Index \union {NoIndex}]
  BY <1>1 DEF TypeOK
<1>4. at[w] \in Index /\ errs[at[w]] # NoError
  BY <1>1, <1>3 DEF Raising
<1>5. TypeOK'
  BY <1>1, <1>2, <1>3 DEF TypeOK
<1>6. Accounted'
  <2>1. \A v \in Workers : at'[v] # NoIndex => at'[v] < next'
    BY <1>1, <1>3 DEF Accounted
  <2>2. ASSUME count > 1, NEW i \in Index, i < next
        PROVE  i \in finished \/ \E v \in Workers : at'[v] = i
    <3>1. at[w] \in finished
      BY <1>4, <2>2 DEF Truthful
    <3> QED BY <1>1, <1>3, <2>2, <3>1 DEF Accounted
  <2> QED BY <1>1, <1>2, <2>1, <2>2 DEF Accounted
<1>7. Truthful'
  BY <1>1, <1>2 DEF Truthful
<1>8. Raising'
  BY <1>1, <1>3 DEF Raising, TypeOK
<1>9. WhyStopped'
  BY <1>1, <1>2, <1>4 DEF WhyStopped
<1>10. NilMeansAll' /\ LowestFailure'
  BY <1>1, <1>2 DEF NilMeansAll, LowestFailure
<1> QED
  BY <1>5, <1>6, <1>7, <1>8, <1>9, <1>10

(* A finished request is recorded under its own index.                     *)
LEMMA WorkReturnsStep == ASSUME IInv, NEW w \in Workers, WorkReturns(w) PROVE IInv'
<1> USE DEF IInv
<1>1. /\ count' = count /\ broken' = broken /\ cancelled' = cancelled /\ next' = next
      /\ dispatcher' = dispatcher /\ failed' = failed /\ result' = result
      /\ finished' = finished \union {at[w]} /\ at[w] # NoIndex /\ w \notin pending
  BY DEF WorkReturns, call
<1>2. Index' = Index /\ Errors' = Errors
  BY <1>1 DEF Index, Errors
<1>3. at \in [Workers -> Index \union {NoIndex}] /\ errs \in [Index -> Errors] /\ pending \subseteq Workers
  BY DEF TypeOK
<1>4. at[w] \in Index
  BY <1>1, <1>3
<1>5. PICK e \in Outcomes(at[w]) :
        IF e = NoError
        THEN at' = [at EXCEPT ![w] = NoIndex] /\ pending' = pending /\ errs' = errs
        ELSE pending' = pending \union {w} /\ errs' = [errs EXCEPT ![at[w]] = e] /\ at' = at
  BY DEF WorkReturns
<1>6. /\ e \in Errors
      /\ e = NoError => at[w] \notin broken
      /\ e # NoError => (at[w] \in broken /\ e = WorkError(at[w])) \/ (cancelled /\ e = CtxError)
  BY <1>4, OutcomeCases
<1>7. at' \in [Workers -> Index \union {NoIndex}] /\ errs' \in [Index -> Errors] /\ pending' \subseteq Workers
  BY <1>3, <1>5, <1>6
<1>8. TypeOK'
  BY <1>1, <1>2, <1>4, <1>7 DEF TypeOK
<1>9. Accounted'
  <2>1. \A v \in Workers : at'[v] # NoIndex => at'[v] = at[v]
    BY <1>3, <1>5
  <2>2. \A v \in Workers : at'[v] # NoIndex => at'[v] < next'
    BY <1>1, <2>1 DEF Accounted
  <2>3. \A i \in finished' : i < next' \/ count' = 1
    BY <1>1 DEF Accounted
  <2>4. ASSUME count > 1, NEW i \in Index, i < next
        PROVE  i \in finished' \/ \E v \in Workers : at'[v] = i
    <3>1. i \in finished \/ \E v \in Workers : at[v] = i
      BY <2>4 DEF Accounted
    <3>2. ASSUME NEW v \in Workers, at[v] = i PROVE i = at[w] \/ at'[v] = i
      BY <1>3, <1>5, <3>2
    <3> QED BY <1>1, <3>1, <3>2
  <2> QED BY <1>1, <1>2, <2>2, <2>3, <2>4 DEF Accounted
<1>10. Truthful'
  <2>1. SUFFICES ASSUME count > 1
                 PROVE  /\ \A i \in Index : errs'[i] # NoError =>
                             /\ i \in finished'
                             /\ \/ i \in broken /\ errs'[i] = WorkError(i)
                                \/ cancelled /\ errs'[i] = CtxError
                        /\ \A i \in finished' : errs'[i] = NoError => i \notin broken
    BY <1>1, <1>2 DEF Truthful
  <2>2. CASE e = NoError
    BY <1>1, <1>5, <1>6, <2>1, <2>2 DEF Truthful
  <2>3. CASE e # NoError
    <3>1. errs' = [errs EXCEPT ![at[w]] = e]
      BY <1>5, <2>3
    <3>2. \A i \in Index : errs'[i] = IF i = at[w] THEN e ELSE errs[i]
      BY <1>3, <3>1
    <3>3. finished \subseteq Index
      BY DEF TypeOK
    <3> QED BY <1>1, <1>4, <1>6, <2>1, <2>3, <3>2, <3>3 DEF Truthful
  <2> QED BY <2>2, <2>3
<1>11. Raising'
  <2>1. CASE e = NoError
    BY <1>1, <1>3, <1>5, <2>1 DEF Raising
  <2>2. CASE e # NoError
    BY <1>1, <1>3, <1>4, <1>5, <2>2 DEF Raising
  <2> QED BY <2>1, <2>2
<1>12. WhyStopped'
  <2>1. ASSUME NEW i \in Index, errs[i] # NoError PROVE errs'[i] # NoError
    BY <1>3, <1>5, <2>1
  <2> QED BY <1>1, <1>2, <2>1 DEF WhyStopped
<1>13. NilMeansAll' /\ LowestFailure'
  BY <1>1, <1>2, <1>4 DEF NilMeansAll, LowestFailure
<1> QED
  BY <1>8, <1>9, <1>10, <1>11, <1>12, <1>13

(* When the dispatcher stops because something failed, the lowest recorded *)
(* error is the lowest failure there is: every lower index was handed out  *)
(* before it, has finished, and recorded nothing.                          *)
LEMMA ReturnStep == IInv /\ Return => IInv'
<1> SUFFICES ASSUME IInv, Return PROVE IInv'
  OBVIOUS
<1> USE DEF IInv
<1>1. /\ count' = count /\ broken' = broken /\ cancelled' = cancelled /\ next' = next
      /\ at' = at /\ pending' = pending /\ finished' = finished /\ errs' = errs
      /\ failed' = failed /\ dispatcher' = "returned" /\ dispatcher = "wait"
      /\ \A w \in Workers : at[w] = NoIndex
  BY DEF Return, call, worker
<1>2. Index' = Index /\ Errors' = Errors
  BY <1>1 DEF Index, Errors
<1>3. count \in Nat /\ count > 1 /\ next \in 0 .. count /\ errs \in [Index -> Errors] /\ broken \subseteq Index
  BY <1>1 DEF TypeOK, WhyStopped
<1>4. \A i \in Index : i < next => i \in finished
  BY <1>1, <1>3 DEF Accounted, Index, NoIndex
<1>5. Accounted' /\ Truthful' /\ Raising' /\ WhyStopped'
  BY <1>1, <1>2, <1>3 DEF Accounted, Truthful, Raising, WhyStopped
<1>6. CASE \E k \in Reported : result' = errs[k]
  <2>1. PICK k \in Reported : result' = errs[k]
    BY <1>6
  <2>2. k \in Index /\ errs[k] # NoError /\ \A j \in 0 .. (k - 1) : errs[j] = NoError
    BY DEF Reported
  <2>3. TypeOK'
    BY <1>1, <1>2, <1>3, <2>1, <2>2 DEF TypeOK
  <2>4. NilMeansAll'
    BY <2>1, <2>2 DEF NilMeansAll
  <2>5. LowestFailure'
    <3>1. SUFFICES ASSUME ~cancelled
                   PROVE  k \in broken /\ errs[k] = WorkError(k) /\ \A j \in broken : k <= j
      BY <1>1, <2>1, <3>1 DEF LowestFailure
    <3>2. k \in broken /\ errs[k] = WorkError(k) /\ k \in finished
      BY <1>3, <2>2, <3>1 DEF Truthful
    <3>3. k < next
      BY <1>3, <3>2 DEF Accounted
    <3>4. ASSUME NEW j \in broken, j < k PROVE FALSE
      <4>1. j \in Index /\ j \in 0 .. (k - 1) /\ j < next
        BY <1>3, <2>2, <3>3, <3>4 DEF Index
      <4>2. j \in finished /\ errs[j] = NoError
        BY <1>4, <2>2, <4>1
      <4> QED BY <1>3, <4>2 DEF Truthful
    <3> QED BY <1>3, <2>2, <3>2, <3>4 DEF Index
  <2> QED BY <1>5, <2>3, <2>4, <2>5
<1>7. CASE /\ \A i \in Index : errs[i] = NoError
           /\ result' = (IF cancelled THEN CtxError ELSE NoError)
  <2>1. TypeOK'
    BY <1>1, <1>2, <1>7 DEF TypeOK, Errors
  <2>2. ~failed
    BY <1>7 DEF WhyStopped
  <2>3. ASSUME ~cancelled PROVE finished = Index /\ broken = {}
    <3>1. next = count
      BY <1>1, <2>2, <2>3 DEF WhyStopped
    <3>2. finished = Index
      <4>1. \A i \in Index : i < next
        BY <1>3, <3>1 DEF Index
      <4> QED BY <1>4, <4>1 DEF TypeOK
    <3> QED BY <1>3, <1>7, <3>2 DEF Truthful
  <2>4. NilMeansAll' /\ LowestFailure'
    BY <1>1, <1>2, <1>7, <2>3, ErrorsDiffer DEF NilMeansAll, LowestFailure
  <2> QED BY <1>5, <2>1, <2>4
<1> QED
  BY <1>6, <1>7 DEF Return

(* The caller may cancel at any time.                                      *)
LEMMA CancelStep == IInv /\ Cancel => IInv'
<1> SUFFICES ASSUME IInv, Cancel PROVE IInv'
  OBVIOUS
<1> USE DEF IInv
<1>1. /\ count' = count /\ broken' = broken /\ cancelled' = TRUE /\ next' = next
      /\ at' = at /\ pending' = pending /\ finished' = finished /\ errs' = errs
      /\ failed' = failed /\ result' = result /\ dispatcher' = dispatcher
  BY DEF Cancel, call, worker
<1>2. Index' = Index /\ Errors' = Errors
  BY <1>1 DEF Index, Errors
<1>3. TypeOK'
  BY <1>1, <1>2 DEF TypeOK
<1>4. Accounted' /\ Truthful' /\ Raising' /\ WhyStopped'
  BY <1>1, <1>2 DEF Accounted, Truthful, Raising, WhyStopped
<1>5. NilMeansAll' /\ LowestFailure'
  BY <1>1, <1>2 DEF NilMeansAll, LowestFailure
<1> QED
  BY <1>3, <1>4, <1>5

(* Every step of the pool keeps the invariant.                             *)
THEOREM NextInvariant == IInv /\ [Next]_vars => IInv'
<1> SUFFICES ASSUME IInv, [Next]_vars PROVE IInv'
  OBVIOUS
<1>1. CASE Direct
  BY <1>1, DirectStep
<1>2. CASE Check
  BY <1>2, CheckStep
<1>3. CASE Return
  BY <1>3, ReturnStep
<1>4. CASE Cancel
  BY <1>4, CancelStep
<1>5. ASSUME NEW w \in Workers, Dispatch(w) PROVE IInv'
  BY <1>5, DispatchStep
<1>6. ASSUME NEW w \in Workers, WorkReturns(w) PROVE IInv'
  BY <1>6, WorkReturnsStep
<1>7. ASSUME NEW w \in Workers, StoreFailed(w) PROVE IInv'
  BY <1>7, StoreFailedStep
<1>8. CASE UNCHANGED vars
  BY <1>8 DEF vars, IInv, TypeOK, Accounted, Truthful, Raising, WhyStopped, NilMeansAll,
              LowestFailure, Index, Errors
<1> QED
  BY <1>1, <1>2, <1>3, <1>4, <1>5, <1>6, <1>7, <1>8 DEF Next

(* Every reachable state of the pool satisfies the inductive invariant.    *)
THEOREM Invariance == Spec => []IInv
BY InitInvariant, NextInvariant, PTL DEF Spec

(* The pool is well typed for every count and every set of goroutines.     *)
THEOREM TypeCorrect == Spec => []TypeOK
<1>1. IInv => TypeOK
  BY DEF IInv
<1> QED BY <1>1, Invariance, PTL

(* forEachObject returns nil only when all of the work succeeded.          *)
THEOREM NilIsComplete == Spec => []NilMeansAll
<1>1. IInv => NilMeansAll
  BY DEF IInv
<1> QED BY <1>1, Invariance, PTL

(* forEachObject reports the lowest failing index, whatever the schedule.  *)
THEOREM ErrorIsDeterministic == Spec => []LowestFailure
<1>1. IInv => LowestFailure
  BY DEF IInv
<1> QED BY <1>1, Invariance, PTL

----------------------------------------------------------------------------
(* The commands that change a lock *)

USE ArtifactsAssumption

(* Lock files, and a command with its lock in memory.                      *)
Placements == [pkg : {a.pkg : a \in LockArtifacts}, ver : {a.ver : a \in LockArtifacts},
               track : LockTracks \union {StableTrack}]
LockFiles == [blobs : SUBSET LockArtifacts, origin : SUBSET LockArtifacts, placements : SUBSET Placements]
Adding == [name : {"add"}, mem : LockFiles, todo : SUBSET LockArtifacts]
Importing == [name : {"import"}, mem : LockFiles, before : LockFiles, todo : SUBSET LockArtifacts,
              dirty : BOOLEAN, imported : SUBSET LockArtifacts, skipped : SUBSET LockArtifacts]
Configuring == [name : {"configure"}, target : {"local", "s3"}, todo : SUBSET LockArtifacts]

LockType ==
  /\ lock \in LockFiles /\ blobStore \in {"local", "s3"}
  /\ cmd \in {Locks!Idle} \union Adding \union Importing \union Configuring

(* What a command in progress has brought to the shared store: an add all  *)
(* that its lock in memory names, a move all but what is left to do.       *)
StoreInv ==
  /\ Locks!StoreHoldsLock
  /\ cmd.name = "add" /\ blobStore = "s3" => Locks!Shas(cmd.mem.blobs) \subseteq store
  /\ cmd.name = "configure" /\ cmd.target = "s3" => Locks!Shas(lock.blobs \ cmd.todo) \subseteq store
  /\ cmd.name = "import" => blobStore = "local"

(* An index that lists no new artifact of a published version.             *)
Faithful(S) == \A a \in S, r \in ledger : Locks!SameVersion(a, r) => a.sha \in r.shas

(* The lock in memory is one that could be written at any moment.          *)
ValidInv ==
  /\ Locks!Valid(lock)
  /\ cmd.name = "add" => Locks!ValidateLock(cmd.mem)
  /\ cmd.name = "import" => Locks!Valid(cmd.mem) /\ Faithful(cmd.todo)

(* What an import has reported so far, against its lock in memory.         *)
ReportInv ==
  cmd.name = "import" =>
    /\ ~cmd.dirty => lock = cmd.mem
    /\ cmd.imported \subseteq cmd.mem.blobs \intersect cmd.mem.origin
    /\ cmd.mem.blobs \subseteq cmd.before.blobs \union cmd.imported
    /\ cmd.skipped \intersect cmd.imported = {}
    /\ cmd.todo \intersect (cmd.skipped \union cmd.imported) = {}

(* The functions that change a lock.                                       *)
LEMMA LockPlaces ==
  ASSUME NEW a \in LockArtifacts, NEW t \in LockTracks \union {StableTrack}
  PROVE  Locks!Place(a, t) \in Placements
BY DEF Placements, Locks!Place

LEMMA LockFields ==
  ASSUME NEW l \in LockFiles
  PROVE  /\ l.blobs \subseteq LockArtifacts /\ l.origin \subseteq LockArtifacts
         /\ l.placements \subseteq Placements
BY DEF LockFiles

LEMMA AddBlobFields ==
  ASSUME NEW l \in LockFiles, NEW a \in LockArtifacts
  PROVE  /\ Locks!AddBlob(l, a, StableTrack) \in LockFiles
         /\ Locks!AddBlob(l, a, StableTrack).blobs = l.blobs \union {a}
         /\ Locks!AddBlob(l, a, StableTrack).placements = l.placements \union {Locks!Place(a, StableTrack)}
         /\ Locks!AddBlob(l, a, StableTrack).origin = l.origin
BY LockPlaces, Zenon DEF LockFiles, Locks!AddBlob

LEMMA OriginFields ==
  ASSUME NEW l \in LockFiles, NEW a \in LockArtifacts
  PROVE  /\ Locks!SetBlobOrigin(l, a) \in LockFiles
         /\ Locks!SetBlobOrigin(l, a).blobs = l.blobs
         /\ Locks!SetBlobOrigin(l, a).placements = l.placements
         /\ Locks!SetBlobOrigin(l, a).origin = l.origin \union {a}
BY DEF LockFiles, Locks!SetBlobOrigin

LEMMA PlacementFields ==
  ASSUME NEW l \in LockFiles, NEW a \in LockArtifacts
  PROVE  /\ \A t \in LockTracks : /\ Locks!PromotePlacement(l, a, t) \in LockFiles
                                  /\ Locks!PromotePlacement(l, a, t).blobs = l.blobs
         /\ \A t : /\ Locks!YankPlacements(l, a, t) \in LockFiles
                  /\ Locks!YankPlacements(l, a, t).blobs = l.blobs
<1>1. ASSUME NEW t \in LockTracks
      PROVE  Locks!PromotePlacement(l, a, t) \in LockFiles /\ Locks!PromotePlacement(l, a, t).blobs = l.blobs
  BY LockPlaces DEF LockFiles, Locks!PromotePlacement
<1>2. ASSUME NEW t
      PROVE  Locks!YankPlacements(l, a, t) \in LockFiles /\ Locks!YankPlacements(l, a, t).blobs = l.blobs
  BY DEF LockFiles, Locks!YankPlacements
<1> QED
  BY <1>1, <1>2

LEMMA PruneFields ==
  ASSUME NEW l \in LockFiles
  PROVE  /\ Locks!PrunePlacements(l, Retention) \in LockFiles
         /\ Locks!PrunePlacements(l, Retention).blobs = l.blobs
BY DEF LockFiles, Locks!PrunePlacements

(* An artifact that is not bound to other bytes may be added to a lock     *)
(* that is valid, with or without its origin.                              *)
LEMMA AddedValid ==
  ASSUME NEW l \in LockFiles, NEW m \in LockFiles, NEW a \in LockArtifacts, Locks!ValidateLock(l), ~Locks!Bound(l, a),
         m.blobs = l.blobs \union {a}, m.placements = l.placements \union {Locks!Place(a, StableTrack)}
  PROVE  Locks!ValidateLock(m)
<1>1. ASSUME NEW x \in m.blobs, NEW y \in m.blobs, Locks!SameVersion(x, y), x.coord = y.coord PROVE x = y
  <2>1. \A b \in l.blobs : Locks!SameVersion(b, a) /\ b.coord = a.coord => b = a
    BY LockFields DEF Locks!Bound, Locks!SameVersion
  <2>2. \A b, c \in l.blobs : Locks!SameVersion(b, c) /\ b.coord = c.coord => b = c
    BY DEF Locks!ValidateLock
  <2> QED
    BY <1>1, <2>1, <2>2 DEF Locks!SameVersion
<1>2. ASSUME NEW p \in m.placements PROVE Locks!packageVersionExists(m, p)
  BY DEF Locks!ValidateLock, Locks!packageVersionExists, Locks!SameVersion, Locks!Place
<1> QED
  BY <1>1, <1>2 DEF Locks!ValidateLock

(* One that a published version of the same name already had leaves the    *)
(* published bindings as they are.                                         *)
LEMMA AddedBindings ==
  ASSUME NEW l, NEW m, NEW a, Locks!ValidatePublishedBindings(l, ledger), Faithful({a}),
         m.blobs = l.blobs \union {a}
  PROVE  Locks!ValidatePublishedBindings(m, ledger)
<1> SUFFICES ASSUME NEW r \in ledger PROVE Locks!packageVersionExists(m, r) /\ Locks!Bytes(m, r) = r.shas
  BY DEF Locks!ValidatePublishedBindings
<1>1. Locks!packageVersionExists(l, r) /\ Locks!Bytes(l, r) = r.shas
  BY DEF Locks!ValidatePublishedBindings
<1>2. Locks!packageVersionExists(m, r)
  BY <1>1 DEF Locks!packageVersionExists
<1>3. Locks!Bytes(l, r) \subseteq Locks!Bytes(m, r)
  BY DEF Locks!Bytes
<1>4. ASSUME NEW d \in Locks!Bytes(m, r) PROVE d \in r.shas
  <2>1. PICK b \in m.blobs : Locks!SameVersion(b, r) /\ d = b.sha
    BY DEF Locks!Bytes
  <2>2. CASE b \in l.blobs
    BY <1>1, <2>1, <2>2 DEF Locks!Bytes
  <2>3. CASE b = a
    BY <2>1, <2>3 DEF Faithful
  <2> QED
    BY <2>1, <2>2, <2>3
<1> QED
  BY <1>1, <1>2, <1>3, <1>4, Zenon

----------------------------------------------------------------------------
(* The fields of a running command.                                        *)
LEMMA Running ==
  ASSUME LockType
  PROVE  /\ cmd.name = "add" => cmd \in Adding /\ cmd.mem \in LockFiles /\ cmd.todo \subseteq LockArtifacts
         /\ cmd.name = "import" => /\ cmd \in Importing /\ cmd.mem \in LockFiles /\ cmd.before \in LockFiles
                                  /\ cmd.todo \subseteq LockArtifacts
         /\ cmd.name = "configure" => cmd \in Configuring /\ cmd.todo \subseteq LockArtifacts
         /\ Locks!Idle.name = "idle"
BY DEF LockType, Adding, Importing, Configuring, Locks!Idle

(* A command that has ended, or has not begun, is none of the three.       *)
LEMMA LockAtRest ==
  ASSUME cmd' = Locks!Idle
  PROVE  cmd'.name = "idle" /\ cmd' \in {Locks!Idle} \union Adding \union Importing \union Configuring
BY DEF Locks!Idle

LEMMA InitLock == Locks!Init => LockType /\ StoreInv /\ ValidInv /\ ReportInv
<1> SUFFICES ASSUME Locks!Init PROVE LockType /\ StoreInv /\ ValidInv /\ ReportInv
  OBVIOUS
<1>1. lock = Locks!EmptyLock /\ ledger = {} /\ blobStore = "local" /\ cmd = Locks!Idle /\ cmd.name = "idle"
  BY DEF Locks!Init, Locks!Idle
<1>2. lock \in LockFiles /\ lock.blobs = {} /\ lock.placements = {}
  BY <1>1 DEF LockFiles, Locks!EmptyLock
<1> QED
  BY <1>1, <1>2, Zenon DEF LockType, StoreInv, ValidInv, ReportInv, Locks!StoreHoldsLock, Locks!Valid, Locks!ValidateLock,
       Locks!ValidatePublishedBindings

(* The commands that only rewrite placements, and what leaves lock, store  *)
(* and command alone.                                                      *)
LEMMA PlacementSteps ==
  ASSUME LockType,
         \/ \E v \in lock.blobs, track \in LockTracks : Locks!Promote(v, track)
         \/ \E v \in lock.blobs, track \in LockTracks \union {"all"} : Locks!Yank(v, track)
         \/ Locks!Prune
  PROVE  /\ lock' \in LockFiles /\ lock'.blobs = lock.blobs
         /\ lock' = lock \/ Locks!Valid(lock')
         /\ cmd' = Locks!Idle /\ UNCHANGED <<ledger, store, blobStore>>
<1> DEFINE Goal(l) == /\ lock' \in LockFiles /\ lock'.blobs = lock.blobs
                      /\ lock' = lock \/ Locks!Valid(lock')
                      /\ cmd' = Locks!Idle /\ UNCHANGED <<ledger, store, blobStore>>
<1>1. lock \in LockFiles /\ lock.blobs \subseteq LockArtifacts
  BY LockFields DEF LockType
<1>2. ASSUME NEW l \in LockFiles, l.blobs = lock.blobs, NEW name, Locks!Rewrite(name, l) PROVE Goal(l)
  BY <1>1, <1>2 DEF Locks!Rewrite, Locks!Close
<1>3. ASSUME NEW v \in lock.blobs, NEW track \in LockTracks, Locks!Promote(v, track)
      PROVE  Goal(Locks!PromotePlacement(lock, v, track))
  <2>1. Locks!PromotePlacement(lock, v, track) \in LockFiles
        /\ Locks!PromotePlacement(lock, v, track).blobs = lock.blobs
    BY <1>1, PlacementFields
  <2> QED
    BY <1>2, <1>3, <2>1 DEF Locks!Promote
<1>4. ASSUME NEW v \in lock.blobs, NEW track, Locks!Yank(v, track)
      PROVE  Goal(Locks!YankPlacements(lock, v, track))
  <2>1. Locks!YankPlacements(lock, v, track) \in LockFiles
        /\ Locks!YankPlacements(lock, v, track).blobs = lock.blobs
    BY <1>1, PlacementFields
  <2> QED
    BY <1>2, <1>4, <2>1 DEF Locks!Yank
<1>5. ASSUME Locks!Prune PROVE Goal(Locks!PrunePlacements(lock, Retention))
  <2>1. Locks!PrunePlacements(lock, Retention) \in LockFiles
        /\ Locks!PrunePlacements(lock, Retention).blobs = lock.blobs
    BY <1>1, PruneFields
  <2> QED
    BY <1>2, <1>5, <2>1, Zenon DEF Locks!Prune
<1> QED
  BY <1>3, <1>4, <1>5

(* An artifact of an import: skipped, with its change left in memory or    *)
(* not, or imported.                                                       *)
Adopted(a) == Locks!SetBlobOrigin(Locks!AddBlob(cmd.mem, a, StableTrack), a)

LEMMA AdoptedFields ==
  ASSUME LockType, cmd.name = "import", NEW a \in LockArtifacts
  PROVE  /\ Adopted(a) \in LockFiles
         /\ Adopted(a).blobs = cmd.mem.blobs \union {a}
         /\ Adopted(a).origin = cmd.mem.origin \union {a}
         /\ Adopted(a).placements = cmd.mem.placements \union {Locks!Place(a, StableTrack)}
BY Running, AddBlobFields, OriginFields DEF Adopted

LEMMA AdoptMoves ==
  ASSUME LockType, NEW a \in LockArtifacts, Locks!AdoptFetchFails(a) \/ Locks!AdoptArtifact(a)
  PROVE  /\ cmd.name = "import" /\ a \in cmd.todo /\ cmd' \in Importing
         /\ cmd'.todo = cmd.todo \ {a} /\ cmd'.before = cmd.before
         /\ UNCHANGED <<lock, ledger, store, blobStore>>
         /\ \/ /\ cmd'.mem = cmd.mem /\ cmd'.dirty = cmd.dirty
               /\ cmd'.skipped = cmd.skipped \union {a} /\ cmd'.imported = cmd.imported
            \/ /\ ~Locks!Bound(cmd.mem, a) /\ (~Locks!Valid(Adopted(a)) \/ "disk" \in LockFaults)
               /\ cmd'.mem = Adopted(a) /\ cmd'.dirty = cmd.dirty
               /\ cmd'.skipped = cmd.skipped \union {a} /\ cmd'.imported = cmd.imported
            \/ /\ ~Locks!Bound(cmd.mem, a) /\ Locks!Valid(Adopted(a))
               /\ cmd'.mem = Adopted(a) /\ cmd'.dirty = (cmd.dirty \/ Adopted(a) # cmd.mem)
               /\ cmd'.skipped = cmd.skipped /\ cmd'.imported = cmd.imported \union {a}
<1>1. cmd.name = "import" /\ a \in cmd.todo /\ UNCHANGED <<lock, ledger, store, blobStore>>
  BY DEF Locks!AdoptFetchFails, Locks!AdoptArtifact
<1>2. cmd \in Importing /\ Adopted(a) \in LockFiles
  BY <1>1, Running, AdoptedFields, Zenon
<1> DEFINE skip == [cmd EXCEPT !.todo = @ \ {a}, !.skipped = @ \union {a}]
<1>3. \/ cmd' = skip
      \/ /\ ~Locks!Bound(cmd.mem, a) /\ (~Locks!Valid(Adopted(a)) \/ "disk" \in LockFaults)
         /\ cmd' = [skip EXCEPT !.mem = Adopted(a)]
      \/ /\ ~Locks!Bound(cmd.mem, a) /\ Locks!Valid(Adopted(a))
         /\ cmd' = [cmd EXCEPT !.mem = Adopted(a), !.todo = @ \ {a}, !.imported = @ \union {a},
                               !.dirty = @ \/ Adopted(a) # cmd.mem]
  BY DEF Locks!AdoptFetchFails, Locks!AdoptArtifact, Adopted
<1>4. /\ skip \in Importing /\ skip.todo = cmd.todo \ {a} /\ skip.before = cmd.before /\ skip.mem = cmd.mem
      /\ skip.dirty = cmd.dirty /\ skip.skipped = cmd.skipped \union {a} /\ skip.imported = cmd.imported
  BY <1>2, Zenon DEF Importing
<1>5. CASE cmd' = skip
  BY <1>1, <1>4, <1>5
<1>6. CASE /\ ~Locks!Bound(cmd.mem, a) /\ (~Locks!Valid(Adopted(a)) \/ "disk" \in LockFaults)
           /\ cmd' = [skip EXCEPT !.mem = Adopted(a)]
  <2> HIDE DEF skip
  <2>1. /\ cmd' \in Importing /\ cmd'.todo = skip.todo /\ cmd'.before = skip.before /\ cmd'.mem = Adopted(a)
        /\ cmd'.dirty = skip.dirty /\ cmd'.skipped = skip.skipped /\ cmd'.imported = skip.imported
    BY <1>2, <1>4, <1>6 DEF Importing
  <2> QED
    BY <1>1, <1>4, <1>6, <2>1
<1>7. CASE /\ ~Locks!Bound(cmd.mem, a) /\ Locks!Valid(Adopted(a))
           /\ cmd' = [cmd EXCEPT !.mem = Adopted(a), !.todo = @ \ {a}, !.imported = @ \union {a},
                                 !.dirty = @ \/ Adopted(a) # cmd.mem]
  <2>1. /\ cmd' \in Importing /\ cmd'.todo = cmd.todo \ {a} /\ cmd'.before = cmd.before /\ cmd'.mem = Adopted(a)
        /\ cmd'.dirty = (cmd.dirty \/ Adopted(a) # cmd.mem)
        /\ cmd'.skipped = cmd.skipped /\ cmd'.imported = cmd.imported \union {a}
    BY <1>2, <1>7, Zenon DEF Importing
  <2> QED
    BY <1>1, <1>7, <2>1
<1> QED
  BY <1>3, <1>5, <1>6, <1>7

(* Every step keeps the shared store ahead of the lock.                    *)
LEMMA NextStore ==
  ASSUME LockType, StoreInv, [Locks!Next]_(Locks!vars)
  PROVE  LockType' /\ StoreInv'
<1> USE DEF Locks!Shas
<1>0. /\ lock \in LockFiles /\ lock.blobs \subseteq LockArtifacts /\ blobStore \in {"local", "s3"}
      /\ blobStore = "s3" => Locks!Shas(lock.blobs) \subseteq store
  BY LockFields, Zenon DEF LockType, StoreInv, Locks!StoreHoldsLock
<1>1. ASSUME cmd' = Locks!Idle, lock' \in LockFiles, lock'.blobs = lock.blobs, UNCHANGED blobStore, store \subseteq store'
      PROVE  LockType' /\ StoreInv'
  <2>1. LockType'
    BY <1>0, <1>1, LockAtRest DEF LockType
  <2>2. Locks!StoreHoldsLock'
    BY <1>0, <1>1 DEF Locks!StoreHoldsLock
  <2> QED
    BY <1>1, <2>1, <2>2, LockAtRest DEF StoreInv
<1>2. ASSUME UNCHANGED <<lock, store, blobStore, cmd>> PROVE LockType' /\ StoreInv'
  BY <1>2 DEF LockType, StoreInv, Locks!StoreHoldsLock
<1>3. CASE \/ \E v \in lock.blobs, track \in LockTracks : Locks!Promote(v, track)
           \/ \E v \in lock.blobs, track \in LockTracks \union {"all"} : Locks!Yank(v, track)
           \/ Locks!Prune
  BY <1>1, <1>3, PlacementSteps
<1>4. CASE Locks!Publish
  BY <1>0, <1>1, <1>4 DEF Locks!Publish, Locks!Close
<1>5. ASSUME NEW S \in SUBSET LockArtifacts, Locks!AddOpen(S) PROVE LockType' /\ StoreInv'
  <2>1. /\ cmd' = [name |-> "add", mem |-> lock, todo |-> S]
        /\ UNCHANGED <<lock, store, blobStore>>
    BY <1>5 DEF Locks!AddOpen
  <2>2. cmd' \in Adding /\ cmd'.name = "add" /\ cmd'.mem = lock
    BY <1>0, <2>1 DEF Adding
  <2> QED
    BY <1>0, <2>1, <2>2 DEF LockType, StoreInv, Locks!StoreHoldsLock
<1>6. ASSUME NEW S \in SUBSET LockArtifacts, Locks!openAdoptSession(S) PROVE LockType' /\ StoreInv'
  <2>1. /\ cmd' = [name |-> "import", mem |-> lock, before |-> lock, todo |-> S, dirty |-> FALSE,
                   imported |-> {}, skipped |-> {}]
        /\ UNCHANGED <<lock, store, blobStore>> /\ blobStore = "local"
    BY <1>6, Zenon DEF Locks!openAdoptSession
  <2>2. cmd' \in Importing /\ cmd'.name = "import"
    BY <1>0, <2>1, Zenon DEF Importing
  <2> QED
    BY <1>0, <2>1, <2>2 DEF LockType, StoreInv, Locks!StoreHoldsLock
<1>7. ASSUME NEW a \in LockArtifacts, Locks!AddPut(a) PROVE LockType' /\ StoreInv'
  <2>1. /\ cmd.name = "add" /\ a \in cmd.todo /\ UNCHANGED <<lock, blobStore>>
        /\ store' = IF blobStore = "s3" THEN store \union {a.sha} ELSE store
    BY <1>7 DEF Locks!AddPut
  <2>2. CASE Locks!Bound(cmd.mem, a)
    BY <1>0, <1>1, <1>7, <2>1, <2>2 DEF Locks!AddPut, Locks!Close
  <2>3. CASE ~Locks!Bound(cmd.mem, a)
    <3>1. cmd' = [cmd EXCEPT !.mem = Locks!AddBlob(@, a, StableTrack), !.todo = @ \ {a}]
      BY <1>7, <2>3 DEF Locks!AddPut
    <3>2. cmd \in Adding /\ cmd.mem \in LockFiles /\ cmd.todo \subseteq LockArtifacts
      BY <2>1, Running
    <3>3. cmd' \in Adding /\ cmd'.name = "add" /\ cmd'.mem = Locks!AddBlob(cmd.mem, a, StableTrack)
      BY <3>1, <3>2, AddBlobFields, Zenon DEF Adding
    <3>4. cmd'.mem.blobs = cmd.mem.blobs \union {a}
      BY <3>2, <3>3, AddBlobFields
    <3>5. blobStore = "s3" => Locks!Shas(cmd'.mem.blobs) \subseteq store'
      BY <2>1, <3>4 DEF StoreInv
    <3> QED
      BY <1>0, <2>1, <3>3, <3>5 DEF LockType, StoreInv, Locks!StoreHoldsLock
  <2> QED
    BY <2>2, <2>3
<1>8. ASSUME cmd.name = "import", cmd' \in Importing, lock' \in {lock, cmd.mem}, UNCHANGED <<store, blobStore>>
      PROVE  LockType' /\ StoreInv'
  <2>1. cmd'.name = "import" /\ blobStore = "local" /\ lock' \in LockFiles
    BY <1>0, <1>8, Running DEF Importing, StoreInv
  <2> QED
    BY <1>0, <1>8, <2>1 DEF LockType, StoreInv, Locks!StoreHoldsLock
<1>9. ASSUME NEW a \in LockArtifacts, Locks!AdoptFetchFails(a) \/ Locks!AdoptArtifact(a) PROVE LockType' /\ StoreInv'
  BY <1>8, <1>9, AdoptMoves, Zenon
<1>10. CASE Locks!AddWrite
  <2>1. /\ cmd.name = "add" /\ cmd' = Locks!Idle /\ lock' \in {lock, cmd.mem} /\ UNCHANGED <<store, blobStore>>
    BY <1>10, Zenon DEF Locks!AddWrite, Locks!Close
  <2>2. lock' \in LockFiles /\ (blobStore = "s3" => Locks!Shas(lock'.blobs) \subseteq store)
    BY <1>0, <2>1, Running, Zenon DEF StoreInv
  <2> QED
    BY <1>0, <2>1, <2>2, LockAtRest DEF LockType, StoreInv, Locks!StoreHoldsLock
<1>11. CASE Locks!flush
  <2>1. cmd.name = "import" /\ lock' = cmd.mem /\ cmd' = [cmd EXCEPT !.dirty = FALSE] /\ UNCHANGED <<store, blobStore>>
    BY <1>11 DEF Locks!flush
  <2>2. cmd' \in Importing
    BY <2>1, Running, Zenon DEF Importing
  <2> QED
    BY <1>8, <2>1, <2>2
<1>12. CASE Locks!ImportReports
  BY <1>0, <1>1, <1>12 DEF Locks!ImportReports, Locks!Close
<1>13. ASSUME NEW target \in {"local", "s3"}, Locks!ConfigureOpen(target) PROVE LockType' /\ StoreInv'
  <2>1. /\ cmd' = [name |-> "configure", target |-> target, todo |-> lock.blobs]
        /\ UNCHANGED <<lock, store, blobStore>>
    BY <1>13 DEF Locks!ConfigureOpen
  <2>2. cmd' \in Configuring /\ cmd'.name = "configure" /\ cmd'.todo = lock.blobs
    BY <1>0, <2>1 DEF Configuring
  <2> QED
    BY <1>0, <2>1, <2>2 DEF LockType, StoreInv, Locks!StoreHoldsLock
<1>14. ASSUME NEW a \in LockArtifacts, Locks!ConfigureBlob(a) PROVE LockType' /\ StoreInv'
  <2>1. cmd.name = "configure" /\ UNCHANGED <<lock, blobStore>> /\ a \in cmd.todo
    BY <1>14 DEF Locks!ConfigureBlob
  <2>2. CASE Locks!Reachable(a)
    <3>1. /\ cmd' = [cmd EXCEPT !.todo = @ \ {a}]
          /\ store' = IF cmd.target = "s3" THEN store \union {a.sha} ELSE store
      BY <1>14, <2>2 DEF Locks!ConfigureBlob
    <3>2. cmd \in Configuring
      BY <2>1, Running
    <3>3. cmd' \in Configuring /\ cmd'.name = "configure" /\ cmd'.target = cmd.target /\ cmd'.todo = cmd.todo \ {a}
      BY <3>1, <3>2 DEF Configuring
    <3>4. cmd.target = "s3" => Locks!Shas(lock.blobs \ cmd'.todo) \subseteq store'
      BY <2>1, <3>1, <3>3 DEF StoreInv
    <3> QED
      BY <1>0, <2>1, <3>1, <3>3, <3>4 DEF LockType, StoreInv, Locks!StoreHoldsLock
  <2>3. CASE ~Locks!Reachable(a)
    BY <1>0, <1>1, <1>14, <2>1, <2>3 DEF Locks!ConfigureBlob, Locks!Close
  <2> QED
    BY <2>2, <2>3
<1>15. CASE Locks!ConfigureWrite
  <2>1. /\ cmd.name = "configure" /\ cmd.todo = {} /\ blobStore' = cmd.target /\ cmd' = Locks!Idle
        /\ UNCHANGED <<lock, store>>
    BY <1>15 DEF Locks!ConfigureWrite, Locks!Close
  <2>2. cmd.target \in {"local", "s3"}
    BY <2>1, Running DEF Configuring
  <2>3. cmd.target = "s3" => Locks!Shas(lock.blobs) \subseteq store
    BY <2>1 DEF StoreInv
  <2> QED
    BY <1>0, <2>1, <2>2, <2>3, LockAtRest DEF LockType, StoreInv, Locks!StoreHoldsLock
<1>16. ASSUME NEW a \in LockArtifacts, Locks!ensureBlob(a) PROVE LockType' /\ StoreInv'
  BY <1>2, <1>16 DEF Locks!ensureBlob
<1>17. CASE Locks!Crash
  BY <1>0, <1>1, <1>17 DEF Locks!Crash
<1>18. CASE Locks!Clone
  BY <1>2, <1>18 DEF Locks!Clone
<1>19. CASE UNCHANGED Locks!vars
  BY <1>2, <1>19 DEF Locks!vars
<1> QED
  BY <1>3, <1>4, <1>5, <1>6, <1>7, <1>9, <1>10, <1>11, <1>12, <1>13, <1>14, <1>15, <1>16, <1>17, <1>18, <1>19,
     Zenon DEF Locks!Next

(* What an import adopts of a faithful index leaves a valid lock.          *)
LEMMA AdoptedValid ==
  ASSUME LockType, cmd.name = "import", NEW a \in LockArtifacts, ~Locks!Bound(cmd.mem, a),
         Locks!Valid(cmd.mem), Faithful(cmd.todo), a \in cmd.todo
  PROVE  Locks!Valid(Adopted(a))
<1>1. cmd.mem \in LockFiles
  BY Running
<1>2. PICK m : m = Adopted(a)
  OBVIOUS
<1>3. Locks!ValidateLock(m)
  BY <1>1, <1>2, AdoptedFields, AddedValid, Zenon DEF Locks!Valid
<1>4. Faithful({a})
  BY DEF Faithful
<1>5. Locks!ValidatePublishedBindings(m, ledger)
  BY <1>2, <1>4, AdoptedFields, AddedBindings, Zenon DEF Locks!Valid
<1> QED
  BY <1>2, <1>3, <1>5 DEF Locks!Valid

(* Every step keeps a lock that the next command opens, when indexes list  *)
(* nothing new of a published version.                                     *)
LEMMA NextValid ==
  ASSUME ~IndexGrows, LockType, ValidInv, [Locks!Next]_(Locks!vars)
  PROVE  ValidInv'
<1>0. lock \in LockFiles /\ lock.blobs \subseteq LockArtifacts /\ Locks!Valid(lock)
  BY LockFields DEF LockType, ValidInv
<1>1. ASSUME cmd' = Locks!Idle, Locks!Valid(lock)' PROVE ValidInv'
  BY <1>1, LockAtRest DEF ValidInv
<1>2. ASSUME lock' = lock \/ Locks!Valid(lock'), UNCHANGED ledger PROVE Locks!Valid(lock)'
  BY <1>0, <1>2 DEF Locks!Valid
<1>3. CASE \/ \E v \in lock.blobs, track \in LockTracks : Locks!Promote(v, track)
           \/ \E v \in lock.blobs, track \in LockTracks \union {"all"} : Locks!Yank(v, track)
           \/ Locks!Prune
  BY <1>1, <1>2, <1>3, PlacementSteps
<1>4. CASE Locks!Publish
  <2>1. lock' = lock /\ cmd' = Locks!Idle /\ ledger' = ledger \union Locks!publicationBindings(lock, StableTrack)
    BY <1>4 DEF Locks!Publish, Locks!Close
  <2>2. ASSUME NEW r \in Locks!publicationBindings(lock, StableTrack)
        PROVE  Locks!packageVersionExists(lock, r) /\ Locks!Bytes(lock, r) = r.shas
    <3>1. PICK b \in lock.blobs : r = [pkg |-> b.pkg, ver |-> b.ver, shas |-> Locks!Bytes(lock, b)]
      BY Zenon DEF Locks!publicationBindings, Locks!visiblePackageVersions
    <3>2. Locks!SameVersion(b, r) /\ \A c : Locks!SameVersion(c, r) <=> Locks!SameVersion(c, b)
      BY <3>1 DEF Locks!SameVersion
    <3> QED
      BY <3>1, <3>2, Zenon DEF Locks!packageVersionExists, Locks!Bytes
  <2> QED
    BY <1>0, <1>1, <2>1, <2>2 DEF Locks!Valid, Locks!ValidatePublishedBindings
<1>5. ASSUME NEW S \in SUBSET LockArtifacts, Locks!AddOpen(S) PROVE ValidInv'
  <2>1. cmd' = [name |-> "add", mem |-> lock, todo |-> S] /\ UNCHANGED <<lock, ledger>>
    BY <1>5 DEF Locks!AddOpen
  <2>2. cmd'.name = "add" /\ cmd'.mem = lock
    BY <2>1
  <2> QED
    BY <1>0, <1>2, <2>1, <2>2, Zenon DEF ValidInv, Locks!Valid
<1>6. ASSUME NEW S \in SUBSET LockArtifacts, Locks!openAdoptSession(S) PROVE ValidInv'
  <2>1. /\ cmd' = [name |-> "import", mem |-> lock, before |-> lock, todo |-> S, dirty |-> FALSE,
                   imported |-> {}, skipped |-> {}]
        /\ UNCHANGED <<lock, ledger>> /\ Faithful(S)
    BY <1>6, Zenon DEF Locks!openAdoptSession, Locks!Importable, Faithful
  <2>2. cmd'.name = "import" /\ cmd'.mem = lock /\ cmd'.todo = S
    BY <2>1
  <2> QED
    BY <1>0, <1>2, <2>1, <2>2, Zenon DEF ValidInv, Locks!Valid, Faithful
<1>7. ASSUME NEW a \in LockArtifacts, Locks!AddPut(a) PROVE ValidInv'
  <2>1. cmd.name = "add" /\ UNCHANGED <<lock, ledger>>
    BY <1>7 DEF Locks!AddPut
  <2>2. CASE Locks!Bound(cmd.mem, a)
    BY <1>1, <1>2, <1>7, <2>1, <2>2 DEF Locks!AddPut, Locks!Close
  <2>3. CASE ~Locks!Bound(cmd.mem, a)
    <3>1. cmd' = [cmd EXCEPT !.mem = Locks!AddBlob(@, a, StableTrack), !.todo = @ \ {a}]
      BY <1>7, <2>3 DEF Locks!AddPut
    <3>2. cmd \in Adding /\ cmd.mem \in LockFiles
      BY <2>1, Running
    <3>3. cmd'.name = "add" /\ cmd'.mem = Locks!AddBlob(cmd.mem, a, StableTrack)
      BY <3>1, <3>2 DEF Adding
    <3>4. Locks!ValidateLock(cmd'.mem)
      <4>1. Locks!ValidateLock(cmd.mem)
        BY <2>1, Zenon DEF ValidInv
      <4>2. PICK l : l = Locks!AddBlob(cmd.mem, a, StableTrack)
        OBVIOUS
      <4>3. /\ l \in LockFiles /\ l.blobs = cmd.mem.blobs \union {a}
            /\ l.placements = cmd.mem.placements \union {Locks!Place(a, StableTrack)}
        BY <3>2, <4>2, AddBlobFields, Zenon
      <4>4. Locks!ValidateLock(l)
        BY <2>3, <3>2, <4>1, <4>2, <4>3, AddedValid, Zenon
      <4> QED
        BY <3>3, <4>2, <4>4, Zenon
    <3> QED
      BY <1>2, <2>1, <3>3, <3>4, Zenon DEF ValidInv
  <2> QED
    BY <2>2, <2>3
<1>8. ASSUME NEW a \in LockArtifacts, Locks!AdoptFetchFails(a) \/ Locks!AdoptArtifact(a) PROVE ValidInv'
  <2>1. /\ cmd.name = "import" /\ a \in cmd.todo /\ cmd' \in Importing /\ cmd'.todo = cmd.todo \ {a}
        /\ UNCHANGED <<lock, ledger>>
        /\ cmd'.mem = cmd.mem \/ (~Locks!Bound(cmd.mem, a) /\ cmd'.mem = Adopted(a))
    BY <1>8, AdoptMoves, Zenon
  <2>2. cmd'.name = "import" /\ cmd.mem \in LockFiles /\ Locks!Valid(cmd.mem) /\ Faithful(cmd.todo)
    BY <2>1, Running DEF Importing, ValidInv
  <2>3. ~Locks!Bound(cmd.mem, a) => Locks!Valid(Adopted(a))
    BY <2>1, <2>2, AdoptedValid
  <2>4. Locks!Valid(cmd'.mem) /\ Faithful(cmd'.todo)
    BY <2>1, <2>2, <2>3, Zenon DEF Faithful
  <2> QED
    BY <1>2, <2>1, <2>2, <2>4, Zenon DEF ValidInv, Faithful, Locks!Valid
<1>9. CASE Locks!AddWrite
  <2>1. /\ cmd.name = "add" /\ cmd' = Locks!Idle /\ UNCHANGED ledger
        /\ lock' = lock \/ (lock' = cmd.mem /\ Locks!ValidatePublishedBindings(cmd.mem, ledger))
    BY <1>9 DEF Locks!AddWrite, Locks!Close
  <2>2. lock' = lock \/ Locks!Valid(lock')
    BY <2>1 DEF ValidInv, Locks!Valid
  <2> QED
    BY <1>1, <1>2, <2>1, <2>2
<1>10. CASE Locks!flush
  <2>1. cmd.name = "import" /\ lock' = cmd.mem /\ cmd' = [cmd EXCEPT !.dirty = FALSE] /\ UNCHANGED ledger
    BY <1>10 DEF Locks!flush
  <2>2. cmd'.name = "import" /\ cmd'.mem = cmd.mem /\ cmd'.todo = cmd.todo
    BY <2>1, Running DEF Importing
  <2> QED
    BY <2>1, <2>2 DEF ValidInv, Locks!Valid, Faithful
<1>11. ASSUME cmd' = Locks!Idle, UNCHANGED <<lock, ledger>> PROVE ValidInv'
  BY <1>1, <1>2, <1>11
<1>12. CASE Locks!ImportReports \/ Locks!ConfigureWrite \/ Locks!Crash
  BY <1>11, <1>12 DEF Locks!ImportReports, Locks!ConfigureWrite, Locks!Crash, Locks!Close
<1>13. ASSUME NEW target \in {"local", "s3"}, Locks!ConfigureOpen(target) PROVE ValidInv'
  <2>1. cmd' = [name |-> "configure", target |-> target, todo |-> lock.blobs] /\ UNCHANGED <<lock, ledger>>
    BY <1>13 DEF Locks!ConfigureOpen
  <2>2. cmd'.name = "configure"
    BY <2>1
  <2> QED
    BY <1>2, <2>1, <2>2 DEF ValidInv
<1>14. ASSUME NEW a \in LockArtifacts, Locks!ConfigureBlob(a) PROVE ValidInv'
  <2>1. cmd.name = "configure" /\ UNCHANGED <<lock, ledger>>
    BY <1>14 DEF Locks!ConfigureBlob
  <2>2. CASE cmd' = Locks!Idle
    BY <1>11, <2>1, <2>2
  <2>3. CASE cmd' = [cmd EXCEPT !.todo = @ \ {a}]
    <3>1. cmd'.name = "configure"
      BY <2>1, <2>3, Running DEF Configuring
    <3> QED
      BY <1>2, <2>1, <3>1 DEF ValidInv
  <2> QED
    BY <1>14, <2>2, <2>3 DEF Locks!ConfigureBlob, Locks!Close
<1>15. ASSUME UNCHANGED <<lock, ledger, cmd>> PROVE ValidInv'
  BY <1>15, Zenon DEF ValidInv, Locks!Valid, Faithful
<1>16. ASSUME NEW a \in LockArtifacts, Locks!ensureBlob(a) PROVE ValidInv'
  BY <1>15, <1>16 DEF Locks!ensureBlob
<1>17. CASE Locks!Clone \/ UNCHANGED Locks!vars
  BY <1>15, <1>17 DEF Locks!Clone, Locks!vars
<1> QED
  BY <1>3, <1>4, <1>5, <1>6, <1>7, <1>8, <1>9, <1>10, <1>12, <1>13, <1>14, <1>16, <1>17,
     Zenon DEF Locks!Next

(* Every step of an import keeps its report and its lock in memory in      *)
(* step, when no write to the blob cache fails.                            *)
LEMMA NextReport ==
  ASSUME "disk" \notin LockFaults, LockType, ValidInv, ReportInv, [Locks!Next]_(Locks!vars)
  PROVE  ReportInv'
<1>1. ASSUME cmd'.name # "import" PROVE ReportInv'
  BY <1>1 DEF ReportInv
<1>2. ASSUME cmd' = Locks!Idle PROVE ReportInv'
  BY <1>1, <1>2, LockAtRest
<1>3. ASSUME UNCHANGED <<lock, cmd>> PROVE ReportInv'
  BY <1>3 DEF ReportInv
<1>4. ASSUME NEW S \in SUBSET LockArtifacts, Locks!openAdoptSession(S) PROVE ReportInv'
  <2>1. /\ cmd' = [name |-> "import", mem |-> lock, before |-> lock, todo |-> S, dirty |-> FALSE,
                   imported |-> {}, skipped |-> {}]
        /\ UNCHANGED lock
    BY <1>4, Zenon DEF Locks!openAdoptSession
  <2> QED
    BY <2>1, Zenon DEF ReportInv
<1>5. ASSUME NEW a \in LockArtifacts, Locks!AdoptFetchFails(a) \/ Locks!AdoptArtifact(a) PROVE ReportInv'
  <2>1. /\ cmd.name = "import" /\ a \in cmd.todo /\ cmd' \in Importing /\ UNCHANGED lock
        /\ cmd'.todo = cmd.todo \ {a} /\ cmd'.before = cmd.before
        /\ \/ /\ cmd'.mem = cmd.mem /\ cmd'.dirty = cmd.dirty
              /\ cmd'.skipped = cmd.skipped \union {a} /\ cmd'.imported = cmd.imported
           \/ /\ cmd'.mem = Adopted(a) /\ cmd'.dirty = (cmd.dirty \/ Adopted(a) # cmd.mem)
              /\ cmd'.skipped = cmd.skipped /\ cmd'.imported = cmd.imported \union {a}
    BY <1>5, AdoptMoves, AdoptedValid, Zenon DEF ValidInv
  <2>2. /\ Adopted(a).blobs = cmd.mem.blobs \union {a} /\ Adopted(a).origin = cmd.mem.origin \union {a}
        /\ cmd \in Importing
    BY <2>1, AdoptedFields, Running, Zenon
  <2>3. ~cmd'.dirty => lock' = cmd'.mem
    BY <2>1, <2>2 DEF ReportInv, Importing
  <2>4. /\ cmd'.imported \subseteq cmd'.mem.blobs \intersect cmd'.mem.origin
        /\ cmd'.mem.blobs \subseteq cmd'.before.blobs \union cmd'.imported
    BY <2>1, <2>2, Zenon DEF ReportInv
  <2>5. /\ cmd'.skipped \intersect cmd'.imported = {}
        /\ cmd'.todo \intersect (cmd'.skipped \union cmd'.imported) = {}
    <3>1. /\ a \in cmd.todo /\ cmd.skipped \intersect cmd.imported = {}
          /\ cmd.todo \intersect (cmd.skipped \union cmd.imported) = {}
      BY <2>1, Zenon DEF ReportInv
    <3>2. \/ cmd'.skipped = cmd.skipped \union {a} /\ cmd'.imported = cmd.imported
          \/ cmd'.skipped = cmd.skipped /\ cmd'.imported = cmd.imported \union {a}
      BY <2>1, Zenon
    <3>3. ASSUME NEW x
          PROVE  /\ ~(x \in cmd'.skipped /\ x \in cmd'.imported)
                 /\ ~(x \in cmd'.todo /\ x \in cmd'.skipped \union cmd'.imported)
      BY <2>1, <3>1, <3>2, Zenon
    <3> QED
      BY <3>3, Zenon
  <2> QED
    BY <2>3, <2>4, <2>5, Zenon DEF ReportInv
<1>6. CASE Locks!flush
  <2>1. cmd.name = "import" /\ lock' = cmd.mem /\ cmd' = [cmd EXCEPT !.dirty = FALSE]
    BY <1>6 DEF Locks!flush
  <2>2. /\ cmd'.mem = cmd.mem /\ cmd'.todo = cmd.todo /\ cmd'.before = cmd.before
        /\ cmd'.imported = cmd.imported /\ cmd'.skipped = cmd.skipped
    BY <2>1, Running DEF Importing
  <2> QED
    BY <2>1, <2>2 DEF ReportInv
<1>7. CASE \/ \E v \in lock.blobs, track \in LockTracks : Locks!Promote(v, track)
           \/ \E v \in lock.blobs, track \in LockTracks \union {"all"} : Locks!Yank(v, track)
           \/ Locks!Prune
  BY <1>2, <1>7, PlacementSteps
<1>8. CASE Locks!Publish \/ Locks!AddWrite \/ Locks!ImportReports \/ Locks!ConfigureWrite \/ Locks!Crash
  BY <1>2, <1>8, Zenon DEF Locks!Publish, Locks!AddWrite, Locks!ImportReports, Locks!ConfigureWrite, Locks!Crash, Locks!Close
<1>9. ASSUME NEW S, Locks!AddOpen(S) PROVE ReportInv'
  BY <1>1, <1>9 DEF Locks!AddOpen
<1>10. ASSUME NEW target, Locks!ConfigureOpen(target) PROVE ReportInv'
  BY <1>1, <1>10 DEF Locks!ConfigureOpen
<1>11. ASSUME NEW a, Locks!AddPut(a) PROVE ReportInv'
  <2>1. cmd.name = "add" /\ cmd \in Adding
    BY <1>11, Running DEF Locks!AddPut
  <2>2. CASE Locks!Bound(cmd.mem, a)
    BY <1>2, <1>11, <2>2 DEF Locks!AddPut, Locks!Close
  <2>3. CASE ~Locks!Bound(cmd.mem, a)
    <3>1. cmd'.name = "add"
      BY <1>11, <2>1, <2>3, Zenon DEF Locks!AddPut, Adding
    <3> QED
      BY <1>1, <3>1
  <2> QED
    BY <2>2, <2>3
<1>12. ASSUME NEW a, Locks!ConfigureBlob(a) PROVE ReportInv'
  <2>1. cmd.name = "configure" /\ cmd \in Configuring
    BY <1>12, Running DEF Locks!ConfigureBlob
  <2>2. CASE ~Locks!Reachable(a)
    BY <1>2, <1>12, <2>2 DEF Locks!ConfigureBlob, Locks!Close
  <2>3. CASE Locks!Reachable(a)
    <3>1. cmd'.name = "configure"
      BY <1>12, <2>1, <2>3 DEF Locks!ConfigureBlob, Configuring
    <3> QED
      BY <1>1, <3>1
  <2> QED
    BY <2>2, <2>3
<1>13. ASSUME NEW a, Locks!ensureBlob(a) PROVE ReportInv'
  BY <1>3, <1>13 DEF Locks!ensureBlob
<1>14. CASE Locks!Clone \/ UNCHANGED Locks!vars
  BY <1>3, <1>14 DEF Locks!Clone, Locks!vars
<1> QED
  BY <1>4, <1>5, <1>6, <1>7, <1>8, <1>9, <1>10, <1>11, <1>12, <1>13, <1>14, Zenon DEF Locks!Next

LEMMA StoreAlways == Locks!Spec => [](LockType /\ StoreInv)
BY InitLock, NextStore, PTL DEF Locks!Spec

LEMMA ValidAlways ==
  ASSUME ~IndexGrows
  PROVE  Locks!Spec => []ValidInv
BY StoreAlways, InitLock, NextValid, PTL DEF Locks!Spec

(* THEOREM: with a shared blob store configured every locked artifact is   *)
(* in it, for any artifacts and any number of commands, whatever died      *)
(* between the blobs, the lock and the manifest: AddArtifacts puts before  *)
(* it writes the lock, ConfigureBlobStore before it writes the manifest.   *)
THEOREM StoreAlwaysHoldsLock == Locks!Spec => []StoreHoldsLock
<1>1. StoreInv => StoreHoldsLock
  BY DEF StoreInv, StoreHoldsLock
<1> QED
  BY <1>1, StoreAlways, PTL

(* THEOREM: when an index lists no new artifact of a published version, no *)
(* command, finished or interrupted, leaves a lock that the next command   *)
(* refuses to open, import sessions that write at checkpoints included.    *)
THEOREM WrittenLocksAreValid ==
  ASSUME ~IndexGrows
  PROVE  Locks!Spec => []WrittenLockValid
<1>1. ValidInv => WrittenLockValid
  BY DEF ValidInv, WrittenLockValid, Locks!WrittenLockValid
<1> QED
  BY <1>1, ValidAlways, PTL

(* THEOREM: when besides no write to the blob cache fails, everything an   *)
(* import reports as imported is in the lock file with its origin, and     *)
(* nothing it reports as skipped was added, whichever fetches failed and   *)
(* wherever the checkpoints fell.                                          *)
THEOREM ImportReportsTheLock ==
  ASSUME ~IndexGrows, "disk" \notin LockFaults
  PROVE  Locks!Spec => ImportReported
<1>1. Locks!Spec => []ReportInv
  BY StoreAlways, ValidAlways, InitLock, NextReport, PTL DEF Locks!Spec
<1>2. LockType /\ ReportInv /\ [Locks!Next]_(Locks!vars) => Locks!ImportReported
  <2> SUFFICES ASSUME LockType, ReportInv, [Locks!Next]_(Locks!vars), last' = "import", cmd' = Locks!Idle, cmd # Locks!Idle,
                      cmd.name = "import"
               PROVE  /\ cmd.imported \subseteq lock'.blobs \intersect lock'.origin
                      /\ cmd.skipped \intersect lock'.blobs \subseteq cmd.before.blobs
    BY DEF Locks!ImportReported
  <2>1. cmd \in Importing /\ cmd'.name # "import"
    BY Running, LockAtRest
  <2>3. ASSUME Locks!Open \/ Locks!OpenWithoutLedger PROVE FALSE
    BY <2>3, Zenon DEF Locks!Open, Locks!OpenWithoutLedger
  <2>4. CASE Locks!ImportReports
    <3>1. lock' = lock /\ ~cmd.dirty
      BY <2>4 DEF Locks!ImportReports
    <3> QED
      BY <3>1 DEF ReportInv
  <2>5. ASSUME NEW v, NEW track, Locks!Promote(v, track) \/ Locks!Yank(v, track) \/ Locks!Prune \/ Locks!Publish PROVE FALSE
    BY <2>3, <2>5 DEF Locks!Promote, Locks!Yank, Locks!Prune, Locks!Publish, Locks!Rewrite
  <2>6. ASSUME NEW S, Locks!AddOpen(S) \/ Locks!openAdoptSession(S) \/ Locks!ConfigureOpen(S) PROVE FALSE
    BY <2>3, <2>6, Zenon DEF Locks!AddOpen, Locks!openAdoptSession, Locks!ConfigureOpen
  <2>7. ASSUME NEW a \in LockArtifacts, Locks!AdoptFetchFails(a) \/ Locks!AdoptArtifact(a) PROVE FALSE
    BY <2>1, <2>7, AdoptMoves DEF Importing
  <2>8. ASSUME NEW a, Locks!AddPut(a) \/ Locks!ConfigureBlob(a) \/ Locks!AddWrite \/ Locks!ConfigureWrite \/ Locks!Crash PROVE FALSE
    BY <2>8 DEF Locks!AddPut, Locks!ConfigureBlob, Locks!AddWrite, Locks!ConfigureWrite, Locks!Crash
  <2>9. ~Locks!flush
    BY <2>1 DEF Locks!flush, Importing
  <2>10. ASSUME NEW a, Locks!ensureBlob(a) \/ Locks!Clone \/ UNCHANGED Locks!vars PROVE FALSE
    BY <2>10 DEF Locks!ensureBlob, Locks!Clone, Locks!vars
  <2> QED
    BY <2>4, <2>5, <2>6, <2>7, <2>8, <2>9, <2>10, Zenon DEF Locks!Next
<1>3. [Locks!Next]_(Locks!vars) /\ Locks!ImportReported => [part = "locks" => Locks!ImportReported]_<<part, faults, lockVars>>
  OBVIOUS
<1> QED
  BY <1>1, <1>2, <1>3, StoreAlways, PTL DEF Locks!Spec, ImportReported
=============================================================================
