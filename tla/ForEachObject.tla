--------------------------- MODULE ForEachObject ---------------------------
(***************************************************************************)
(* The worker pool of the object-store host, adapters/host/s3/parallel.go. *)
(*                                                                         *)
(* forEachObject runs work over the indices 0 .. count-1 with at most      *)
(* Workers goroutines.  A dispatcher hands indices out in order over an    *)
(* unbuffered channel and stops as soon as it sees that something failed   *)
(* or that the caller gave up; requests in flight are left to finish.      *)
(* Stage, materializeRelease and Observe all go through it, so "it         *)
(* returned nil" is what makes them believe a whole tree was uploaded,     *)
(* copied or found present.                                                *)
(***************************************************************************)
EXTENDS Integers

CONSTANTS MaxCount,   \* bound on the number of objects of one call
          Workers     \* the goroutines: min(defaultObjectConcurrency, count)

ASSUME CountAssumption == MaxCount \in Nat
ASSUME WorkersAssumption == Workers # {}

NoIndex == -1
NoError == [kind |-> "nil", at |-> NoIndex]
WorkError(i) == [kind |-> "work", at |-> i]
CtxError == [kind |-> "ctx", at |-> NoIndex]

VARIABLES
  count,       \* the number of objects of this call
  broken,      \* the indices whose request fails: fixed by the objects, not by the schedule
  cancelled,   \* ctx.Err() # nil
  next,        \* the index the dispatcher is at
  dispatcher,  \* "check", "send", "wait" or "returned"
  at,          \* worker -> the index it works on, or NoIndex
  pending,     \* the workers that recorded an error and have not yet set `failed'
  finished,    \* indices whose work returned
  errs,        \* the recorded errors, by index
  failed,      \* the shared atomic flag
  result       \* what forEachObject returned

vars == <<count, broken, cancelled, next, dispatcher, at, pending, finished, errs, failed, result>>
call == <<count, broken>>
worker == <<at, pending, finished, errs, failed>>

----------------------------------------------------------------------------

Index == 0 .. (count - 1)
Errors == {NoError, CtxError} \union {WorkError(i) : i \in Index}

Init ==
  /\ count \in 0 .. MaxCount
  /\ broken \in SUBSET Index
  /\ cancelled \in BOOLEAN
  /\ next = 0
  /\ dispatcher = IF count \in {0, 1} THEN "direct" ELSE "check"
  /\ at = [w \in Workers |-> NoIndex]
  /\ pending = {}
  /\ finished = {}
  /\ errs = [i \in Index |-> NoError]
  /\ failed = FALSE
  /\ result = NoError

(* What a request returns.  A request made with a cancelled context may    *)
(* fail for that reason alone, or may still have been answered.            *)
Outcomes(i) ==
  (IF i \in broken THEN {WorkError(i)} ELSE {NoError})
    \union (IF cancelled THEN {CtxError} ELSE {})

(* count = 0 returns nil; count = 1 is a plain call, with no look at ctx.  *)
Direct ==
  /\ dispatcher = "direct"
  /\ IF count = 0 THEN UNCHANGED <<result, finished>>
     ELSE \E e \in Outcomes(0) : result' = e /\ finished' = {0}
  /\ dispatcher' = "returned"
  /\ UNCHANGED <<call, cancelled, next, at, pending, errs, failed>>

(* The loop head: stop when a failure has been seen or the caller gave up. *)
Check ==
  /\ dispatcher = "check"
  /\ dispatcher' = IF next = count \/ failed \/ cancelled THEN "wait" ELSE "send"
  /\ UNCHANGED <<call, cancelled, next, worker, result>>

(* next <- index: the unbuffered send meets a worker that is receiving.    *)
Dispatch(w) ==
  /\ dispatcher = "send"
  /\ at[w] = NoIndex
  /\ at' = [at EXCEPT ![w] = next]
  /\ next' = next + 1
  /\ dispatcher' = "check"
  /\ UNCHANGED <<call, cancelled, pending, finished, errs, failed, result>>

(* work(ctx, index) returns; an error is recorded in errs[index] first.    *)
WorkReturns(w) ==
  /\ at[w] # NoIndex /\ w \notin pending
  /\ \E e \in Outcomes(at[w]) :
       IF e = NoError
       THEN /\ at' = [at EXCEPT ![w] = NoIndex]
            /\ UNCHANGED <<pending, errs>>
       ELSE /\ pending' = pending \union {w}
            /\ errs' = [errs EXCEPT ![at[w]] = e]
            /\ UNCHANGED at
  /\ finished' = finished \union {at[w]}
  /\ UNCHANGED <<call, cancelled, next, dispatcher, failed, result>>

(* failed.Store(true), after the error was recorded.                       *)
StoreFailed(w) ==
  /\ w \in pending
  /\ failed' = TRUE
  /\ pending' = pending \ {w}
  /\ at' = [at EXCEPT ![w] = NoIndex]
  /\ UNCHANGED <<call, cancelled, next, dispatcher, finished, errs, result>>

\* Mutation: errs is scanned from the end.
LastReported ==
  {k \in Index : errs[k] # NoError /\ \A j \in Index : j > k => errs[j] = NoError}

(* The index at which the final scan of errs stops, if any.                *)
Reported ==
  {k \in Index : errs[k] # NoError /\ \A j \in 0 .. (k - 1) : errs[j] = NoError}

\* Mutation: the trailing `return ctx.Err()' is `return nil'.
ReturnNil ==
  /\ dispatcher = "wait"
  /\ \A w \in Workers : at[w] = NoIndex
  /\ \/ \E k \in Reported : result' = errs[k]
     \/ (\A i \in Index : errs[i] = NoError) /\ result' = NoError
  /\ dispatcher' = "returned"
  /\ UNCHANGED <<call, cancelled, next, worker>>

\* Mutation: the wait is for every index instead of for every worker.
ReturnAfterAll ==
  /\ dispatcher = "wait"
  /\ finished = Index
  /\ \/ \E k \in Reported : result' = errs[k]
     \/ (\A i \in Index : errs[i] = NoError) /\ result' = (IF cancelled THEN CtxError ELSE NoError)
  /\ dispatcher' = "returned"
  /\ UNCHANGED <<call, cancelled, next, worker>>

(* Every worker is done: the first recorded error, else ctx.Err().         *)
Return ==
  /\ dispatcher = "wait"
  /\ \A w \in Workers : at[w] = NoIndex
  /\ \/ \E k \in Reported : result' = errs[k]
     \/ (\A i \in Index : errs[i] = NoError) /\ result' = (IF cancelled THEN CtxError ELSE NoError)
  /\ dispatcher' = "returned"
  /\ UNCHANGED <<call, cancelled, next, worker>>

(* The caller's context ends: a signal, a deadline.                        *)
Cancel ==
  /\ ~cancelled /\ dispatcher # "returned"
  /\ cancelled' = TRUE
  /\ UNCHANGED <<call, next, dispatcher, worker, result>>

Next ==
  \/ Direct \/ Check \/ Return \/ Cancel
  \/ \E w \in Workers : Dispatch(w) \/ WorkReturns(w) \/ StoreFailed(w)

Spec == Init /\ [][Next]_vars

(* The dispatcher and the goroutines are scheduled by the Go runtime and    *)
(* every request ends; nothing obliges the caller to cancel.               *)
Fairness ==
  /\ WF_vars(Direct \/ Check \/ Return)
  /\ \A w \in Workers : WF_vars(Dispatch(w)) /\ WF_vars(WorkReturns(w)) /\ WF_vars(StoreFailed(w))

FairSpec == Spec /\ Fairness

----------------------------------------------------------------------------

(* The pool's state is well formed.                                        *)
TypeOK ==
  /\ count \in 0 .. MaxCount
  /\ broken \subseteq Index
  /\ cancelled \in BOOLEAN
  /\ next \in 0 .. count
  /\ dispatcher \in {"direct", "check", "send", "wait", "returned"}
  /\ at \in [Workers -> Index \union {NoIndex}]
  /\ pending \subseteq Workers
  /\ finished \subseteq Index
  /\ errs \in [Index -> Errors]
  /\ failed \in BOOLEAN
  /\ result \in Errors

(* A nil result means that the work on every index returned and succeeded: *)
(* an upload, a copy or a presence check never reports success for a tree  *)
(* of which part was skipped, whatever failed or was cancelled meanwhile.  *)
NilMeansAll ==
  (dispatcher = "returned" /\ result = NoError) => (finished = Index /\ broken = {})

(* Unless the caller cancels, the reported error is the one of the lowest  *)
(* index that fails, "reported identically no matter which request lost    *)
(* the race" (parallel.go:17).                                             *)
LowestFailure ==
  (dispatcher = "returned" /\ ~cancelled /\ broken # {}) =>
    \E i \in broken : result = WorkError(i) /\ \A j \in broken : i <= j

(* The pool always returns: a worker that fails never leaves the           *)
(* dispatcher blocked on its send.                                         *)
Returns == <>(dispatcher = "returned")

============================================================================
