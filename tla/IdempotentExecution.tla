------------------------ MODULE IdempotentExecution ------------------------
(***************************************************************************)
(* What the Runner promises of an idempotency key: at any moment the key   *)
(* is free, claimed by one run, or answered by one recorded run.  A run    *)
(* claims a free key only; the claim ends in a record or in a release; a   *)
(* record stays until it is forgotten, and no run starts before that.      *)
(***************************************************************************)
CONSTANTS Key, Run, None

VARIABLE holder   \* who holds each key: nobody, or a run and what it is doing

Holder == [run : Run, status : {"running", "recorded"}]

HolderTypeOK == holder \in [Key -> Holder \cup {None}]

Init == holder = [k \in Key |-> None]

Is(k, status) == holder[k] # None /\ holder[k].status = status

\* A run that holds no key claims a free one.
Begin(k, r) ==
  /\ holder[k] = None
  /\ \A j \in Key : holder[j] # None => holder[j].run # r
  /\ holder' = [holder EXCEPT ![k] = [run |-> r, status |-> "running"]]

\* The final result of the run is recorded: it will be replayed.
Record(k) ==
  /\ Is(k, "running")
  /\ holder' = [holder EXCEPT ![k].status = "recorded"]

\* Claims end without a record: a failure, a retryable result, a restart.
Release(K) ==
  /\ \A k \in K : Is(k, "running")
  /\ holder' = [k \in Key |-> IF k \in K THEN None ELSE holder[k]]

Forget(k) ==
  /\ Is(k, "recorded")
  /\ holder' = [holder EXCEPT ![k] = None]

Next ==
  \/ \E k \in Key : Record(k) \/ Forget(k) \/ \E r \in Run : Begin(k, r)
  \/ \E K \in SUBSET Key : Release(K)

Spec == Init /\ [][Next]_holder
=============================================================================
