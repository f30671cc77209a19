----------------------------- MODULE RunnerRuns -----------------------------
(***************************************************************************)
(* Invocations of the Runner: RunnerService.invoke and cancel (service.py) *)
(* over the idempotency claims and the audit rows RunnerDB keeps in        *)
(* PostgreSQL (state.py), with crashes and restarts of the process.        *)
(*                                                                         *)
(* Every gRPC handler thread serves one call at a time.  An action is one  *)
(* database transaction, one section under _active_lock, or one call to    *)
(* the worker pool.  The pool is abstract: acquire hands out a sandbox of  *)
(* its own to every run (WorkerPool!ExclusiveOwnership) or raises.  The    *)
(* operator's code keeps executing in its sandbox until it ends or the     *)
(* sandbox is deleted, whatever becomes of the call or of the process.     *)
(*                                                                         *)
(* Abstractions.  Leases, payloads and error codes are left out; a result  *)
(* is final or retryable.  Clocks are flags: a replayable result may have  *)
(* expired, and a finished audit row may be old enough to be purged at any *)
(* time.  A run id is used again once nothing refers to it.                *)
(***************************************************************************)
CONSTANTS
  Call,           \* gRPC handler threads, each serving one Invoke at a time
  Key,            \* (tenant, release, idempotency key)
  Digest,          \* request fingerprints
  Run,            \* run ids
  Invocation,
  InvocationOf,   \* [Call -> Invocation], the id the client gives the attempt
  DbFaults,       \* TRUE: a transaction may raise, before or after its commit
  DeleteFaults,   \* TRUE: the deletion of a sandbox may fail
  CancelFaults,   \* TRUE: the cancel request to a sandbox may fail
  None

Request == Key \X Digest

\* Rows of runner.idempotency_keys and of runner.runs.
Claim == [state : {"RUNNING", "DONE"}, digest : Digest, run : Run,
          replayable : BOOLEAN, expired : BOOLEAN]
Audit == [state : {"RUNNING", "DONE", "ABANDONED"}, key : Key]

ASSUME ConstantsAssumption ==
  /\ InvocationOf \in [Call -> Invocation]
  /\ None \notin Call \cup Run \cup Request \cup Claim \cup Audit
  /\ None \notin [run : Run, status : {"running", "recorded"}]
  /\ DbFaults \in BOOLEAN /\ DeleteFaults \in BOOLEAN /\ CancelFaults \in BOOLEAN

VARIABLES
  server,      \* phase of the process: down, then the steps of startup
  pc, req, run, final,   \* the calls: location, request, run id, kind of result
  active,      \* RunnerService._active: the call registered for an invocation
  claims,      \* the table runner.idempotency_keys
  runs,        \* the table runner.runs
  executing,   \* runs whose operator code executes in a sandbox
  condemned    \* those whose sandbox a failed cancel has marked destroyed

callVars == <<pc, req, run, final>>
dbVars == <<claims, runs>>
boxVars == <<executing, condemned>>
vars == <<server, callVars, active, dbVars, boxVars>>

\* Locations of a call that owns a claim, in the order invoke visits them.
Owning == {"acquire", "register", "run", "finish", "invalidate", "abandon"}
Location == Owning \cup {"out", "begin", "insert", "leave"}

TypeOK ==
  /\ server \in {"down", "reset", "purge", "serving"}
  /\ pc \in [Call -> Location]
  /\ req \in [Call -> Request \cup {None}]
  /\ run \in [Call -> Run \cup {None}]
  /\ final \in [Call -> BOOLEAN]
  /\ active \in [Invocation -> Call \cup {None}]
  /\ claims \in [Key -> Claim \cup {None}]
  /\ runs \in [Run -> Audit \cup {None}]
  /\ executing \subseteq Run
  /\ condemned \subseteq executing
  /\ \A c \in Call : /\ req[c] # None <=> pc[c] # "out"
                     /\ run[c] # None <=> pc[c] \in Owning \cup {"leave"}

Init ==
  /\ server = "down"
  /\ pc = [c \in Call |-> "out"]
  /\ req = [c \in Call |-> None]
  /\ run = [c \in Call |-> None]
  /\ final = [c \in Call |-> FALSE]
  /\ active = [i \in Invocation |-> None]
  /\ claims = [k \in Key |-> None]
  /\ runs = [r \in Run |-> None]
  /\ executing = {}
  /\ condemned = {}

Goto(c, from, to) ==
  /\ pc[c] = from
  /\ pc' = [pc EXCEPT ![c] = to]

KeyOf(c) == req[c][1]
DigestOf(c) == req[c][2]

InState(k, s) == claims[k] # None /\ claims[k].state = s

\* A claim whose result begin_run replays.
Cached(k) == InState(k, "DONE") /\ claims[k].replayable /\ ~claims[k].expired

\* The claim of key k by run r, as the WHERE clauses of finish and abandon ask.
Holds(k, r) == InState(k, "RUNNING") /\ claims[k].run = r

Live(r) == runs[r] # None /\ runs[r].state = "RUNNING"

Unused(r) ==
  /\ runs[r] = None
  /\ r \notin executing
  /\ \A k \in Key : claims[k] # None => claims[k].run # r
  /\ \A c \in Call : run[c] # r

EndExecution(r) ==
  /\ executing' = executing \ {r}
  /\ condemned' = condemned \ {r}

-----------------------------------------------------------------------------
(***************************************************************************)
(* begin_run.  SELECT ... FOR UPDATE locks an existing row up to the end   *)
(* of the transaction; an absent row locks nothing, and the INSERT comes   *)
(* in a step of its own.                                                   *)
(***************************************************************************)
Invoke(c, q) ==
  /\ Goto(c, "out", "begin")
  /\ server = "serving"
  /\ active[InvocationOf[c]] = None
  /\ req' = [req EXCEPT ![c] = q]
  /\ UNCHANGED <<server, run, final, active, dbVars, boxVars>>

\* IDEMPOTENCY_CONFLICT, RUN_IN_PROGRESS or the cached result: invoke ends
\* outside of its try block.
BeginAnswered(c) ==
  /\ Goto(c, "begin", "out")
  /\ claims[KeyOf(c)] # None
  /\ \/ claims[KeyOf(c)].digest # DigestOf(c)
     \/ InState(KeyOf(c), "RUNNING")
     \/ Cached(KeyOf(c))
  /\ req' = [req EXCEPT ![c] = None]
  /\ UNCHANGED <<server, run, final, active, dbVars, boxVars>>

BeginFindsNoRow(c) ==
  /\ Goto(c, "begin", "insert")
  /\ claims[KeyOf(c)] = None
  /\ UNCHANGED <<server, req, run, final, active, dbVars, boxVars>>

\* The transaction commits the claim and the audit row.  The call owns them,
\* or it lost the connection and raises: nobody will end that run.
ClaimKey(c, from) ==
  \E r \in Run :
    /\ Unused(r)
    /\ claims' = [claims EXCEPT ![KeyOf(c)] =
         [state |-> "RUNNING", digest |-> DigestOf(c), run |-> r,
          replayable |-> FALSE, expired |-> FALSE]]
    /\ runs' = [runs EXCEPT ![r] = [state |-> "RUNNING", key |-> KeyOf(c)]]
    /\ \/ /\ Goto(c, from, "acquire")
          /\ run' = [run EXCEPT ![c] = r]
          /\ UNCHANGED req
       \/ /\ DbFaults
          /\ Goto(c, from, "out")
          /\ req' = [req EXCEPT ![c] = None]
          /\ UNCHANGED run
    /\ UNCHANGED <<server, final, active, boxVars>>

\* Mutant: the state RUNNING is not refused.
MutBeginAgain(c) ==
  /\ pc[c] = "begin"
  /\ claims[KeyOf(c)] # None
  /\ claims[KeyOf(c)].digest = DigestOf(c)
  /\ ~Cached(KeyOf(c))
  /\ ClaimKey(c, "begin")

BeginAgain(c) ==
  /\ pc[c] = "begin"
  /\ InState(KeyOf(c), "DONE")
  /\ claims[KeyOf(c)].digest = DigestOf(c)
  /\ ~Cached(KeyOf(c))
  /\ ClaimKey(c, "begin")

\* Mutant: INSERT ... ON CONFLICT DO UPDATE.
MutBeginInsert(c) ==
  /\ pc[c] = "insert"
  /\ ClaimKey(c, "insert")

BeginInsert(c) ==
  /\ pc[c] = "insert"
  /\ claims[KeyOf(c)] = None
  /\ ClaimKey(c, "insert")

\* The primary key is taken by now: the INSERT raises.
InsertCollides(c) ==
  /\ Goto(c, "insert", "out")
  /\ claims[KeyOf(c)] # None
  /\ req' = [req EXCEPT ![c] = None]
  /\ UNCHANGED <<server, run, final, active, dbVars, boxVars>>

-----------------------------------------------------------------------------
(***************************************************************************)
(* The try block of invoke                                                 *)
(***************************************************************************)
AcquireSucceeds(c) ==
  /\ Goto(c, "acquire", "register")
  /\ UNCHANGED <<server, req, run, final, active, dbVars, boxVars>>

\* Mutant: acquire is outside of the try block.
MutAcquireFails(c) ==
  /\ Goto(c, "acquire", "leave")
  /\ UNCHANGED <<server, req, run, final, active, dbVars, boxVars>>

AcquireFails(c) ==
  /\ Goto(c, "acquire", "abandon")
  /\ UNCHANGED <<server, req, run, final, active, dbVars, boxVars>>

\* Under _active_lock; the sandbox then starts the operator.
Register(c) ==
  /\ Goto(c, "register", "run")
  /\ active[InvocationOf[c]] = None
  /\ active' = [active EXCEPT ![InvocationOf[c]] = c]
  /\ executing' = executing \cup {run[c]}
  /\ UNCHANGED <<server, req, run, final, dbVars, condemned>>

\* "invocation id became active concurrently": the fresh worker is destroyed.
RegisterRefused(c) ==
  /\ Goto(c, "register", "abandon")
  /\ active[InvocationOf[c]] # None
  /\ UNCHANGED <<server, req, run, final, active, dbVars, boxVars>>

RunReturns(c) ==
  /\ Goto(c, "run", "finish")
  /\ \E f \in BOOLEAN : final' = [final EXCEPT ![c] = f]
  /\ EndExecution(run[c])
  /\ UNCHANGED <<server, req, run, active, dbVars>>

\* Mutant: the run is abandoned and the worker left alone.
MutRunRaises(c) ==
  /\ Goto(c, "run", "abandon")
  /\ EndExecution(run[c]) \/ UNCHANGED boxVars
  /\ UNCHANGED <<server, req, run, final, active, dbVars>>

\* backend.run raised, or its result is not acceptable.  After a transport
\* failure the operator may well be executing still.
RunRaises(c) ==
  /\ Goto(c, "run", "invalidate")
  /\ EndExecution(run[c]) \/ UNCHANGED boxVars
  /\ UNCHANGED <<server, req, run, final, active, dbVars>>

\* finish_run changes the two rows of the run or none: when a row is missing
\* it raises RUN_STATE_LOST or IDEMPOTENCY_STATE_LOST and rolls back.
Finished(c) == Holds(KeyOf(c), run[c]) /\ Live(run[c])

RecordResult(c) ==
  /\ claims' = [claims EXCEPT ![KeyOf(c)].state = "DONE",
                              ![KeyOf(c)].replayable = final[c],
                              ![KeyOf(c)].expired = ~final[c]]
  /\ runs' = [runs EXCEPT ![run[c]].state = "DONE"]

\* The result is returned; what happens to the worker then is the pool's.
FinishRun(c) ==
  /\ Goto(c, "finish", IF Finished(c) THEN "leave" ELSE "invalidate")
  /\ IF Finished(c) THEN RecordResult(c) ELSE UNCHANGED dbVars
  /\ UNCHANGED <<server, req, run, final, active, boxVars>>

FinishRaises(c) ==
  /\ Goto(c, "finish", "invalidate")
  /\ DbFaults
  /\ (Finished(c) /\ RecordResult(c)) \/ UNCHANGED dbVars
  /\ UNCHANGED <<server, req, run, final, active, boxVars>>

\* pool.invalidate deletes the sandbox.  It returns at once when a cancel has
\* set the destroyed flag already, and its errors are logged only.
InvalidateWorker(c) ==
  /\ Goto(c, "invalidate", "abandon")
  /\ \/ run[c] \notin condemned /\ EndExecution(run[c])
     \/ (run[c] \in condemned \/ DeleteFaults) /\ UNCHANGED boxVars
  /\ UNCHANGED <<server, req, run, final, active, dbVars>>

\* Mutant: the claim is deleted whichever run holds it.
MutReleaseClaim(c) ==
  /\ runs' = IF Live(run[c]) THEN [runs EXCEPT ![run[c]].state = "ABANDONED"] ELSE runs
  /\ claims' = [claims EXCEPT ![KeyOf(c)] = None]

\* abandon_run: each statement has a WHERE clause of its own.
ReleaseClaim(c) ==
  /\ runs' = IF Live(run[c]) THEN [runs EXCEPT ![run[c]].state = "ABANDONED"] ELSE runs
  /\ claims' = IF Holds(KeyOf(c), run[c]) THEN [claims EXCEPT ![KeyOf(c)] = None] ELSE claims

AbandonRun(c) ==
  /\ Goto(c, "abandon", "leave")
  /\ ReleaseClaim(c) \/ (DbFaults /\ UNCHANGED dbVars)
  /\ UNCHANGED <<server, req, run, final, active, boxVars>>

\* The finally block pops the invocation, whoever registered it.
Leave(c) ==
  /\ Goto(c, "leave", "out")
  /\ active' = [active EXCEPT ![InvocationOf[c]] = None]
  /\ req' = [req EXCEPT ![c] = None]
  /\ run' = [run EXCEPT ![c] = None]
  /\ final' = [final EXCEPT ![c] = FALSE]
  /\ UNCHANGED <<server, dbVars, boxVars>>

-----------------------------------------------------------------------------
(***************************************************************************)
(* RunnerService.cancel when its request to the sandbox fails: the worker  *)
(* it had looked up is marked destroyed and deleted in a later step.       *)
(***************************************************************************)
CancelFails(c) ==
  /\ CancelFaults
  /\ pc[c] \in {"run", "invalidate"}
  /\ run[c] \in executing \ condemned
  /\ condemned' = condemned \cup {run[c]}
  /\ UNCHANGED <<server, callVars, active, dbVars, executing>>

\* The cancel thread deletes the sandbox, or the operator ends on its own.
ExecutionEnds(r) ==
  /\ r \in executing
  /\ EndExecution(r)
  /\ UNCHANGED <<server, callVars, active, dbVars>>

-----------------------------------------------------------------------------
(***************************************************************************)
(* Maintenance: the loop of start_background, and time.                    *)
(***************************************************************************)
Expire(k) ==
  /\ Cached(k)
  /\ claims' = [claims EXCEPT ![k].expired = TRUE]
  /\ UNCHANGED <<server, callVars, active, runs, boxVars>>

Expired(k) == InState(k, "DONE") /\ claims[k].expired

\* purge_expired_idempotency
PurgeClaims ==
  claims' = [k \in Key |-> IF Expired(k) THEN None ELSE claims[k]]

PurgeExpired ==
  /\ server = "serving"
  /\ \E k \in Key : Expired(k)
  /\ PurgeClaims
  /\ UNCHANGED <<server, callVars, active, runs, boxVars>>

\* purge_old_runs: a finished row goes, old enough or not, unless a claim
\* that has not expired answers with it.
Purgeable(r) ==
  /\ runs[r] # None /\ runs[r].state # "RUNNING"
  /\ \A k \in Key : InState(k, "DONE") /\ claims[k].run = r => claims[k].expired

PurgeOldRuns ==
  /\ server = "serving"
  /\ \E old \in SUBSET {r \in Run : Purgeable(r)} :
       /\ old # {}
       /\ runs' = [r \in Run |-> IF r \in old THEN None ELSE runs[r]]
  /\ UNCHANGED <<server, callVars, active, claims, boxVars>>

-----------------------------------------------------------------------------
(***************************************************************************)
(* The process dies at any point; its sandboxes and the database stay.     *)
(* startup cleans up in this order before the gateway serves.              *)
(***************************************************************************)
Crash ==
  /\ server # "down"
  /\ server' = "down"
  /\ pc' = [c \in Call |-> "out"]
  /\ req' = [c \in Call |-> None]
  /\ run' = [c \in Call |-> None]
  /\ final' = [c \in Call |-> FALSE]
  /\ active' = [i \in Invocation |-> None]
  /\ condemned' = {}
  /\ UNCHANGED <<dbVars, executing>>

\* pool.reset_after_restart; the failure of a deletion is only logged.
CleanSandboxes ==
  /\ server = "down"
  /\ server' = "reset"
  /\ executing' \in IF DeleteFaults THEN SUBSET executing ELSE {{}}
  /\ UNCHANGED <<callVars, active, dbVars, condemned>>

\* Mutant: only the audit rows are reset.
MutResetRunning ==
  /\ server = "reset"
  /\ server' = "purge"
  /\ runs' = [r \in Run |-> IF Live(r) THEN [runs[r] EXCEPT !.state = "ABANDONED"] ELSE runs[r]]
  /\ UNCHANGED <<callVars, active, claims, boxVars>>

\* db.reset_running
ResetRunning ==
  /\ server = "reset"
  /\ server' = "purge"
  /\ runs' = [r \in Run |-> IF Live(r) THEN [runs[r] EXCEPT !.state = "ABANDONED"] ELSE runs[r]]
  /\ claims' = [k \in Key |-> IF InState(k, "RUNNING") THEN None ELSE claims[k]]
  /\ UNCHANGED <<callVars, active, boxVars>>

StartupPurge ==
  /\ server = "purge"
  /\ server' = "serving"
  /\ PurgeClaims
  /\ UNCHANGED <<callVars, active, runs, boxVars>>

-----------------------------------------------------------------------------
BeginStep(c) ==
  \/ BeginAnswered(c) \/ BeginFindsNoRow(c) \/ BeginAgain(c)
  \/ BeginInsert(c) \/ InsertCollides(c)

RunStep(c) ==
  \/ AcquireSucceeds(c) \/ AcquireFails(c) \/ Register(c) \/ RegisterRefused(c)
  \/ RunReturns(c) \/ RunRaises(c) \/ FinishRun(c) \/ FinishRaises(c)
  \/ InvalidateWorker(c) \/ AbandonRun(c) \/ Leave(c)

Startup == CleanSandboxes \/ ResetRunning \/ StartupPurge

Next ==
  \/ \E c \in Call :
       \/ \E q \in Request : Invoke(c, q)
       \/ BeginStep(c) \/ RunStep(c) \/ CancelFails(c)
  \/ \E r \in Run : ExecutionEnds(r)
  \/ \E k \in Key : Expire(k)
  \/ PurgeExpired \/ PurgeOldRuns
  \/ Crash \/ Startup

Spec == Init /\ [][Next]_vars

(***************************************************************************)
(* A call that owns a claim goes on: acquire, run and the database have    *)
(* timeouts.  A restarted process gets through its startup in the end.     *)
(***************************************************************************)
Fairness ==
  /\ \A c \in Call : WF_vars(RunStep(c))
  /\ WF_vars(CleanSandboxes) /\ SF_vars(ResetRunning) /\ WF_vars(StartupPurge)

FairSpec == Spec /\ Fairness

-----------------------------------------------------------------------------
(***************************************************************************)
(* Safety                                                                  *)
(***************************************************************************)

\* Two executions of one key never overlap, whatever crashes, retries and
\* database errors do: the claim of a run is released only after its sandbox
\* is gone (invalidate before abandon_run, cleanup_managed before
\* reset_running).
AtMostOneExecution ==
  \A r, s \in executing :
    r # s /\ runs[r] # None /\ runs[s] # None => runs[r].key # runs[s].key

\* The same, as long as sandboxes can be deleted and cancel requests arrive.
NoOverlap == ~DeleteFaults /\ ~CancelFaults => AtMostOneExecution

\* The two tables agree: a key is claimed by a run that is RUNNING in the
\* audit table for that key, every RUNNING row has its claim, and the audit
\* row behind a replayable result is there as long as the result is replayed.
TablesAgree ==
  /\ \A k \in Key : InState(k, "RUNNING") => Live(claims[k].run) /\ runs[claims[k].run].key = k
  /\ \A r \in Run : Live(r) => Holds(runs[r].key, r)
  /\ \A k \in Key : Cached(k) =>
       LET row == runs[claims[k].run] IN row # None /\ row.state = "DONE" /\ row.key = k

\* RUN_STATE_LOST and IDEMPOTENCY_STATE_LOST (finish_run) cannot happen:
\* nothing ends the run of a call but the call itself or the next startup.
CompletionNeverLost ==
  \A c \in Call : pc[c] \in {"acquire", "register", "run", "finish"} => Finished(c)

\* Without database errors every claim has a living call that will end it,
\* or a startup is going to.
NoOrphanClaim ==
  ~DbFaults /\ server \in {"purge", "serving"} =>
    \A k \in Key : InState(k, "RUNNING") =>
      \E c \in Call : pc[c] \in Owning /\ run[c] = claims[k].run /\ KeyOf(c) = k

\* "invocation_id remains unique per physical attempt and is used for
\* cancellation/observability" (nifi/README.md): while a call waits for its
\* operator, cancel finds it under its invocation id.  It does not when a client
\* shares an id: see the README.
Cancellable ==
  \A c \in Call : pc[c] = "run" => active[InvocationOf[c]] = c

\* A recorded result is never revoked: no late abandon, no restart turns a
\* DONE row into another one.
RecordedForGood ==
  [][\A r \in Run : runs[r] # None /\ runs[r].state = "DONE" /\ runs'[r] # None
       => runs'[r].state = "DONE"]_vars

-----------------------------------------------------------------------------
(***************************************************************************)
(* The claims implement the abstract idempotency keys: a replayable result *)
(* is recorded, an expired or retryable one is no longer held.             *)
(***************************************************************************)
holderBar == [k \in Key |->
  IF InState(k, "RUNNING") THEN [run |-> claims[k].run, status |-> "running"]
  ELSE IF Cached(k) THEN [run |-> claims[k].run, status |-> "recorded"]
  ELSE None]

Abstract == INSTANCE IdempotentExecution WITH holder <- holderBar

ImplementsIdempotentExecution == Abstract!Spec

(***************************************************************************)
(* Liveness                                                                *)
(***************************************************************************)

\* No key answers RUN_IN_PROGRESS for ever.
EveryClaimEnds == \A k \in Key : InState(k, "RUNNING") ~> ~InState(k, "RUNNING")
=============================================================================
