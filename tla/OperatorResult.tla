---------------------------- MODULE OperatorResult ----------------------------
(***************************************************************************)
(* From what becomes of the call of an operator to what NiFi does with the *)
(* FlowFile.  The child makes a result of it (worker/child.py), the agent  *)
(* puts a failure of its own in the place of a result that is missing or   *)
(* late (worker/agent.py), the Runner records whether a retry is answered  *)
(* with it (state.py) and keeps or deletes the worker (service.py), and    *)
(* the processor chooses a relationship (ManagedPythonTransform.java).     *)
(*                                                                         *)
(* Abstractions.  Contents, attributes, messages and the relationship,     *)
(* which the processor does not look at, are left out: of an outcome only  *)
(* counts whether all of its parts have their types and keep the limits.   *)
(***************************************************************************)

\* The steps of execute that come before the result, by the error code of each.
Faults == {"CHILD_PROTOCOL_ERROR", "FILESYSTEM_COMPAT_ERROR", "USER_IMPORT_ERROR",
           "ENTRYPOINT_NOT_FOUND", "USER_EXCEPTION"}

\* A call of the operator: the step that failed, or the kind of value it returned.
Outcome ==
  [how       : Faults \cup {"None", "content", "dict", "other"},
   status    : {"", "SUCCEEDED", "FAILED", "other"},    \* "" for a key that is missing
   retryable : {"", "True", "False", "other"},
   code      : {"", "CODE"},                            \* error_code
   typed     : BOOLEAN,   \* attributes, relationship, content and error fields
   fits      : BOOLEAN]   \* the limits of _validate_output

-----------------------------------------------------------------------------
(***************************************************************************)
(* worker/child.py                                                         *)
(***************************************************************************)

\* _failed, and _failure in worker/agent.py.
Failed(code) == [status |-> "FAILED", retryable |-> FALSE, code |-> code]

Retryable(o) == o.retryable = "True"

\* A dict without a status has failed when it asks for a retry.
Status(o) ==
  IF o.status = "" THEN IF Retryable(o) THEN "FAILED" ELSE "SUCCEEDED" ELSE o.status

\* A success may ask for a retry.
MutValid(o) ==
  /\ o.how # "other"
  /\ o.typed
  /\ o.how = "dict" =>
       /\ o.retryable # "other"
       /\ Status(o) \in {"SUCCEEDED", "FAILED"}

\* _normalize_result raises InvalidUserResultError or TypeError otherwise.
Valid(o) ==
  /\ o.how # "other"
  /\ o.typed
  /\ o.how = "dict" =>
       /\ o.retryable # "other"
       /\ Status(o) \in {"SUCCEEDED", "FAILED"}
       /\ ~(Status(o) = "SUCCEEDED" /\ Retryable(o))

\* What _normalize_result makes of a valid value.
Normalized(o) ==
  IF o.how # "dict"
  THEN [status |-> "SUCCEEDED", retryable |-> FALSE, code |-> ""]
  ELSE [status    |-> Status(o),
        retryable |-> Retryable(o),
        code      |-> IF Status(o) = "FAILED" /\ o.code = ""
                      THEN "OPERATOR_REPORTED_FAILURE" ELSE o.code]

\* execute: the result the child writes into its frame.
Execute(o) ==
  CASE o.how \in Faults                           -> Failed(o.how)
    [] o.how \notin Faults /\ ~Valid(o)           -> Failed("INVALID_USER_RESULT")
    [] o.how \notin Faults /\ Valid(o) /\ ~o.fits -> Failed("OUTPUT_LIMIT")
    [] OTHER                                      -> Normalized(o)

-----------------------------------------------------------------------------
(***************************************************************************)
(* worker/agent.py and the Runner                                          *)
(***************************************************************************)

\* A result the agent answers for a run without a frame it can use.
Refusal(code) ==
  IF code = "AGENT_BUSY" THEN [Failed(code) EXCEPT !.retryable = TRUE] ELSE Failed(code)

\* finish_run: a second call with the idempotency key is answered with the result.
Replayable(v) == ~v.retryable

\* _outcome_class: what the audit row says of the run.
OutcomeClass(v) ==
  CASE v.status = "SUCCEEDED"                -> "SUCCESS"
    [] v.status # "SUCCEEDED" /\ v.retryable -> "RETRYABLE_FAILURE"
    [] OTHER                                 -> "USER_FAILURE"

\* reusable_errors: the failures after which the worker is fit for another run.
\* USER_PROCESS_EXITED stands for USER_PROCESS_SIGNALED and CPU_LIMIT as well.
ReusableErrors ==
  {"TIMEOUT", "CANCELLED", "USER_EXCEPTION", "USER_IMPORT_ERROR", "ENTRYPOINT_NOT_FOUND",
   "INVALID_USER_RESULT", "USER_PROCESS_EXITED", "OUTPUT_LIMIT", "LOG_LIMIT",
   "CHILD_PROTOCOL_ERROR", "OPERATOR_REPORTED_FAILURE"}

\* invoke gives the worker back to the pool instead of deleting it.
Reused(v) == v.status = "SUCCEEDED" \/ v.code \in ReusableErrors

-----------------------------------------------------------------------------
(***************************************************************************)
(* ManagedPythonTransform.java                                             *)
(***************************************************************************)

\* The relationship onTrigger transfers the FlowFile to.
Route(v) ==
  CASE v.status = "SUCCEEDED"                -> "SUCCESS"
    [] v.status # "SUCCEEDED" /\ v.retryable -> "RETRY"
    [] OTHER                                 -> "FAILURE"
=============================================================================
