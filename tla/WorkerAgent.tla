------------------------------ MODULE WorkerAgent ------------------------------
(***************************************************************************)
(* The agent inside a sandbox: AgentState.run and cancel (worker/agent.py) *)
(* and the child process that runs the operator (worker/child.py).         *)
(*                                                                         *)
(* Every HTTP request has its own thread.  A run goes through its gate,    *)
(* prepares a scratch directory, starts a child in a session of its own,   *)
(* writes the request into its pipe, waits for it and cleans up.  A cancel *)
(* marks the active child under a lock and kills its process group after   *)
(* it has given the lock back.                                             *)
(*                                                                         *)
(* Abstractions.  The child's frame is there or not, and holds a result of *)
(* OperatorResult.  Process ids are not reused while a kill is on its way. *)
(* The releases are installed.  Files the operator writes outside its      *)
(* scratch directory stay, and are left out.                               *)
(*                                                                         *)
(* An agent lives in a worker of the pool: no name of this module is one   *)
(* of WorkerPool, so that WorkerPoolProofs extends both.                   *)
(***************************************************************************)
EXTENDS Naturals, OperatorResult

CONSTANTS
  Run,          \* calls of run
  Cancel,       \* calls of cancel
  Invocation,
  InvocationOf, \* the invocation_id of a run: a retry has the same
  Large,        \* runs whose request does not fit into the pipe
  Outcomes,     \* what may become of a call of the operator
  Privileged,   \* TRUE: the agent is root and children are another user
  NoFrame,
  Nobody

ASSUME AgentConstants ==
  /\ InvocationOf \in [Run -> Invocation]
  /\ Large \subseteq Run
  /\ Outcomes \subseteq Outcome
  /\ NoFrame \notin Outcomes
  /\ Privileged \in BOOLEAN
  /\ Nobody \notin Run

VARIABLES
  gate,         \* _run_gate
  active,       \* _active_child
  scratch,      \* the scratch directories there are
  kept,         \* auxiliary: the runs whose directory rmtree could not remove
  escaped,      \* auxiliary: the runs with a descendant their last sweep has missed
  thread,       \* of a run: where its thread is
  answer,       \* of a run: the status or error code it returns
  cancelling,   \* of a run: cancel_requested
  overdue,      \* of a run: timed_out
  flooded,      \* of a run: log_overflow or protocol_overflow
  child,        \* of a run: the state of its child
  returned,     \* of a run: the outcome its child has written a complete frame for
  kin,          \* of a run: live descendants, in the child's process group or not
  at,           \* of a cancel: where its thread is
  aim           \* of a cancel: the run whose child it kills

marks == <<cancelling, overdue, flooded>>
remains == <<scratch, kept, escaped>>
processes == <<child, returned, kin>>
cancels == <<at, aim>>
agentVars == <<gate, active, remains, thread, answer, marks, processes, cancels>>

Alive == {"starting", "running"}

AgentTypeOK ==
  /\ gate \in Run \cup {Nobody}
  /\ active \in Run \cup {Nobody}
  /\ scratch \subseteq Run /\ kept \subseteq Run /\ escaped \subseteq Run
  /\ thread \in [Run -> {"out", "prepare", "spawn", "register", "write", "wait", "reap",
                     "judge", "clear", "sweep", "release", "answered"}]
  /\ answer \in [Run -> {"none", "AGENT_BUSY", "error", "CANCELLED", "TIMEOUT",
                         "LOG_LIMIT", "USER_PROCESS_EXITED", "result"}]
  /\ cancelling \in [Run -> BOOLEAN]
  /\ overdue \in [Run -> BOOLEAN]
  /\ flooded \in [Run -> BOOLEAN]
  /\ child \in [Run -> Alive \cup {"none", "exited", "killed"}]
  /\ returned \in [Run -> Outcomes \cup {NoFrame}]
  /\ kin \in [Run -> SUBSET {"group", "session"}]
  /\ at \in [Cancel -> {"out", "kill", "missed", "cancelled"}]
  /\ aim \in [Cancel -> Run \cup {Nobody}]
  /\ \A r \in Run : thread[r] \in {"out", "answered"} <=> gate # r

AgentInit ==
  /\ gate = Nobody
  /\ active = Nobody
  /\ scratch = {} /\ kept = {} /\ escaped = {}
  /\ thread = [r \in Run |-> "out"]
  /\ answer = [r \in Run |-> "none"]
  /\ cancelling = [r \in Run |-> FALSE]
  /\ overdue = [r \in Run |-> FALSE]
  /\ flooded = [r \in Run |-> FALSE]
  /\ child = [r \in Run |-> "none"]
  /\ returned = [r \in Run |-> NoFrame]
  /\ kin = [r \in Run |-> {}]
  /\ at = [c \in Cancel |-> "out"]
  /\ aim = [c \in Cancel |-> Nobody]

Step(r, from, to) ==
  /\ thread[r] = from
  /\ thread' = [thread EXCEPT ![r] = to]

\* _kill_process_group: the child and the descendants in its group.
KillGroup(r) ==
  /\ child' = [child EXCEPT ![r] = IF @ \in Alive THEN "killed" ELSE @]
  /\ kin' = [kin EXCEPT ![r] = @ \ {"group"}]

\* The runs with a descendant that has left the group of their child.
Detached == {s \in Run : "session" \in kin[s]}

\* _kill_process_group and then _kill_user_processes: when the agent may kill it,
\* whatever runs as the children's user.  Three times it lists the processes and
\* kills those it has listed; the runs in missed have a descendant that forks
\* after the listing every time.
KillAll(r, missed) ==
  IF Privileged
  THEN /\ child' = [s \in Run |-> IF child[s] \in Alive THEN "killed" ELSE child[s]]
       /\ kin' = [s \in Run |-> IF s \in missed THEN {"session"} ELSE {}]
  ELSE KillGroup(r)

-----------------------------------------------------------------------------
(***************************************************************************)
(* AgentState.run                                                          *)
(***************************************************************************)

Refuse(r) ==
  /\ gate # Nobody
  /\ Step(r, "out", "answered")
  /\ answer' = [answer EXCEPT ![r] = "AGENT_BUSY"]
  /\ UNCHANGED <<gate, active, remains, marks, processes, cancels>>

\* The gate left out.
MutEnter(r) ==
  /\ Step(r, "out", "prepare")
  /\ gate' = r
  /\ UNCHANGED <<active, remains, answer, marks, processes, cancels>>

Enter(r) ==
  /\ gate = Nobody
  /\ Step(r, "out", "prepare")
  /\ gate' = r
  /\ UNCHANGED <<active, remains, answer, marks, processes, cancels>>

\* _prepare_scratch and _prepare_runtime_workspace.
Prepare(r) ==
  /\ Step(r, "prepare", "spawn")
  /\ scratch' = scratch \cup {r}
  /\ UNCHANGED <<gate, active, kept, escaped, answer, marks, processes, cancels>>

\* The release is unknown, the workspace cannot be copied, the request is too
\* large, or the child cannot be started.
PrepareFails(r) ==
  /\ thread[r] \in {"prepare", "spawn"}
  /\ thread' = [thread EXCEPT ![r] = "sweep"]
  /\ answer' = [answer EXCEPT ![r] = "error"]
  /\ UNCHANGED <<gate, active, remains, marks, processes, cancels>>

Spawn(r) ==
  /\ Step(r, "spawn", "register")
  /\ child' = [child EXCEPT ![r] = "starting"]
  /\ UNCHANGED <<gate, active, remains, answer, marks, returned, kin, cancels>>

\* _register_active.
Register(r) ==
  /\ Step(r, "register", "write")
  /\ active = Nobody
  /\ active' = r
  /\ UNCHANGED <<gate, remains, answer, marks, processes, cancels>>

\* The threads that read the pipes cannot be started.
ReadersFail(r) ==
  /\ Step(r, "write", "clear")
  /\ answer' = [answer EXCEPT ![r] = "error"]
  /\ UNCHANGED <<gate, active, remains, marks, processes, cancels>>

\* _write_all returns when the request fits into the pipe, when the child reads
\* it, or with an ignored error when the child is gone.
WriteRequest(r) ==
  /\ Step(r, "write", "wait")
  /\ r \in Large => child[r] # "starting"
  /\ UNCHANGED <<gate, active, remains, answer, marks, processes, cancels>>

\* proc.wait returns.
ChildGone(r) ==
  /\ Step(r, "wait", "reap")
  /\ child[r] \notin Alive
  /\ UNCHANGED <<gate, active, remains, answer, marks, processes, cancels>>

\* Nobody kills the child when its time is over.
MutTimeout(r) ==
  /\ Step(r, "wait", "wait")
  /\ child[r] \in Alive
  /\ overdue' = [overdue EXCEPT ![r] = TRUE]
  /\ UNCHANGED <<gate, active, remains, answer, cancelling, flooded, processes, cancels>>

\* subprocess.TimeoutExpired: the group is killed.
Timeout(r) ==
  /\ Step(r, "wait", "reap")
  /\ child[r] \in Alive
  /\ overdue' = [overdue EXCEPT ![r] = TRUE]
  /\ KillGroup(r)
  /\ UNCHANGED <<gate, active, remains, answer, cancelling, flooded, returned, cancels>>

ReapChild(r) ==
  /\ Step(r, "reap", "judge")
  /\ \E missed \in SUBSET Detached : KillAll(r, missed)
  /\ UNCHANGED <<gate, active, remains, answer, marks, returned, cancels>>

\* The order in which run looks for a reason to fail.  LOG_LIMIT stands for an
\* overflow of the frame too, USER_PROCESS_EXITED for a child that was killed or
\* whose frame is cut off; _validate_child_result lets pass what execute makes.
Verdict(r) ==
  CASE cancelling[r] -> "CANCELLED"
    [] ~cancelling[r] /\ overdue[r] -> "TIMEOUT"
    [] ~cancelling[r] /\ ~overdue[r] /\ flooded[r] -> "LOG_LIMIT"
    [] OTHER -> IF returned[r] = NoFrame THEN "USER_PROCESS_EXITED" ELSE "result"

Judge(r) ==
  /\ Step(r, "judge", "clear")
  /\ answer' = [answer EXCEPT ![r] = Verdict(r)]
  /\ UNCHANGED <<gate, active, remains, marks, processes, cancels>>

\* The finally clause: _clear_active and _kill_process_group.
Clear(r) ==
  /\ Step(r, "clear", "sweep")
  /\ active' = IF active = r THEN Nobody ELSE active
  /\ KillGroup(r)
  /\ UNCHANGED <<gate, remains, answer, marks, returned, cancels>>

\* _kill_user_processes left out of the finally clause.
MutSweep(r) ==
  /\ Step(r, "sweep", "release")
  /\ scratch' = scratch \ {r}
  /\ UNCHANGED <<gate, active, kept, escaped, answer, marks, processes, cancels>>

\* _kill_user_processes, and the scratch directory is removed, errors ignored.
Sweep(r) ==
  /\ Step(r, "sweep", "release")
  /\ \E missed \in SUBSET Detached : KillAll(r, missed) /\ escaped' = escaped \cup missed
  /\ \/ scratch' = scratch \ {r} /\ kept' = kept
     \/ scratch' = scratch /\ kept' = kept \cup (scratch \cap {r})
  /\ UNCHANGED <<gate, active, answer, marks, returned, cancels>>

ReleaseGate(r) ==
  /\ Step(r, "release", "answered")
  /\ gate' = Nobody
  /\ UNCHANGED <<active, remains, answer, marks, processes, cancels>>

-----------------------------------------------------------------------------
(***************************************************************************)
(* The child, and what the operator does                                   *)
(***************************************************************************)

\* main reads the request before it imports anything of the operator's.
ChildReads(r) ==
  /\ child[r] = "starting"
  /\ thread[r] \in {"write", "wait"}
  /\ child' = [child EXCEPT ![r] = "running"]
  /\ UNCHANGED <<gate, active, remains, thread, answer, marks, returned, kin, cancels>>

\* The operator, or what it has left in the child's group, starts a process, in
\* that group or in a session of its own.
ChildForks(r, k) ==
  /\ child[r] = "running" \/ "group" \in kin[r]
  /\ kin' = [kin EXCEPT ![r] = @ \cup {k}]
  /\ UNCHANGED <<gate, active, remains, thread, answer, marks, child, returned, cancels>>

\* main writes one frame, with the result of execute.
ChildReports(r, o) ==
  /\ child[r] = "running"
  /\ returned[r] = NoFrame
  /\ returned' = [returned EXCEPT ![r] = o]
  /\ UNCHANGED <<gate, active, remains, thread, answer, marks, child, kin, cancels>>

ChildExits(r) ==
  /\ child[r] \in Alive
  /\ child' = [child EXCEPT ![r] = "exited"]
  /\ UNCHANGED <<gate, active, remains, thread, answer, marks, returned, kin, cancels>>

\* _bounded_reader or _bounded_fd_reader sees too much and kills the group.
ChildFloods(r) ==
  /\ child[r] = "running"
  /\ flooded' = [flooded EXCEPT ![r] = TRUE]
  /\ KillGroup(r)
  /\ UNCHANGED <<gate, active, remains, thread, answer, cancelling, overdue, returned, cancels>>

-----------------------------------------------------------------------------
(***************************************************************************)
(* AgentState.cancel                                                       *)
(***************************************************************************)

ActiveIs(i) == active # Nobody /\ InvocationOf[active] = i

CancelMisses(c, i) ==
  /\ at[c] = "out"
  /\ ~ActiveIs(i)
  /\ at' = [at EXCEPT ![c] = "missed"]
  /\ UNCHANGED <<gate, active, remains, thread, answer, marks, processes, aim>>

CancelMarks(c, i) ==
  /\ at[c] = "out"
  /\ ActiveIs(i)
  /\ cancelling' = [cancelling EXCEPT ![active] = TRUE]
  /\ at' = [at EXCEPT ![c] = "kill"]
  /\ aim' = [aim EXCEPT ![c] = active]
  /\ UNCHANGED <<gate, active, remains, thread, answer, overdue, flooded, processes>>

CancelKills(c) ==
  /\ at[c] = "kill"
  /\ at' = [at EXCEPT ![c] = "cancelled"]
  /\ KillGroup(aim[c])
  /\ UNCHANGED <<gate, active, remains, thread, answer, marks, returned, aim>>

-----------------------------------------------------------------------------
(***************************************************************************)
(* The answer on its way to the processor                                  *)
(***************************************************************************)

\* do_POST answers an exception of run with status 400; call raises, invoke
\* abandons its claim and the processor rolls its session back.
RolledBack(r) == answer[r] = "error"

\* The RunResult OpenSandboxBackend.run makes of the other answers.
RunResult(r) ==
  IF answer[r] = "result" THEN Execute(returned[r]) ELSE Refusal(answer[r])

-----------------------------------------------------------------------------
\* What the thread of a run does once it is through the gate.
Proceed(r) ==
  \/ Prepare(r) \/ Spawn(r) \/ Register(r) \/ WriteRequest(r)
  \/ ChildGone(r) \/ Timeout(r) \/ ReapChild(r) \/ Judge(r)
  \/ Clear(r) \/ Sweep(r) \/ ReleaseGate(r)

Operate(r) ==
  \/ ChildReads(r) \/ ChildExits(r) \/ ChildFloods(r)
  \/ \E o \in Outcomes : ChildReports(r, o)
  \/ \E k \in {"group", "session"} : ChildForks(r, k)

AgentNext ==
  \/ \E r \in Run :
       \/ Refuse(r) \/ Enter(r) \/ PrepareFails(r) \/ ReadersFail(r)
       \/ Proceed(r) \/ Operate(r)
  \/ \E c \in Cancel :
       \/ \E i \in Invocation : CancelMisses(c, i) \/ CancelMarks(c, i)
       \/ CancelKills(c)

AgentSpec == AgentInit /\ [][AgentNext]_agentVars

\* Threads run on, the clock with them, and the child reads its request: all of
\* it is code of the Runner.  Nothing is assumed of the operator.
AgentFairSpec ==
  AgentSpec /\ \A r \in Run : WF_agentVars(Proceed(r)) /\ WF_agentVars(ChildReads(r))

-----------------------------------------------------------------------------
(***************************************************************************)
(* Properties                                                              *)
(***************************************************************************)

\* When a child starts nothing of another invocation is left in the sandbox: no
\* child, no process of its group, no process that has left the group (unless the
\* agent is not root, or the process forked through all three passes of the last
\* sweep), no scratch directory (unless rmtree has ignored an error).
NothingLeftBehind ==
  \A r, s \in Run :
    r # s /\ child[r] \in Alive =>
      /\ child[s] \notin Alive
      /\ "group" \notin kin[s]
      /\ Privileged /\ s \notin escaped => kin[s] = {}
      /\ s \notin scratch \ kept

\* A child is killed by its own run, by the reader of its pipes, or by a cancel of
\* its invocation, never by the sweep of another: "Safe because one sandbox
\* intentionally runs at most one user invocation" (_kill_user_processes).
OnlyItsOwnKill ==
  [][\A r \in Run :
       child[r] \in Alive /\ child'[r] = "killed" =>
         \/ thread'[r] # thread[r]
         \/ flooded'[r]
         \/ \E c \in Cancel : aim[c] = r /\ at'[c] # at[c]]_agentVars

\* A run that is through the gate leaves it, whatever the operator does and
\* whichever step fails: the next invocation is not answered AGENT_BUSY for ever.
GateReopens == \A r \in Run : gate = r ~> gate # r

\* NiFi, the tables of the Runner and its pool act on one answer and agree on it.
\* A FlowFile goes to RETRY if and only if its result is not replayed, or the
\* retry is answered with the failure it is meant to get over, or the second
\* attempt after a success runs the operator again; the audit row says the same.
\* Success means that the operator returned in time and did not ask for a retry,
\* and a retry it asks for is routed as one; a worker that is still at another
\* run is not given back to the pool.
RoutedAsReported ==
  \A r \in Run : thread[r] = "answered" /\ ~RolledBack(r) =>
    LET v == RunResult(r)
        route == Route(v)
    IN /\ route = "RETRY" <=> ~Replayable(v)
       /\ route = "RETRY" <=> OutcomeClass(v) = "RETRYABLE_FAILURE"
       /\ route = "SUCCESS" =>
            /\ returned[r] # NoFrame
            /\ ~overdue[r] /\ ~flooded[r]
            /\ returned[r].how = "dict" => ~Retryable(returned[r])
       /\ answer[r] = "result" /\ returned[r].how = "dict" /\ Retryable(returned[r]) =>
            route = "RETRY" \/ ~Valid(returned[r]) \/ ~returned[r].fits
       /\ Reused(v) => answer[r] # "AGENT_BUSY"

\* "cancelled: whether the cancellation succeeded", what the API promises: an
\* invocation whose cancel was answered TRUE does not succeed.
CancelledNeverSucceeds ==
  \A c \in Cancel : at[c] = "cancelled" => answer[aim[c]] # "result"
=============================================================================
