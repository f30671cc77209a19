-------------------------- MODULE RunnerRunsProofs --------------------------
(***************************************************************************)
(* Proofs about RunnerRuns, for every number of calls, keys and runs and   *)
(* for every combination of faults.                                        *)
(***************************************************************************)
EXTENDS RunnerRuns, TLAPS

-----------------------------------------------------------------------------
(***************************************************************************)
(* The strengthening.  Calls only run in a process that serves; every run  *)
(* has one call at most, and its audit row is for the key of that call.    *)
(***************************************************************************)
Calls ==
  /\ server # "serving" => condemned = {} /\ \A c \in Call : pc[c] = "out"
  /\ \A c, d \in Call : c # d /\ run[c] # None => run[c] # run[d]
  /\ \A c \in Call : run[c] # None /\ runs[run[c]] # None => runs[run[c]].key = KeyOf(c)

\* While sandboxes can be deleted and cancel requests arrive, only runs that
\* are RUNNING execute: their call has registered them and has not gone on,
\* or their process died and startup has not got to them.
LiveExecutions ==
  /\ condemned = {}
  /\ \A r \in executing : Live(r)
  /\ \A c \in Call : pc[c] \in Owning \cup {"leave"} /\ pc[c] \notin {"run", "invalidate"}
       => run[c] \notin executing
  /\ server \in {"reset", "purge"} => executing = {}

Sealed == ~DeleteFaults /\ ~CancelFaults => LiveExecutions

Tables == TablesAgree /\ CompletionNeverLost

IInv == TypeOK /\ Calls /\ Tables /\ Sealed /\ NoOrphanClaim

-----------------------------------------------------------------------------
(***************************************************************************)
(* Types, and the calls                                                    *)
(***************************************************************************)
\* The steps on the two tables, one row at a time.
Claimed(c, r) ==
  /\ Unused(r) /\ KeyOf(c) \in Key
  /\ claims' \in [Key -> Claim \cup {None}]
  /\ runs' \in [Run -> Audit \cup {None}]
  /\ claims'[KeyOf(c)] = [state |-> "RUNNING", digest |-> DigestOf(c), run |-> r,
                          replayable |-> FALSE, expired |-> FALSE]
  /\ claims'[KeyOf(c)] # None /\ runs'[r] # None
  /\ \A k \in Key \ {KeyOf(c)} : claims'[k] = claims[k]
  /\ runs'[r] = [state |-> "RUNNING", key |-> KeyOf(c)]
  /\ \A s \in Run \ {r} : runs'[s] = runs[s]
  /\ \/ /\ pc' = [pc EXCEPT ![c] = "acquire"]
        /\ run' = [run EXCEPT ![c] = r]
        /\ UNCHANGED req
     \/ /\ DbFaults
        /\ pc' = [pc EXCEPT ![c] = "out"]
        /\ req' = [req EXCEPT ![c] = None]
        /\ UNCHANGED run

Recorded(c) ==
  /\ KeyOf(c) \in Key /\ run[c] \in Run
  /\ claims' \in [Key -> Claim \cup {None}]
  /\ runs' \in [Run -> Audit \cup {None}]
  /\ claims'[KeyOf(c)] \in Claim
  /\ claims'[KeyOf(c)].state = "DONE"
  /\ claims'[KeyOf(c)].run = run[c]
  /\ claims'[KeyOf(c)].replayable <=> final[c]
  /\ claims'[KeyOf(c)].expired <=> ~final[c]
  /\ \A k \in Key \ {KeyOf(c)} : claims'[k] = claims[k]
  /\ runs'[run[c]] # None /\ runs[run[c]] # None
  /\ runs'[run[c]] = [state |-> "DONE", key |-> runs[run[c]].key]
  /\ \A r \in Run \ {run[c]} : runs'[r] = runs[r]

Released(c) ==
  /\ KeyOf(c) \in Key /\ run[c] \in Run
  /\ claims' \in [Key -> Claim \cup {None}]
  /\ runs' \in [Run -> Audit \cup {None}]
  /\ claims'[KeyOf(c)] = IF Holds(KeyOf(c), run[c]) THEN None ELSE claims[KeyOf(c)]
  /\ \A k \in Key \ {KeyOf(c)} : claims'[k] = claims[k]
  /\ runs'[run[c]] = IF Live(run[c]) THEN [state |-> "ABANDONED", key |-> runs[run[c]].key]
                     ELSE runs[run[c]]
  /\ \A r \in Run \ {run[c]} : runs'[r] = runs[r]

\* Ending a row of runner.runs changes its state only.
LEMMA AuditState ==
  ASSUME NEW a \in Audit, NEW s \in {"RUNNING", "DONE", "ABANDONED"}
  PROVE  [a EXCEPT !.state = s] = [state |-> s, key |-> a.key] /\ [state |-> s, key |-> a.key] \in Audit
  BY DEF Audit

\* The rows finish_run writes.
LEMMA RecordResultRows ==
  ASSUME TypeOK, NEW c \in Call, req[c] # None, run[c] # None, Finished(c), RecordResult(c)
  PROVE  Recorded(c)
<1>1. KeyOf(c) \in Key /\ run[c] \in Run
  BY ConstantsAssumption DEF KeyOf, TypeOK, Request
<1>2. claims[KeyOf(c)] \in Claim /\ claims[KeyOf(c)].run = run[c] /\ runs[run[c]] \in Audit
  BY <1>1 DEF TypeOK, Finished, Holds, Live, InState
<1>3. /\ claims' \in [Key -> Claim \cup {None}]
      /\ claims'[KeyOf(c)] = [claims[KeyOf(c)] EXCEPT !.state = "DONE", !.replayable = final[c],
                                                      !.expired = ~final[c]]
      /\ \A k \in Key \ {KeyOf(c)} : claims'[k] = claims[k]
  <2>1. [claims[KeyOf(c)] EXCEPT !.state = "DONE", !.replayable = final[c],
                                 !.expired = ~final[c]] \in Claim
    BY <1>1, <1>2 DEF TypeOK, Claim
  <2>2. claims' = [claims EXCEPT ![KeyOf(c)] =
                     [claims[KeyOf(c)] EXCEPT !.state = "DONE", !.replayable = final[c],
                                              !.expired = ~final[c]]]
    BY DEF RecordResult
  <2> QED
    BY <1>1, <2>1, <2>2 DEF TypeOK
<1>4. runs' = [runs EXCEPT ![run[c]] = [runs[run[c]] EXCEPT !.state = "DONE"]]
  BY <1>1, <1>2 DEF RecordResult, TypeOK
<1>5. [runs[run[c]] EXCEPT !.state = "DONE"] = [state |-> "DONE", key |-> runs[run[c]].key]
      /\ [state |-> "DONE", key |-> runs[run[c]].key] \in Audit
  BY <1>2, AuditState
<1>6. /\ claims'[KeyOf(c)] \in Claim
      /\ claims'[KeyOf(c)].state = "DONE"
      /\ claims'[KeyOf(c)].run = run[c]
      /\ claims'[KeyOf(c)].replayable <=> final[c]
      /\ claims'[KeyOf(c)].expired <=> ~final[c]
  BY <1>1, <1>2, <1>3 DEF TypeOK, Claim
<1> QED
  BY <1>1, <1>2, <1>3, <1>4, <1>5, <1>6, ConstantsAssumption DEF Recorded, TypeOK

\* The rows of a new claim, for a run nothing refers to.
LEMMA ClaimKeyRows ==
  ASSUME TypeOK, NEW c \in Call, NEW from \in {"begin", "insert"}, pc[c] = from, ClaimKey(c, from)
  PROVE  \E r \in Run : Claimed(c, r)
<1>1. KeyOf(c) \in Key /\ DigestOf(c) \in Digest
  BY ConstantsAssumption DEF TypeOK, Request, KeyOf, DigestOf
<1>2. PICK r \in Run :
        /\ Unused(r)
        /\ claims' = [claims EXCEPT ![KeyOf(c)] =
             [state |-> "RUNNING", digest |-> DigestOf(c), run |-> r,
              replayable |-> FALSE, expired |-> FALSE]]
        /\ runs' = [runs EXCEPT ![r] = [state |-> "RUNNING", key |-> KeyOf(c)]]
        /\ \/ /\ pc' = [pc EXCEPT ![c] = "acquire"]
              /\ run' = [run EXCEPT ![c] = r]
              /\ UNCHANGED req
           \/ /\ DbFaults
              /\ pc' = [pc EXCEPT ![c] = "out"]
              /\ req' = [req EXCEPT ![c] = None]
              /\ UNCHANGED run
  BY DEF ClaimKey, Goto
<1>3. [state |-> "RUNNING", key |-> KeyOf(c)] \in Audit
  BY <1>1 DEF Audit
<1>4. [state |-> "RUNNING", digest |-> DigestOf(c), run |-> r,
       replayable |-> FALSE, expired |-> FALSE] \in Claim
  BY <1>1, <1>2 DEF Claim
<1> QED
  BY <1>1, <1>2, <1>3, <1>4, ConstantsAssumption DEF TypeOK, Claimed

\* The rows abandon_run leaves.
LEMMA ReleaseClaimRows ==
  ASSUME TypeOK, NEW c \in Call, req[c] # None, run[c] # None, ReleaseClaim(c)
  PROVE  Released(c)
<1>1. KeyOf(c) \in Key /\ run[c] \in Run
  BY ConstantsAssumption DEF TypeOK, Request, KeyOf
<1> DEFINE row == [state |-> "ABANDONED", key |-> runs[run[c]].key]
<1>2. claims' = IF Holds(KeyOf(c), run[c]) THEN [claims EXCEPT ![KeyOf(c)] = None] ELSE claims
  BY DEF ReleaseClaim
<1>3. ASSUME Live(run[c]) PROVE row \in Audit /\ runs' = [runs EXCEPT ![run[c]] = row]
  <2>1. runs[run[c]] \in Audit
    BY <1>1, <1>3 DEF TypeOK, Live
  <2>2. [runs[run[c]] EXCEPT !.state = "ABANDONED"] = row /\ row \in Audit
    BY <2>1, AuditState
  <2>3. runs' = [runs EXCEPT ![run[c]] = [runs[run[c]] EXCEPT !.state = "ABANDONED"]]
    BY <1>1, <1>3 DEF ReleaseClaim, TypeOK
  <2> QED
    BY <2>2, <2>3
<1>4. ASSUME ~Live(run[c]) PROVE UNCHANGED runs
  BY <1>4 DEF ReleaseClaim
<1> QED
  BY <1>1, <1>2, <1>3, <1>4 DEF TypeOK, Released

\* The rows a startup resets.
LEMMA ResetRunningRows ==
  ASSUME TypeOK, ResetRunning
  PROVE  /\ claims' \in [Key -> Claim \cup {None}]
         /\ runs' \in [Run -> Audit \cup {None}]
         /\ \A k \in Key : claims'[k] = IF InState(k, "RUNNING") THEN None ELSE claims[k]
         /\ \A r \in Run : runs'[r] =
              IF Live(r) THEN [state |-> "ABANDONED", key |-> runs[r].key] ELSE runs[r]
<1>1. ASSUME NEW r \in Run, Live(r)
      PROVE  /\ [runs[r] EXCEPT !.state = "ABANDONED"] = [state |-> "ABANDONED", key |-> runs[r].key]
             /\ [state |-> "ABANDONED", key |-> runs[r].key] \in Audit
  BY <1>1 DEF TypeOK, Audit, Live
<1> QED
  BY <1>1 DEF ResetRunning, TypeOK

\* The row that expires.
LEMMA ExpireRows ==
  ASSUME TypeOK, NEW k \in Key, Expire(k)
  PROVE  /\ claims' \in [Key -> Claim \cup {None}]
         /\ claims'[k] \in Claim
         /\ claims'[k].state = "DONE" /\ claims'[k].run = claims[k].run /\ claims'[k].expired
         /\ \A j \in Key \ {k} : claims'[j] = claims[j]
<1>1. claims[k] \in Claim /\ claims[k].state = "DONE"
  BY DEF TypeOK, Expire, Cached, InState
<1>2. [claims[k] EXCEPT !.expired = TRUE] \in Claim
  BY <1>1 DEF Claim
<1>3. claims' = [claims EXCEPT ![k] = [claims[k] EXCEPT !.expired = TRUE]]
  BY DEF Expire
<1>4. claims'[k] = [claims[k] EXCEPT !.expired = TRUE]
  BY <1>3 DEF TypeOK
<1>5. claims'[k].state = "DONE" /\ claims'[k].run = claims[k].run /\ claims'[k].expired
  BY <1>1, <1>4 DEF Claim
<1> QED
  BY <1>2, <1>3, <1>4, <1>5 DEF TypeOK

\* The rows that are left after a purge.
LEMMA PurgeClaimsRows ==
  ASSUME TypeOK, PurgeClaims
  PROVE  /\ claims' \in [Key -> Claim \cup {None}]
         /\ \A k \in Key : claims'[k] = IF Expired(k) THEN None ELSE claims[k]
  BY DEF PurgeClaims, TypeOK


LEMMA StepType == TypeOK /\ Calls /\ [Next]_vars => TypeOK'
<1> SUFFICES ASSUME TypeOK, Calls, [Next]_vars PROVE TypeOK'
  OBVIOUS
<1> USE ConstantsAssumption DEF TypeOK, Location, Owning, Goto, vars, callVars, dbVars, boxVars
<1>1. ASSUME NEW c \in Call, NEW q \in Request, Invoke(c, q) PROVE TypeOK'
  BY <1>1 DEF Invoke
<1>2. ASSUME NEW c \in Call, BeginAnswered(c) PROVE TypeOK'
  BY <1>2 DEF BeginAnswered
<1>3. ASSUME NEW c \in Call, BeginFindsNoRow(c) PROVE TypeOK'
  BY <1>3 DEF BeginFindsNoRow
<1>4. ASSUME NEW c \in Call, BeginAgain(c) PROVE TypeOK'
  <2>1. pc[c] = "begin" /\ ClaimKey(c, "begin")
    BY <1>4 DEF BeginAgain
  <2>2. UNCHANGED <<server, final, active, boxVars>>
    BY <2>1 DEF ClaimKey
  <2>3. PICK r \in Run : Claimed(c, r)
    BY <2>1, ClaimKeyRows
  <2> QED
    BY <2>1, <2>2, <2>3 DEF Claimed
<1>5. ASSUME NEW c \in Call, BeginInsert(c) PROVE TypeOK'
  <2>1. pc[c] = "insert" /\ ClaimKey(c, "insert")
    BY <1>5 DEF BeginInsert
  <2>2. UNCHANGED <<server, final, active, boxVars>>
    BY <2>1 DEF ClaimKey
  <2>3. PICK r \in Run : Claimed(c, r)
    BY <2>1, ClaimKeyRows
  <2> QED
    BY <2>1, <2>2, <2>3 DEF Claimed
<1>6. ASSUME NEW c \in Call, InsertCollides(c) PROVE TypeOK'
  BY <1>6 DEF InsertCollides
<1>7. ASSUME NEW c \in Call, AcquireSucceeds(c) PROVE TypeOK'
  BY <1>7 DEF AcquireSucceeds
<1>8. ASSUME NEW c \in Call, AcquireFails(c) PROVE TypeOK'
  BY <1>8 DEF AcquireFails
<1>9. ASSUME NEW c \in Call, Register(c) PROVE TypeOK'
  BY <1>9 DEF Register
<1>10. ASSUME NEW c \in Call, RegisterRefused(c) PROVE TypeOK'
  BY <1>10 DEF RegisterRefused
<1>11. ASSUME NEW c \in Call, RunReturns(c) PROVE TypeOK'
  BY <1>11 DEF RunReturns, EndExecution
<1>12. ASSUME NEW c \in Call, RunRaises(c) PROVE TypeOK'
  BY <1>12 DEF RunRaises, EndExecution
<1>13. ASSUME NEW c \in Call, FinishRun(c) PROVE TypeOK'
  <2>1. CASE Finished(c) /\ RecordResult(c)
    <3>1. Recorded(c)
      BY <1>13, <2>1, RecordResultRows DEF FinishRun
    <3> QED
      BY <1>13, <3>1 DEF FinishRun, Recorded
  <2>2. CASE UNCHANGED dbVars
    BY <1>13, <2>2 DEF FinishRun
  <2> QED
    BY <1>13, <2>1, <2>2 DEF FinishRun
<1>14. ASSUME NEW c \in Call, FinishRaises(c) PROVE TypeOK'
  <2>1. CASE Finished(c) /\ RecordResult(c)
    <3>1. Recorded(c)
      BY <1>14, <2>1, RecordResultRows DEF FinishRaises
    <3> QED
      BY <1>14, <3>1 DEF FinishRaises, Recorded
  <2>2. CASE UNCHANGED dbVars
    BY <1>14, <2>2 DEF FinishRaises
  <2> QED
    BY <1>14, <2>1, <2>2 DEF FinishRaises
<1>15. ASSUME NEW c \in Call, InvalidateWorker(c) PROVE TypeOK'
  BY <1>15 DEF InvalidateWorker, EndExecution
<1>16. ASSUME NEW c \in Call, AbandonRun(c) PROVE TypeOK'
  <2>1. CASE ReleaseClaim(c)
    <3>1. Released(c)
      BY <1>16, <2>1, ReleaseClaimRows DEF AbandonRun
    <3> QED
      BY <1>16, <3>1 DEF AbandonRun, Released
  <2>2. CASE UNCHANGED dbVars
    BY <1>16, <2>2 DEF AbandonRun
  <2> QED
    BY <1>16, <2>1, <2>2 DEF AbandonRun
<1>17. ASSUME NEW c \in Call, Leave(c) PROVE TypeOK'
  BY <1>17 DEF Leave
<1>18. ASSUME NEW c \in Call, CancelFails(c) PROVE TypeOK'
  BY <1>18 DEF CancelFails
<1>19. ASSUME NEW r \in Run, ExecutionEnds(r) PROVE TypeOK'
  BY <1>19 DEF ExecutionEnds, EndExecution
<1>20. ASSUME NEW k \in Key, Expire(k) PROVE TypeOK'
  BY <1>20, ExpireRows DEF Expire
<1>21. ASSUME PurgeExpired PROVE TypeOK'
  BY <1>21, PurgeClaimsRows DEF PurgeExpired
<1>22. ASSUME PurgeOldRuns PROVE TypeOK'
  BY <1>22 DEF PurgeOldRuns, Purgeable
<1>23. ASSUME Crash PROVE TypeOK'
  BY <1>23 DEF Crash
<1>24. ASSUME CleanSandboxes PROVE TypeOK'
  BY <1>24 DEF CleanSandboxes, Calls
<1>25. ASSUME ResetRunning PROVE TypeOK'
  BY <1>25, ResetRunningRows DEF ResetRunning
<1>26. ASSUME StartupPurge PROVE TypeOK'
  BY <1>26, PurgeClaimsRows DEF StartupPurge
<1>27. CASE UNCHANGED vars
  BY <1>27
<1> QED
  BY <1>1, <1>2, <1>3, <1>4, <1>5, <1>6, <1>7, <1>8, <1>9, <1>10, <1>11, <1>12, <1>13, <1>14,
     <1>15, <1>16, <1>17, <1>18, <1>19, <1>20, <1>21, <1>22, <1>23, <1>24, <1>25, <1>26, <1>27
     DEF Next, BeginStep, RunStep, Startup

LEMMA StepCalls == TypeOK /\ Calls /\ [Next]_vars => Calls'
<1> SUFFICES ASSUME TypeOK, Calls, [Next]_vars PROVE Calls'
  OBVIOUS
<1> USE ConstantsAssumption DEF TypeOK, Location, Owning, Goto, Calls, KeyOf, vars, callVars, dbVars, boxVars
<1>1. ASSUME NEW c \in Call, NEW q \in Request, Invoke(c, q) PROVE Calls'
  BY <1>1 DEF Invoke
<1>2. ASSUME NEW c \in Call, BeginAnswered(c) PROVE Calls'
  BY <1>2 DEF BeginAnswered
<1>3. ASSUME NEW c \in Call, BeginFindsNoRow(c) PROVE Calls'
  BY <1>3 DEF BeginFindsNoRow
<1>4. ASSUME NEW c \in Call, BeginAgain(c) PROVE Calls'
  <2>1. pc[c] = "begin" /\ ClaimKey(c, "begin")
    BY <1>4 DEF BeginAgain
  <2>2. UNCHANGED <<server, final, active, boxVars>>
    BY <2>1 DEF ClaimKey
  <2>3. PICK r \in Run : Claimed(c, r)
    BY <2>1, ClaimKeyRows
  <2> QED
    BY <2>1, <2>2, <2>3 DEF Claimed, Unused
<1>5. ASSUME NEW c \in Call, BeginInsert(c) PROVE Calls'
  <2>1. pc[c] = "insert" /\ ClaimKey(c, "insert")
    BY <1>5 DEF BeginInsert
  <2>2. UNCHANGED <<server, final, active, boxVars>>
    BY <2>1 DEF ClaimKey
  <2>3. PICK r \in Run : Claimed(c, r)
    BY <2>1, ClaimKeyRows
  <2> QED
    BY <2>1, <2>2, <2>3 DEF Claimed, Unused
<1>6. ASSUME NEW c \in Call, InsertCollides(c) PROVE Calls'
  BY <1>6 DEF InsertCollides
<1>7. ASSUME NEW c \in Call, AcquireSucceeds(c) PROVE Calls'
  BY <1>7 DEF AcquireSucceeds
<1>8. ASSUME NEW c \in Call, AcquireFails(c) PROVE Calls'
  BY <1>8 DEF AcquireFails
<1>9. ASSUME NEW c \in Call, Register(c) PROVE Calls'
  BY <1>9 DEF Register
<1>10. ASSUME NEW c \in Call, RegisterRefused(c) PROVE Calls'
  BY <1>10 DEF RegisterRefused
<1>11. ASSUME NEW c \in Call, RunReturns(c) PROVE Calls'
  BY <1>11 DEF RunReturns, EndExecution
<1>12. ASSUME NEW c \in Call, RunRaises(c) PROVE Calls'
  BY <1>12 DEF RunRaises, EndExecution
<1>13. ASSUME NEW c \in Call, FinishRun(c) PROVE Calls'
  <2>1. CASE Finished(c) /\ RecordResult(c)
    <3>1. Recorded(c)
      BY <1>13, <2>1, RecordResultRows DEF FinishRun
    <3>2. \A r \in Run : runs'[r] # None => runs[r] # None /\ runs'[r].key = runs[r].key
      BY <2>1, <3>1 DEF Recorded, Finished, Live
    <3> QED
      BY <1>13, <3>1, <3>2 DEF FinishRun, Recorded
  <2>2. CASE UNCHANGED dbVars
    BY <1>13, <2>2 DEF FinishRun
  <2> QED
    BY <1>13, <2>1, <2>2 DEF FinishRun
<1>14. ASSUME NEW c \in Call, FinishRaises(c) PROVE Calls'
  <2>1. CASE Finished(c) /\ RecordResult(c)
    <3>1. Recorded(c)
      BY <1>14, <2>1, RecordResultRows DEF FinishRaises
    <3>2. \A r \in Run : runs'[r] # None => runs[r] # None /\ runs'[r].key = runs[r].key
      BY <2>1, <3>1 DEF Recorded, Finished, Live
    <3> QED
      BY <1>14, <3>1, <3>2 DEF FinishRaises, Recorded
  <2>2. CASE UNCHANGED dbVars
    BY <1>14, <2>2 DEF FinishRaises
  <2> QED
    BY <1>14, <2>1, <2>2 DEF FinishRaises
<1>15. ASSUME NEW c \in Call, InvalidateWorker(c) PROVE Calls'
  BY <1>15 DEF InvalidateWorker, EndExecution
<1>16. ASSUME NEW c \in Call, AbandonRun(c) PROVE Calls'
  <2>1. CASE ReleaseClaim(c)
    <3>1. Released(c)
      BY <1>16, <2>1, ReleaseClaimRows DEF AbandonRun
    <3>2. \A r \in Run : runs'[r] # None => runs[r] # None /\ runs'[r].key = runs[r].key
      BY <2>1, <3>1 DEF Released, Live
    <3> QED
      BY <1>16, <3>1, <3>2 DEF AbandonRun, Released
  <2>2. CASE UNCHANGED dbVars
    BY <1>16, <2>2 DEF AbandonRun
  <2> QED
    BY <1>16, <2>1, <2>2 DEF AbandonRun
<1>17. ASSUME NEW c \in Call, Leave(c) PROVE Calls'
  BY <1>17 DEF Leave
<1>18. ASSUME NEW c \in Call, CancelFails(c) PROVE Calls'
  BY <1>18 DEF CancelFails
<1>19. ASSUME NEW r \in Run, ExecutionEnds(r) PROVE Calls'
  BY <1>19 DEF ExecutionEnds, EndExecution
<1>20. ASSUME NEW k \in Key, Expire(k) PROVE Calls'
  BY <1>20, ExpireRows DEF Expire
<1>21. ASSUME PurgeExpired PROVE Calls'
  BY <1>21, PurgeClaimsRows DEF PurgeExpired
<1>22. ASSUME PurgeOldRuns PROVE Calls'
  BY <1>22 DEF PurgeOldRuns, Purgeable
<1>23. ASSUME Crash PROVE Calls'
  BY <1>23 DEF Crash
<1>24. ASSUME CleanSandboxes PROVE Calls'
  BY <1>24 DEF CleanSandboxes
<1>25. ASSUME ResetRunning PROVE Calls'
  BY <1>25, ResetRunningRows DEF ResetRunning
<1>26. ASSUME StartupPurge PROVE Calls'
  BY <1>26, PurgeClaimsRows DEF StartupPurge
<1>27. CASE UNCHANGED vars
  BY <1>27
<1> QED
  BY <1>1, <1>2, <1>3, <1>4, <1>5, <1>6, <1>7, <1>8, <1>9, <1>10, <1>11, <1>12, <1>13, <1>14,
     <1>15, <1>16, <1>17, <1>18, <1>19, <1>20, <1>21, <1>22, <1>23, <1>24, <1>25, <1>26, <1>27
     DEF Next, BeginStep, RunStep, Startup

\* The steps that write to the database.
LEMMA DatabaseSteps ==
  ASSUME [Next]_vars
  PROVE  \/ UNCHANGED dbVars
         \/ \E c \in Call : \/ BeginAgain(c) \/ BeginInsert(c)
                            \/ FinishRun(c) \/ FinishRaises(c) \/ AbandonRun(c)
         \/ \E k \in Key : Expire(k)
         \/ PurgeExpired \/ PurgeOldRuns \/ ResetRunning \/ StartupPurge
<1> USE DEF vars, dbVars
<1>1. ASSUME NEW c \in Call, NEW q \in Request, Invoke(c, q) PROVE UNCHANGED dbVars
  BY <1>1 DEF Invoke
<1>2. ASSUME NEW c \in Call, BeginAnswered(c) \/ BeginFindsNoRow(c) \/ InsertCollides(c)
      PROVE  UNCHANGED dbVars
  BY <1>2 DEF BeginAnswered, BeginFindsNoRow, InsertCollides
<1>3. ASSUME NEW c \in Call,
             \/ AcquireSucceeds(c) \/ AcquireFails(c) \/ Register(c) \/ RegisterRefused(c)
             \/ RunReturns(c) \/ RunRaises(c) \/ InvalidateWorker(c) \/ Leave(c) \/ CancelFails(c)
      PROVE  UNCHANGED dbVars
  BY <1>3 DEF AcquireSucceeds, AcquireFails, Register, RegisterRefused, RunReturns, RunRaises,
     InvalidateWorker, Leave, CancelFails
<1>4. ASSUME NEW r \in Run, ExecutionEnds(r) PROVE UNCHANGED dbVars
  BY <1>4 DEF ExecutionEnds
<1>5. ASSUME Crash \/ CleanSandboxes PROVE UNCHANGED dbVars
  BY <1>5 DEF Crash, CleanSandboxes
<1> QED
  BY <1>1, <1>2, <1>3, <1>4, <1>5 DEF Next, BeginStep, RunStep, Startup

-----------------------------------------------------------------------------
(***************************************************************************)
(* The two tables                                                          *)
(***************************************************************************)
\* What a claim, or an audit row, says of the other table.
ClaimAgrees(k) ==
  /\ InState(k, "RUNNING") => Live(claims[k].run) /\ runs[claims[k].run].key = k
  /\ Cached(k) => /\ runs[claims[k].run] # None
                  /\ runs[claims[k].run].state = "DONE"
                  /\ runs[claims[k].run].key = k

AuditAgrees(r) == Live(r) => Holds(runs[r].key, r)

LEMMA TablesAgreeRows ==
  TablesAgree <=> (\A k \in Key : ClaimAgrees(k)) /\ (\A r \in Run : AuditAgrees(r))
  BY DEF TablesAgree, ClaimAgrees, AuditAgrees

LEMMA RowTypes ==
  ASSUME TypeOK
  PROVE  /\ \A k \in Key : claims[k] # None => claims[k] \in Claim /\ claims[k].run \in Run
         /\ \A r \in Run : runs[r] # None => runs[r] \in Audit /\ runs[r].key \in Key
  BY DEF TypeOK, Claim, Audit

LEMMA TablesAgreeStep ==
  ASSUME \A k \in Key : ClaimAgrees(k)', \A r \in Run : AuditAgrees(r)'
  PROVE  TablesAgree'
  BY DEF TablesAgree, ClaimAgrees, AuditAgrees

\* A new claim, on a key no run holds.
LEMMA ClaimedTables ==
  ASSUME TypeOK, TablesAgree, NEW c \in Call, NEW r \in Run, Claimed(c, r),
         ~InState(KeyOf(c), "RUNNING")
  PROVE  TablesAgree'
<1> USE RowTypes, ConstantsAssumption DEF Live, InState, Holds, Cached
<1>1. ASSUME NEW k \in Key PROVE ClaimAgrees(k)'
  <2>1. CASE k = KeyOf(c)
    BY <2>1 DEF ClaimAgrees, Claimed
  <2>2. CASE k # KeyOf(c)
    BY <2>2, TablesAgreeRows DEF ClaimAgrees, Claimed, Unused
  <2> QED
    BY <2>1, <2>2
<1>2. ASSUME NEW s \in Run PROVE AuditAgrees(s)'
  <2>1. CASE s = r
    BY <2>1 DEF AuditAgrees, Claimed
  <2>2. CASE s # r
    BY <2>2, TablesAgreeRows DEF AuditAgrees, Claimed
  <2> QED
    BY <2>1, <2>2
<1> QED
  BY <1>1, <1>2, TablesAgreeStep

\* The result of the run that holds the claim.
LEMMA RecordedTables ==
  ASSUME TypeOK, TablesAgree, NEW c \in Call, Finished(c), Recorded(c)
  PROVE  TablesAgree'
<1> USE RowTypes, ConstantsAssumption DEF Live, InState, Holds, Cached
<1>1. ASSUME NEW k \in Key PROVE ClaimAgrees(k)'
  <2>1. CASE k = KeyOf(c)
    BY <2>1, TablesAgreeRows DEF ClaimAgrees, Recorded, Finished
  <2>2. CASE k # KeyOf(c)
    BY <2>2, TablesAgreeRows DEF ClaimAgrees, Recorded, Finished
  <2> QED
    BY <2>1, <2>2
<1>2. ASSUME NEW s \in Run PROVE AuditAgrees(s)'
  <2>1. CASE s = run[c]
    BY <2>1 DEF AuditAgrees, Recorded
  <2>2. CASE s # run[c]
    BY <2>2, TablesAgreeRows DEF AuditAgrees, Recorded, Finished
  <2> QED
    BY <2>1, <2>2
<1> QED
  BY <1>1, <1>2, TablesAgreeStep

\* A call gives up its run and the claim, if it holds it.
LEMMA ReleasedTables ==
  ASSUME TypeOK, TablesAgree, NEW c \in Call, Released(c),
         runs[run[c]] # None => runs[run[c]].key = KeyOf(c)
  PROVE  TablesAgree'
<1> USE RowTypes, ConstantsAssumption DEF Live, InState, Holds, Cached
<1>1. ASSUME NEW k \in Key PROVE ClaimAgrees(k)'
  <2>1. CASE k = KeyOf(c)
    BY <2>1, TablesAgreeRows DEF ClaimAgrees, Released
  <2>2. CASE k # KeyOf(c)
    BY <2>2, TablesAgreeRows DEF ClaimAgrees, Released
  <2> QED
    BY <2>1, <2>2
<1>2. ASSUME NEW s \in Run PROVE AuditAgrees(s)'
  <2>1. CASE s = run[c]
    BY <2>1 DEF AuditAgrees, Released
  <2>2. CASE s # run[c]
    BY <2>2, TablesAgreeRows DEF AuditAgrees, Released
  <2> QED
    BY <2>1, <2>2
<1> QED
  BY <1>1, <1>2, TablesAgreeStep

\* Startup resets both tables.
LEMMA ResetTables ==
  ASSUME TypeOK, TablesAgree, ResetRunning
  PROVE  TablesAgree'
<1> USE RowTypes, ConstantsAssumption DEF Live, InState, Holds, Cached
<1>1. ASSUME NEW k \in Key PROVE ClaimAgrees(k)'
  BY TablesAgreeRows, ResetRunningRows DEF ClaimAgrees
<1>2. ASSUME NEW s \in Run PROVE AuditAgrees(s)'
  BY TablesAgreeRows, ResetRunningRows DEF AuditAgrees
<1> QED
  BY <1>1, <1>2, TablesAgreeStep

\* A cached result expires.
LEMMA ExpireTables ==
  ASSUME TypeOK, TablesAgree, NEW j \in Key, Expire(j)
  PROVE  TablesAgree'
<1> USE RowTypes, ConstantsAssumption DEF Live, InState, Holds, Cached
<1>1. ASSUME NEW k \in Key PROVE ClaimAgrees(k)'
  <2>1. CASE k = j
    BY <2>1, TablesAgreeRows, ExpireRows DEF ClaimAgrees, Expire
  <2>2. CASE k # j
    BY <2>2, TablesAgreeRows, ExpireRows DEF ClaimAgrees, Expire
  <2> QED
    BY <2>1, <2>2
<1>2. ASSUME NEW s \in Run PROVE AuditAgrees(s)'
  BY TablesAgreeRows, ExpireRows DEF AuditAgrees, Expire
<1> QED
  BY <1>1, <1>2, TablesAgreeStep

\* Expired claims are purged.
LEMMA PurgeClaimsTables ==
  ASSUME TypeOK, TablesAgree, PurgeClaims, UNCHANGED runs
  PROVE  TablesAgree'
<1> USE RowTypes, ConstantsAssumption DEF Live, InState, Holds, Cached
<1>1. ASSUME NEW k \in Key PROVE ClaimAgrees(k)'
  BY TablesAgreeRows, PurgeClaimsRows DEF ClaimAgrees, Expired
<1>2. ASSUME NEW s \in Run PROVE AuditAgrees(s)'
  BY TablesAgreeRows, PurgeClaimsRows DEF AuditAgrees, Expired
<1> QED
  BY <1>1, <1>2, TablesAgreeStep

\* Old audit rows are purged.
LEMMA PurgeOldRunsTables ==
  ASSUME TypeOK, TablesAgree, PurgeOldRuns
  PROVE  TablesAgree'
<1> USE RowTypes, ConstantsAssumption DEF Live, InState, Holds, Cached
<1>1. ASSUME NEW k \in Key PROVE ClaimAgrees(k)'
  BY TablesAgreeRows DEF ClaimAgrees, PurgeOldRuns, Purgeable, TypeOK
<1>2. ASSUME NEW s \in Run PROVE AuditAgrees(s)'
  BY TablesAgreeRows DEF AuditAgrees, PurgeOldRuns, Purgeable, TypeOK
<1> QED
  BY <1>1, <1>2, TablesAgreeStep

LEMMA TablesKept == ASSUME TablesAgree, UNCHANGED dbVars PROVE TablesAgree'
  BY DEF TablesAgree, InState, Live, Holds, Cached, dbVars

LEMMA StepTablesAgree == TypeOK /\ Calls /\ Tables /\ [Next]_vars => TablesAgree'
<1> SUFFICES ASSUME TypeOK, Calls, Tables, [Next]_vars PROVE TablesAgree'
  OBVIOUS
<1> USE DEF Goto, vars, callVars, dbVars, boxVars
<1>1. ASSUME NEW c \in Call, BeginAgain(c) PROVE TablesAgree'
  <2>1. pc[c] = "begin" /\ ClaimKey(c, "begin") /\ ~InState(KeyOf(c), "RUNNING")
    BY <1>1 DEF BeginAgain, InState
  <2>2. PICK r \in Run : Claimed(c, r)
    BY <2>1, ClaimKeyRows
  <2> QED
    BY <2>1, <2>2, ClaimedTables DEF Tables
<1>2. ASSUME NEW c \in Call, BeginInsert(c) PROVE TablesAgree'
  <2>1. pc[c] = "insert" /\ ClaimKey(c, "insert") /\ ~InState(KeyOf(c), "RUNNING")
    BY <1>2 DEF BeginInsert, InState
  <2>2. PICK r \in Run : Claimed(c, r)
    BY <2>1, ClaimKeyRows
  <2> QED
    BY <2>1, <2>2, ClaimedTables DEF Tables
<1>3. ASSUME NEW c \in Call, FinishRun(c) PROVE TablesAgree'
  <2>1. CASE Finished(c) /\ RecordResult(c)
    BY <1>3, <2>1, RecordResultRows, RecordedTables DEF FinishRun, Tables, TypeOK, Owning
  <2>2. CASE UNCHANGED dbVars
    BY <1>3, <2>2, TablesKept DEF Tables
  <2> QED
    BY <1>3, <2>1, <2>2 DEF FinishRun
<1>4. ASSUME NEW c \in Call, FinishRaises(c) PROVE TablesAgree'
  <2>1. CASE Finished(c) /\ RecordResult(c)
    BY <1>4, <2>1, RecordResultRows, RecordedTables DEF FinishRaises, Tables, TypeOK, Owning
  <2>2. CASE UNCHANGED dbVars
    BY <1>4, <2>2, TablesKept DEF Tables
  <2> QED
    BY <1>4, <2>1, <2>2 DEF FinishRaises
<1>5. ASSUME NEW c \in Call, AbandonRun(c) PROVE TablesAgree'
  <2>1. CASE ReleaseClaim(c)
    BY <1>5, <2>1, ReleaseClaimRows, ReleasedTables DEF AbandonRun, Tables, TypeOK, Owning, Calls
  <2>2. CASE UNCHANGED dbVars
    BY <1>5, <2>2, TablesKept DEF Tables
  <2> QED
    BY <1>5, <2>1, <2>2 DEF AbandonRun
<1>6. ASSUME NEW k \in Key, Expire(k) PROVE TablesAgree'
  BY <1>6, ExpireTables DEF Tables
<1>7. ASSUME PurgeExpired PROVE TablesAgree'
  BY <1>7, PurgeClaimsTables DEF PurgeExpired, Tables
<1>8. ASSUME PurgeOldRuns PROVE TablesAgree'
  BY <1>8, PurgeOldRunsTables DEF Tables
<1>9. ASSUME ResetRunning PROVE TablesAgree'
  BY <1>9, ResetTables DEF Tables
<1>10. ASSUME StartupPurge PROVE TablesAgree'
  BY <1>10, PurgeClaimsTables DEF StartupPurge, Tables
<1>11. CASE UNCHANGED dbVars
  BY <1>11, TablesKept DEF Tables
<1> QED
  BY <1>1, <1>2, <1>3, <1>4, <1>5, <1>6, <1>7, <1>8, <1>9, <1>10, <1>11, DatabaseSteps

\* A call that keeps its place among those that will finish, its request, its
\* run and the two rows keeps its promise.
LEMMA FinishedKept ==
  ASSUME NEW d \in Call, Finished(d), UNCHANGED <<req[d], run[d]>>,
         claims'[KeyOf(d)] = claims[KeyOf(d)], runs'[run[d]] = runs[run[d]]
  PROVE  Finished(d)'
  BY DEF Finished, Holds, InState, Live, KeyOf

\* The rows behind a call that may finish.
LEMMA FinishedRows ==
  ASSUME TypeOK, Calls, NEW d \in Call, Finished(d), pc[d] \in Owning \cup {"leave"}
  PROVE  /\ KeyOf(d) \in Key /\ run[d] \in Run
         /\ claims[KeyOf(d)] # None /\ claims[KeyOf(d)].run = run[d]
         /\ claims[KeyOf(d)].state = "RUNNING"
         /\ runs[run[d]] # None /\ runs[run[d]].state = "RUNNING" /\ runs[run[d]].key = KeyOf(d)
<1>1. KeyOf(d) \in Key /\ run[d] \in Run
  BY ConstantsAssumption DEF TypeOK, Request, KeyOf, Owning
<1> QED
  BY <1>1, ConstantsAssumption DEF Finished, Holds, InState, Live, Calls, TypeOK

LEMMA StepCompletion == TypeOK /\ Calls /\ Tables /\ [Next]_vars => CompletionNeverLost'
<1> SUFFICES ASSUME TypeOK, Calls, Tables, [Next]_vars PROVE CompletionNeverLost'
  OBVIOUS
<1> SUFFICES ASSUME NEW d \in Call, (pc[d] \in {"acquire", "register", "run", "finish"})' PROVE Finished(d)'
  BY DEF CompletionNeverLost
<1> USE DEF Goto, vars, callVars, dbVars, boxVars, Tables, CompletionNeverLost, TypeOK
<1>1. ASSUME NEW c \in Call, NEW q \in Request, Invoke(c, q) PROVE Finished(d)'
  BY <1>1, FinishedKept DEF Invoke
<1>2. ASSUME NEW c \in Call, BeginAnswered(c) PROVE Finished(d)'
  BY <1>2, FinishedKept DEF BeginAnswered
<1>3. ASSUME NEW c \in Call, BeginFindsNoRow(c) PROVE Finished(d)'
  BY <1>3, FinishedKept DEF BeginFindsNoRow
<1>4. ASSUME NEW c \in Call, BeginAgain(c) PROVE Finished(d)'
  <2>1. pc[c] = "begin" /\ ClaimKey(c, "begin") /\ ~InState(KeyOf(c), "RUNNING")
    BY <1>4 DEF BeginAgain, InState
  <2>2. PICK r \in Run : Claimed(c, r)
    BY <2>1, ClaimKeyRows
  <2>3. CASE d = c
    <3>1. UNCHANGED req /\ run'[c] = r
      BY <2>1, <2>2, <2>3 DEF Claimed
    <3>2. KeyOf(c)' = KeyOf(c)
      BY <3>1 DEF KeyOf
    <3> QED
      BY <2>2, <2>3, <3>1, <3>2 DEF Claimed, Finished, Holds, InState, Live
  <2>4. CASE d # c
    <3>1. Finished(d) /\ UNCHANGED <<pc[d], req[d], run[d]>> /\ run[d] \in Run /\ KeyOf(d) \in Key
      BY <2>1, <2>2, <2>4, FinishedRows DEF Claimed, Owning
    <3>2. KeyOf(d) # KeyOf(c) /\ run[d] # r
      BY <2>1, <2>2, <3>1 DEF Claimed, Unused, Finished, Holds
    <3> QED
      BY <2>2, <3>1, <3>2, FinishedKept DEF Claimed
  <2> QED
    BY <2>3, <2>4
<1>5. ASSUME NEW c \in Call, BeginInsert(c) PROVE Finished(d)'
  <2>1. pc[c] = "insert" /\ ClaimKey(c, "insert") /\ ~InState(KeyOf(c), "RUNNING")
    BY <1>5 DEF BeginInsert, InState
  <2>2. PICK r \in Run : Claimed(c, r)
    BY <2>1, ClaimKeyRows
  <2>3. CASE d = c
    <3>1. UNCHANGED req /\ run'[c] = r
      BY <2>1, <2>2, <2>3 DEF Claimed
    <3>2. KeyOf(c)' = KeyOf(c)
      BY <3>1 DEF KeyOf
    <3> QED
      BY <2>2, <2>3, <3>1, <3>2 DEF Claimed, Finished, Holds, InState, Live
  <2>4. CASE d # c
    <3>1. Finished(d) /\ UNCHANGED <<pc[d], req[d], run[d]>> /\ run[d] \in Run /\ KeyOf(d) \in Key
      BY <2>1, <2>2, <2>4, FinishedRows DEF Claimed, Owning
    <3>2. KeyOf(d) # KeyOf(c) /\ run[d] # r
      BY <2>1, <2>2, <3>1 DEF Claimed, Unused, Finished, Holds
    <3> QED
      BY <2>2, <3>1, <3>2, FinishedKept DEF Claimed
  <2> QED
    BY <2>3, <2>4
<1>6. ASSUME NEW c \in Call, InsertCollides(c) PROVE Finished(d)'
  BY <1>6, FinishedKept DEF InsertCollides
<1>7. ASSUME NEW c \in Call, AcquireSucceeds(c) PROVE Finished(d)'
  BY <1>7, FinishedKept DEF AcquireSucceeds
<1>8. ASSUME NEW c \in Call, AcquireFails(c) PROVE Finished(d)'
  BY <1>8, FinishedKept DEF AcquireFails
<1>9. ASSUME NEW c \in Call, Register(c) PROVE Finished(d)'
  BY <1>9, FinishedKept DEF Register
<1>10. ASSUME NEW c \in Call, RegisterRefused(c) PROVE Finished(d)'
  BY <1>10, FinishedKept DEF RegisterRefused
<1>11. ASSUME NEW c \in Call, RunReturns(c) PROVE Finished(d)'
  BY <1>11, FinishedKept DEF RunReturns, EndExecution
<1>12. ASSUME NEW c \in Call, RunRaises(c) PROVE Finished(d)'
  BY <1>12, FinishedKept DEF RunRaises, EndExecution
<1>13. ASSUME NEW c \in Call, FinishRun(c) PROVE Finished(d)'
  <2>1. CASE Finished(c) /\ RecordResult(c)
    <3>1. Recorded(c)
      BY <1>13, <2>1, RecordResultRows DEF FinishRun, Owning
    <3>2. d # c /\ Finished(d) /\ UNCHANGED <<pc[d], req[d], run[d]>> /\ run[d] \in Run /\ KeyOf(d) \in Key
      BY <1>13, FinishedRows DEF FinishRun, Owning
    <3>3. run[d] # run[c]
      BY <1>13, <3>2 DEF FinishRun, Calls, Owning
    <3>4. claims'[KeyOf(d)] = claims[KeyOf(d)] /\ runs'[run[d]] = runs[run[d]]
      BY <2>1, <3>1, <3>2, <3>3, FinishedRows DEF Recorded, Holds, Finished
    <3> QED
      BY <3>2, <3>4, FinishedKept
  <2>2. CASE UNCHANGED dbVars
    BY <1>13, <2>2, FinishedKept DEF FinishRun
  <2> QED
    BY <1>13, <2>1, <2>2 DEF FinishRun
<1>14. ASSUME NEW c \in Call, FinishRaises(c) PROVE Finished(d)'
  <2>1. CASE Finished(c) /\ RecordResult(c)
    <3>1. Recorded(c)
      BY <1>14, <2>1, RecordResultRows DEF FinishRaises, Owning
    <3>2. d # c /\ Finished(d) /\ UNCHANGED <<pc[d], req[d], run[d]>> /\ run[d] \in Run /\ KeyOf(d) \in Key
      BY <1>14, FinishedRows DEF FinishRaises, Owning
    <3>3. run[d] # run[c]
      BY <1>14, <3>2 DEF FinishRaises, Calls, Owning
    <3>4. claims'[KeyOf(d)] = claims[KeyOf(d)] /\ runs'[run[d]] = runs[run[d]]
      BY <2>1, <3>1, <3>2, <3>3, FinishedRows DEF Recorded, Holds, Finished
    <3> QED
      BY <3>2, <3>4, FinishedKept
  <2>2. CASE UNCHANGED dbVars
    BY <1>14, <2>2, FinishedKept DEF FinishRaises
  <2> QED
    BY <1>14, <2>1, <2>2 DEF FinishRaises
<1>15. ASSUME NEW c \in Call, InvalidateWorker(c) PROVE Finished(d)'
  BY <1>15, FinishedKept DEF InvalidateWorker, EndExecution
<1>16. ASSUME NEW c \in Call, AbandonRun(c) PROVE Finished(d)'
  <2>1. CASE ReleaseClaim(c)
    <3>1. Released(c)
      BY <1>16, <2>1, ReleaseClaimRows DEF AbandonRun, Owning
    <3>2. d # c /\ Finished(d) /\ UNCHANGED <<pc[d], req[d], run[d]>> /\ run[d] \in Run /\ KeyOf(d) \in Key
      BY <1>16, FinishedRows DEF AbandonRun, Owning
    <3>3. run[d] # run[c]
      BY <1>16, <3>2 DEF AbandonRun, Calls, Owning
    <3>4. claims'[KeyOf(d)] = claims[KeyOf(d)] /\ runs'[run[d]] = runs[run[d]]
      BY <2>1, <3>1, <3>2, <3>3, FinishedRows DEF Released, Holds, Finished
    <3> QED
      BY <3>2, <3>4, FinishedKept
  <2>2. CASE UNCHANGED dbVars
    BY <1>16, <2>2, FinishedKept DEF AbandonRun
  <2> QED
    BY <1>16, <2>1, <2>2 DEF AbandonRun
<1>17. ASSUME NEW c \in Call, Leave(c) PROVE Finished(d)'
  BY <1>17, FinishedKept DEF Leave
<1>18. ASSUME NEW c \in Call, CancelFails(c) PROVE Finished(d)'
  BY <1>18, FinishedKept DEF CancelFails
<1>19. ASSUME NEW r \in Run, ExecutionEnds(r) PROVE Finished(d)'
  BY <1>19, FinishedKept DEF ExecutionEnds, EndExecution
<1>20. ASSUME NEW k \in Key, Expire(k) PROVE Finished(d)'
  <2>1. Finished(d) /\ UNCHANGED <<pc[d], req[d], run[d]>> /\ run[d] \in Run /\ KeyOf(d) \in Key
    BY <1>20, FinishedRows DEF Expire, Owning
  <2> QED
    BY <1>20, <2>1, ExpireRows, FinishedKept DEF Expire, Cached, InState, Finished, Holds
<1>21. ASSUME PurgeExpired PROVE Finished(d)'
  <2>1. Finished(d) /\ UNCHANGED <<pc[d], req[d], run[d]>> /\ run[d] \in Run /\ KeyOf(d) \in Key
    BY <1>21, FinishedRows DEF PurgeExpired, Owning
  <2>2. claims'[KeyOf(d)] = claims[KeyOf(d)]
    BY <1>21, <2>1, PurgeClaimsRows DEF PurgeExpired, Expired, InState, Finished, Holds
  <2> QED
    BY <1>21, <2>1, <2>2, FinishedKept DEF PurgeExpired
<1>22. ASSUME PurgeOldRuns PROVE Finished(d)'
  <2>1. Finished(d) /\ UNCHANGED <<pc[d], req[d], run[d]>> /\ run[d] \in Run /\ KeyOf(d) \in Key
    BY <1>22, FinishedRows DEF PurgeOldRuns, Owning
  <2>2. runs'[run[d]] = runs[run[d]]
    BY <1>22, <2>1 DEF PurgeOldRuns, Purgeable, Finished, Live
  <2> QED
    BY <1>22, <2>1, <2>2, FinishedKept DEF PurgeOldRuns
<1>23. ASSUME Crash PROVE Finished(d)'
  BY <1>23, FinishedKept DEF Crash
<1>24. ASSUME CleanSandboxes PROVE Finished(d)'
  BY <1>24, FinishedKept DEF CleanSandboxes
<1>25. ASSUME ResetRunning PROVE Finished(d)'
  BY <1>25 DEF ResetRunning, Calls
<1>26. ASSUME StartupPurge PROVE Finished(d)'
  <2>1. Finished(d) /\ UNCHANGED <<pc[d], req[d], run[d]>> /\ run[d] \in Run /\ KeyOf(d) \in Key
    BY <1>26, FinishedRows DEF StartupPurge, Owning
  <2>2. claims'[KeyOf(d)] = claims[KeyOf(d)]
    BY <1>26, <2>1, PurgeClaimsRows DEF StartupPurge, Expired, InState, Finished, Holds
  <2> QED
    BY <1>26, <2>1, <2>2, FinishedKept DEF StartupPurge
<1>27. CASE UNCHANGED vars
  BY <1>27, FinishedKept
<1> QED
  BY <1>1, <1>2, <1>3, <1>4, <1>5, <1>6, <1>7, <1>8, <1>9, <1>10, <1>11, <1>12, <1>13, <1>14,
     <1>15, <1>16, <1>17, <1>18, <1>19, <1>20, <1>21, <1>22, <1>23, <1>24, <1>25, <1>26, <1>27
     DEF Next, BeginStep, RunStep, Startup

-----------------------------------------------------------------------------
(***************************************************************************)
(* No overlap                                                              *)
(***************************************************************************)

LEMMA StepSealed == TypeOK /\ Calls /\ Tables /\ Sealed /\ [Next]_vars => Sealed'
<1> SUFFICES ASSUME TypeOK, Calls, Tables, Sealed, [Next]_vars PROVE Sealed'
  OBVIOUS
<1> SUFFICES ASSUME ~DeleteFaults, ~CancelFaults, LiveExecutions PROVE LiveExecutions'
  BY DEF Sealed
<1> USE DEF Goto, vars, callVars, dbVars, boxVars, Owning, LiveExecutions, TypeOK
<1>1. ASSUME NEW c \in Call, NEW q \in Request, Invoke(c, q) PROVE LiveExecutions'
  BY <1>1 DEF Invoke, Live
<1>2. ASSUME NEW c \in Call, BeginAnswered(c) PROVE LiveExecutions'
  BY <1>2 DEF BeginAnswered, Live
<1>3. ASSUME NEW c \in Call, BeginFindsNoRow(c) PROVE LiveExecutions'
  BY <1>3 DEF BeginFindsNoRow, Live
<1>4. ASSUME NEW c \in Call, BeginAgain(c) PROVE LiveExecutions'
  <2>1. pc[c] = "begin" /\ ClaimKey(c, "begin") /\ UNCHANGED <<server, boxVars>>
    BY <1>4 DEF BeginAgain, ClaimKey
  <2>2. PICK r \in Run : Claimed(c, r)
    BY <2>1, ClaimKeyRows
  <2>3. r \notin executing /\ \A s \in executing : runs'[s] = runs[s]
    BY <2>2 DEF Claimed, Unused
  <2> QED
    BY <2>1, <2>2, <2>3 DEF Claimed, Live
<1>5. ASSUME NEW c \in Call, BeginInsert(c) PROVE LiveExecutions'
  <2>1. pc[c] = "insert" /\ ClaimKey(c, "insert") /\ UNCHANGED <<server, boxVars>>
    BY <1>5 DEF BeginInsert, ClaimKey
  <2>2. PICK r \in Run : Claimed(c, r)
    BY <2>1, ClaimKeyRows
  <2>3. r \notin executing /\ \A s \in executing : runs'[s] = runs[s]
    BY <2>2 DEF Claimed, Unused
  <2> QED
    BY <2>1, <2>2, <2>3 DEF Claimed, Live
<1>6. ASSUME NEW c \in Call, InsertCollides(c) PROVE LiveExecutions'
  BY <1>6 DEF InsertCollides, Live
<1>7. ASSUME NEW c \in Call, AcquireSucceeds(c) PROVE LiveExecutions'
  BY <1>7 DEF AcquireSucceeds, Live
<1>8. ASSUME NEW c \in Call, AcquireFails(c) PROVE LiveExecutions'
  BY <1>8 DEF AcquireFails, Live
<1>9. ASSUME NEW c \in Call, Register(c) PROVE LiveExecutions'
  <2>1. run[c] \in Run /\ Live(run[c])
    BY <1>9 DEF Register, Tables, CompletionNeverLost, Finished
  <2>2. \A d \in Call : d # c => run[d] # run[c]
    BY <1>9 DEF Register, Calls
  <2>3. server = "serving" /\ UNCHANGED <<server, dbVars, condemned, run>>
    BY <1>9 DEF Register, Calls
  <2>4. \A d \in Call : d # c => pc'[d] = pc[d]
    BY <1>9 DEF Register
  <2>5. pc'[c] = "run" /\ executing' = executing \cup {run[c]}
    BY <1>9 DEF Register
  <2> QED
    BY <2>1, <2>2, <2>3, <2>4, <2>5 DEF Live
<1>10. ASSUME NEW c \in Call, RegisterRefused(c) PROVE LiveExecutions'
  BY <1>10 DEF RegisterRefused, Live
<1>11. ASSUME NEW c \in Call, RunReturns(c) PROVE LiveExecutions'
  BY <1>11 DEF RunReturns, EndExecution, Live
<1>12. ASSUME NEW c \in Call, RunRaises(c) PROVE LiveExecutions'
  BY <1>12 DEF RunRaises, EndExecution, Live
<1>13. ASSUME NEW c \in Call, FinishRun(c) PROVE LiveExecutions'
  <2>1. run[c] \in Run /\ run[c] \notin executing
    BY <1>13 DEF FinishRun
  <2>2. CASE Finished(c) /\ RecordResult(c)
    <3>1. Recorded(c)
      BY <1>13, <2>2, RecordResultRows DEF FinishRun
    <3>2. \A r \in executing : runs'[r] = runs[r]
      BY <2>1, <3>1 DEF Recorded
    <3> QED
      BY <1>13, <3>2 DEF FinishRun, Live
  <2>3. CASE UNCHANGED dbVars
    BY <1>13, <2>3 DEF FinishRun, Live
  <2> QED
    BY <1>13, <2>2, <2>3 DEF FinishRun
<1>14. ASSUME NEW c \in Call, FinishRaises(c) PROVE LiveExecutions'
  <2>1. run[c] \in Run /\ run[c] \notin executing
    BY <1>14 DEF FinishRaises
  <2>2. CASE Finished(c) /\ RecordResult(c)
    <3>1. Recorded(c)
      BY <1>14, <2>2, RecordResultRows DEF FinishRaises
    <3>2. \A r \in executing : runs'[r] = runs[r]
      BY <2>1, <3>1 DEF Recorded
    <3> QED
      BY <1>14, <3>2 DEF FinishRaises, Live
  <2>3. CASE UNCHANGED dbVars
    BY <1>14, <2>3 DEF FinishRaises, Live
  <2> QED
    BY <1>14, <2>2, <2>3 DEF FinishRaises
<1>15. ASSUME NEW c \in Call, InvalidateWorker(c) PROVE LiveExecutions'
  BY <1>15 DEF InvalidateWorker, EndExecution, Live
<1>16. ASSUME NEW c \in Call, AbandonRun(c) PROVE LiveExecutions'
  <2>1. run[c] \in Run /\ run[c] \notin executing
    BY <1>16 DEF AbandonRun
  <2>2. CASE ReleaseClaim(c)
    <3>1. Released(c)
      BY <1>16, <2>2, ReleaseClaimRows DEF AbandonRun
    <3>2. \A r \in executing : runs'[r] = runs[r]
      BY <2>1, <3>1 DEF Released
    <3> QED
      BY <1>16, <3>2 DEF AbandonRun, Live
  <2>3. CASE UNCHANGED dbVars
    BY <1>16, <2>3 DEF AbandonRun, Live
  <2> QED
    BY <1>16, <2>2, <2>3 DEF AbandonRun
<1>17. ASSUME NEW c \in Call, Leave(c) PROVE LiveExecutions'
  BY <1>17 DEF Leave, Live
<1>18. ASSUME NEW c \in Call, CancelFails(c) PROVE LiveExecutions'
  BY <1>18 DEF CancelFails, Live
<1>19. ASSUME NEW r \in Run, ExecutionEnds(r) PROVE LiveExecutions'
  BY <1>19 DEF ExecutionEnds, EndExecution, Live
<1>20. ASSUME NEW k \in Key, Expire(k) PROVE LiveExecutions'
  BY <1>20 DEF Expire, Live
<1>21. ASSUME PurgeExpired PROVE LiveExecutions'
  BY <1>21 DEF PurgeExpired, Live
<1>22. ASSUME PurgeOldRuns PROVE LiveExecutions'
  <2>1. \A r \in executing : runs'[r] = runs[r]
    BY <1>22 DEF PurgeOldRuns, Purgeable, Live
  <2> QED
    BY <1>22, <2>1 DEF PurgeOldRuns, Live
<1>23. ASSUME Crash PROVE LiveExecutions'
  BY <1>23 DEF Crash, Live
<1>24. ASSUME CleanSandboxes PROVE LiveExecutions'
  BY <1>24 DEF CleanSandboxes, Live
<1>25. ASSUME ResetRunning PROVE LiveExecutions'
  BY <1>25 DEF ResetRunning, Live
<1>26. ASSUME StartupPurge PROVE LiveExecutions'
  BY <1>26 DEF StartupPurge, Live
<1>27. CASE UNCHANGED vars
  BY <1>27 DEF Live
<1> QED
  BY <1>1, <1>2, <1>3, <1>4, <1>5, <1>6, <1>7, <1>8, <1>9, <1>10, <1>11, <1>12, <1>13, <1>14,
     <1>15, <1>16, <1>17, <1>18, <1>19, <1>20, <1>21, <1>22, <1>23, <1>24, <1>25, <1>26, <1>27
     DEF Next, BeginStep, RunStep, Startup

\* Two runs that are RUNNING are for different keys: each holds the claim of
\* its own, and a claim names one run.
LEMMA SealedNoOverlap == TypeOK /\ TablesAgree /\ Sealed => NoOverlap
<1> SUFFICES ASSUME TypeOK, TablesAgree, LiveExecutions PROVE AtMostOneExecution
  BY DEF NoOverlap, Sealed
<1> SUFFICES ASSUME NEW r \in executing, NEW s \in executing, r # s
             PROVE  runs[r].key # runs[s].key
  BY DEF AtMostOneExecution
<1>1. r \in Run /\ s \in Run /\ Live(r) /\ Live(s)
  BY DEF TypeOK, LiveExecutions
<1>2. Holds(runs[r].key, r) /\ Holds(runs[s].key, s)
  BY <1>1 DEF TablesAgree
<1> QED
  BY <1>2 DEF Holds

-----------------------------------------------------------------------------
(***************************************************************************)
(* No orphan                                                               *)
(***************************************************************************)
Owner(k, c) == pc[c] \in Owning /\ run[c] = claims[k].run /\ KeyOf(c) = k

Owned(k) == \E c \in Call : Owner(k, c)

LEMMA OwnerKept ==
  ASSUME NEW k \in Key, NEW d \in Call, Owner(k, d), pc'[d] \in Owning,
         UNCHANGED <<req[d], run[d]>>, claims'[k] = claims[k]
  PROVE  Owned(k)'
  BY DEF Owned, Owner, KeyOf

LEMMA StepNoOrphan == TypeOK /\ Calls /\ Tables /\ NoOrphanClaim /\ [Next]_vars => NoOrphanClaim'
<1> SUFFICES ASSUME TypeOK, Calls, Tables, NoOrphanClaim, [Next]_vars PROVE NoOrphanClaim'
  OBVIOUS
<1> SUFFICES ASSUME ~DbFaults, (server \in {"purge", "serving"})', NEW k \in Key,
                    InState(k, "RUNNING")'
             PROVE  Owned(k)'
  BY DEF NoOrphanClaim, Owned, Owner
<1>0. ASSUME server \in {"purge", "serving"}, InState(k, "RUNNING")
      PROVE  \E d \in Call : Owner(k, d)
  BY <1>0 DEF NoOrphanClaim, Owner
<1> USE DEF Goto, vars, callVars, dbVars, boxVars, TypeOK
<1>1. ASSUME NEW c \in Call, NEW q \in Request, Invoke(c, q) PROVE Owned(k)'
  <2>1. claims'[k] = claims[k] /\ server \in {"purge", "serving"} /\ InState(k, "RUNNING")
    BY <1>1 DEF Invoke, InState, Calls
  <2>2. PICK d \in Call : Owner(k, d)
    BY <2>1, <1>0
  <2> QED
    BY <1>1, <2>1, <2>2, OwnerKept DEF Invoke, Owner, Owning
<1>2. ASSUME NEW c \in Call, BeginAnswered(c) PROVE Owned(k)'
  <2>1. claims'[k] = claims[k] /\ server \in {"purge", "serving"} /\ InState(k, "RUNNING")
    BY <1>2 DEF BeginAnswered, InState, Calls
  <2>2. PICK d \in Call : Owner(k, d)
    BY <2>1, <1>0
  <2> QED
    BY <1>2, <2>1, <2>2, OwnerKept DEF BeginAnswered, Owner, Owning
<1>3. ASSUME NEW c \in Call, BeginFindsNoRow(c) PROVE Owned(k)'
  <2>1. claims'[k] = claims[k] /\ server \in {"purge", "serving"} /\ InState(k, "RUNNING")
    BY <1>3 DEF BeginFindsNoRow, InState, Calls
  <2>2. PICK d \in Call : Owner(k, d)
    BY <2>1, <1>0
  <2> QED
    BY <1>3, <2>1, <2>2, OwnerKept DEF BeginFindsNoRow, Owner, Owning
<1>4. ASSUME NEW c \in Call, BeginAgain(c) PROVE Owned(k)'
  <2>1. pc[c] = "begin" /\ ClaimKey(c, "begin") /\ server = "serving" /\ UNCHANGED server
    BY <1>4 DEF BeginAgain, ClaimKey, Calls
  <2>2. PICK r \in Run : Claimed(c, r)
    BY <2>1, ClaimKeyRows
  <2>3. CASE k = KeyOf(c)
    <3>1. claims'[k].run = r /\ pc'[c] = "acquire" /\ run'[c] = r /\ UNCHANGED req
      BY <2>2, <2>3 DEF Claimed
    <3> QED
      BY <3>1, <2>3 DEF Owned, Owner, KeyOf, Owning
  <2>4. CASE k # KeyOf(c)
    <3>1. claims'[k] = claims[k] /\ InState(k, "RUNNING")
      BY <2>2, <2>4 DEF Claimed, InState
    <3>2. PICK d \in Call : Owner(k, d)
      BY <2>1, <3>1, <1>0
    <3>3. d # c
      BY <2>1, <3>2 DEF Owner, Owning
    <3> QED
      BY <2>2, <3>1, <3>2, <3>3, OwnerKept DEF Claimed, Owner
  <2> QED
    BY <2>3, <2>4
<1>5. ASSUME NEW c \in Call, BeginInsert(c) PROVE Owned(k)'
  <2>1. pc[c] = "insert" /\ ClaimKey(c, "insert") /\ server = "serving" /\ UNCHANGED server
    BY <1>5 DEF BeginInsert, ClaimKey, Calls
  <2>2. PICK r \in Run : Claimed(c, r)
    BY <2>1, ClaimKeyRows
  <2>3. CASE k = KeyOf(c)
    <3>1. claims'[k].run = r /\ pc'[c] = "acquire" /\ run'[c] = r /\ UNCHANGED req
      BY <2>2, <2>3 DEF Claimed
    <3> QED
      BY <3>1, <2>3 DEF Owned, Owner, KeyOf, Owning
  <2>4. CASE k # KeyOf(c)
    <3>1. claims'[k] = claims[k] /\ InState(k, "RUNNING")
      BY <2>2, <2>4 DEF Claimed, InState
    <3>2. PICK d \in Call : Owner(k, d)
      BY <2>1, <3>1, <1>0
    <3>3. d # c
      BY <2>1, <3>2 DEF Owner, Owning
    <3> QED
      BY <2>2, <3>1, <3>2, <3>3, OwnerKept DEF Claimed, Owner
  <2> QED
    BY <2>3, <2>4
<1>6. ASSUME NEW c \in Call, InsertCollides(c) PROVE Owned(k)'
  <2>1. claims'[k] = claims[k] /\ server \in {"purge", "serving"} /\ InState(k, "RUNNING")
    BY <1>6 DEF InsertCollides, InState, Calls
  <2>2. PICK d \in Call : Owner(k, d)
    BY <2>1, <1>0
  <2> QED
    BY <1>6, <2>1, <2>2, OwnerKept DEF InsertCollides, Owner, Owning
<1>7. ASSUME NEW c \in Call, AcquireSucceeds(c) PROVE Owned(k)'
  <2>1. claims'[k] = claims[k] /\ server \in {"purge", "serving"} /\ InState(k, "RUNNING")
    BY <1>7 DEF AcquireSucceeds, InState, Calls
  <2>2. PICK d \in Call : Owner(k, d)
    BY <2>1, <1>0
  <2> QED
    BY <1>7, <2>1, <2>2, OwnerKept DEF AcquireSucceeds, Owner, Owning
<1>8. ASSUME NEW c \in Call, AcquireFails(c) PROVE Owned(k)'
  <2>1. claims'[k] = claims[k] /\ server \in {"purge", "serving"} /\ InState(k, "RUNNING")
    BY <1>8 DEF AcquireFails, InState, Calls
  <2>2. PICK d \in Call : Owner(k, d)
    BY <2>1, <1>0
  <2> QED
    BY <1>8, <2>1, <2>2, OwnerKept DEF AcquireFails, Owner, Owning
<1>9. ASSUME NEW c \in Call, Register(c) PROVE Owned(k)'
  <2>1. claims'[k] = claims[k] /\ server \in {"purge", "serving"} /\ InState(k, "RUNNING")
    BY <1>9 DEF Register, InState, Calls
  <2>2. PICK d \in Call : Owner(k, d)
    BY <2>1, <1>0
  <2> QED
    BY <1>9, <2>1, <2>2, OwnerKept DEF Register, Owner, Owning
<1>10. ASSUME NEW c \in Call, RegisterRefused(c) PROVE Owned(k)'
  <2>1. claims'[k] = claims[k] /\ server \in {"purge", "serving"} /\ InState(k, "RUNNING")
    BY <1>10 DEF RegisterRefused, InState, Calls
  <2>2. PICK d \in Call : Owner(k, d)
    BY <2>1, <1>0
  <2> QED
    BY <1>10, <2>1, <2>2, OwnerKept DEF RegisterRefused, Owner, Owning
<1>11. ASSUME NEW c \in Call, RunReturns(c) PROVE Owned(k)'
  <2>1. claims'[k] = claims[k] /\ server \in {"purge", "serving"} /\ InState(k, "RUNNING")
    BY <1>11 DEF RunReturns, InState, Calls
  <2>2. PICK d \in Call : Owner(k, d)
    BY <2>1, <1>0
  <2> QED
    BY <1>11, <2>1, <2>2, OwnerKept DEF RunReturns, Owner, Owning, EndExecution
<1>12. ASSUME NEW c \in Call, RunRaises(c) PROVE Owned(k)'
  <2>1. claims'[k] = claims[k] /\ server \in {"purge", "serving"} /\ InState(k, "RUNNING")
    BY <1>12 DEF RunRaises, InState, Calls
  <2>2. PICK d \in Call : Owner(k, d)
    BY <2>1, <1>0
  <2> QED
    BY <1>12, <2>1, <2>2, OwnerKept DEF RunRaises, Owner, Owning, EndExecution
<1>13. ASSUME NEW c \in Call, FinishRun(c) PROVE Owned(k)'
  <2>1. Finished(c) /\ Recorded(c)
    BY <1>13, RecordResultRows DEF FinishRun, Tables, CompletionNeverLost, Owning
  <2>2. k # KeyOf(c) /\ claims'[k] = claims[k] /\ server = "serving" /\ InState(k, "RUNNING")
    BY <1>13, <2>1 DEF FinishRun, Recorded, InState, Calls
  <2>3. PICK d \in Call : Owner(k, d)
    BY <2>2, <1>0
  <2>4. d # c
    BY <2>2, <2>3 DEF Owner
  <2> QED
    BY <1>13, <2>2, <2>3, <2>4, OwnerKept DEF FinishRun, Owner
<1>14. ASSUME NEW c \in Call, FinishRaises(c) PROVE Owned(k)'
  BY <1>14 DEF FinishRaises
<1>15. ASSUME NEW c \in Call, InvalidateWorker(c) PROVE Owned(k)'
  <2>1. claims'[k] = claims[k] /\ server \in {"purge", "serving"} /\ InState(k, "RUNNING")
    BY <1>15 DEF InvalidateWorker, InState, Calls
  <2>2. PICK d \in Call : Owner(k, d)
    BY <2>1, <1>0
  <2> QED
    BY <1>15, <2>1, <2>2, OwnerKept DEF InvalidateWorker, Owner, Owning, EndExecution
<1>16. ASSUME NEW c \in Call, AbandonRun(c) PROVE Owned(k)'
  <2>1. Released(c)
    BY <1>16, ReleaseClaimRows DEF AbandonRun, Owning
  <2>2. claims'[k] = claims[k] /\ server = "serving" /\ InState(k, "RUNNING")
        /\ ~(KeyOf(c) = k /\ run[c] = claims[k].run)
    BY <1>16, <2>1 DEF AbandonRun, Released, InState, Holds, Calls
  <2>3. PICK d \in Call : Owner(k, d)
    BY <2>2, <1>0
  <2>4. d # c
    BY <2>2, <2>3 DEF Owner
  <2> QED
    BY <1>16, <2>2, <2>3, <2>4, OwnerKept DEF AbandonRun, Owner
<1>17. ASSUME NEW c \in Call, Leave(c) PROVE Owned(k)'
  <2>1. claims'[k] = claims[k] /\ server \in {"purge", "serving"} /\ InState(k, "RUNNING")
    BY <1>17 DEF Leave, InState, Calls
  <2>2. PICK d \in Call : Owner(k, d)
    BY <2>1, <1>0
  <2> QED
    BY <1>17, <2>1, <2>2, OwnerKept DEF Leave, Owner, Owning
<1>18. ASSUME NEW c \in Call, CancelFails(c) PROVE Owned(k)'
  <2>1. claims'[k] = claims[k] /\ server \in {"purge", "serving"} /\ InState(k, "RUNNING")
    BY <1>18 DEF CancelFails, InState, Calls
  <2>2. PICK d \in Call : Owner(k, d)
    BY <2>1, <1>0
  <2> QED
    BY <1>18, <2>1, <2>2, OwnerKept DEF CancelFails, Owner, Owning
<1>19. ASSUME NEW r \in Run, ExecutionEnds(r) PROVE Owned(k)'
  <2>1. claims'[k] = claims[k] /\ server \in {"purge", "serving"} /\ InState(k, "RUNNING")
    BY <1>19 DEF ExecutionEnds, InState, Calls
  <2>2. PICK d \in Call : Owner(k, d)
    BY <2>1, <1>0
  <2> QED
    BY <1>19, <2>1, <2>2, OwnerKept DEF ExecutionEnds, Owner, Owning, EndExecution
<1>20. ASSUME NEW j \in Key, Expire(j) PROVE Owned(k)'
  <2>1. claims'[k] = claims[k] /\ server \in {"purge", "serving"} /\ InState(k, "RUNNING")
    BY <1>20, ExpireRows DEF Expire, Cached, InState, Calls
  <2>2. PICK d \in Call : Owner(k, d)
    BY <2>1, <1>0
  <2> QED
    BY <1>20, <2>1, <2>2, OwnerKept DEF Expire, Owner
<1>21. ASSUME PurgeExpired PROVE Owned(k)'
  <2>1. claims'[k] = claims[k] /\ server \in {"purge", "serving"} /\ InState(k, "RUNNING")
    BY <1>21, PurgeClaimsRows DEF PurgeExpired, Expired, InState, Calls
  <2>2. PICK d \in Call : Owner(k, d)
    BY <2>1, <1>0
  <2> QED
    BY <1>21, <2>1, <2>2, OwnerKept DEF PurgeExpired, Owner, Owning
<1>22. ASSUME PurgeOldRuns PROVE Owned(k)'
  <2>1. claims'[k] = claims[k] /\ server \in {"purge", "serving"} /\ InState(k, "RUNNING")
    BY <1>22 DEF PurgeOldRuns, InState, Calls
  <2>2. PICK d \in Call : Owner(k, d)
    BY <2>1, <1>0
  <2> QED
    BY <1>22, <2>1, <2>2, OwnerKept DEF PurgeOldRuns, Owner, Owning
<1>23. ASSUME Crash PROVE Owned(k)'
  BY <1>23 DEF Crash
<1>24. ASSUME CleanSandboxes PROVE Owned(k)'
  BY <1>24 DEF CleanSandboxes
<1>25. ASSUME ResetRunning PROVE Owned(k)'
  BY <1>25, ResetRunningRows DEF InState
<1>26. ASSUME StartupPurge PROVE Owned(k)'
  <2>1. claims'[k] = claims[k] /\ server \in {"purge", "serving"} /\ InState(k, "RUNNING")
    BY <1>26, PurgeClaimsRows DEF StartupPurge, Expired, InState, Calls
  <2>2. PICK d \in Call : Owner(k, d)
    BY <2>1, <1>0
  <2> QED
    BY <1>26, <2>1, <2>2, OwnerKept DEF StartupPurge, Owner, Owning
<1>27. CASE UNCHANGED vars
  <2>1. claims'[k] = claims[k] /\ server \in {"purge", "serving"} /\ InState(k, "RUNNING")
    BY <1>27 DEF InState, Calls
  <2>2. PICK d \in Call : Owner(k, d)
    BY <2>1, <1>0
  <2> QED
    BY <1>27, <2>1, <2>2, OwnerKept DEF Owner, Owning
<1> QED
  BY <1>1, <1>2, <1>3, <1>4, <1>5, <1>6, <1>7, <1>8, <1>9, <1>10, <1>11, <1>12, <1>13, <1>14,
     <1>15, <1>16, <1>17, <1>18, <1>19, <1>20, <1>21, <1>22, <1>23, <1>24, <1>25, <1>26, <1>27
     DEF Next, BeginStep, RunStep, Startup

-----------------------------------------------------------------------------
(***************************************************************************)
(* The claims implement IdempotentExecution                                *)
(***************************************************************************)
HolderOf(k) ==
  IF InState(k, "RUNNING") THEN [run |-> claims[k].run, status |-> "running"]
  ELSE IF Cached(k) THEN [run |-> claims[k].run, status |-> "recorded"]
  ELSE None

LEMMA HolderOfPrimed ==
  ASSUME NEW k \in Key
  PROVE  HolderOf(k)' =
           IF claims'[k] # None /\ claims'[k].state = "RUNNING"
             THEN [run |-> claims'[k].run, status |-> "running"]
           ELSE IF /\ claims'[k] # None /\ claims'[k].state = "DONE"
                   /\ claims'[k].replayable /\ ~claims'[k].expired
             THEN [run |-> claims'[k].run, status |-> "recorded"]
           ELSE None
  BY DEF HolderOf, InState, Cached

LEMMA HolderBarPrimed == holderBar' = [k \in Key |-> HolderOf(k)']
  BY DEF holderBar, HolderOf

LEMMA HolderBarAt == holderBar = [k \in Key |-> HolderOf(k)]
  BY DEF holderBar, HolderOf

\* The abstract state tells the states of a claim apart.
LEMMA HolderStates ==
  ASSUME TypeOK, NEW k \in Key
  PROVE  /\ InState(k, "RUNNING") => /\ Abstract!Is(k, "running")
                                     /\ holderBar[k].run = claims[k].run
         /\ Cached(k) => Abstract!Is(k, "recorded") /\ holderBar[k].run = claims[k].run
         /\ ~InState(k, "RUNNING") /\ ~Cached(k) => holderBar[k] = None
<1>1. holderBar[k] = HolderOf(k)
  BY HolderBarAt
<1>2. claims[k] # None => claims[k].run \in Run
  BY RowTypes
<1>3. ASSUME InState(k, "RUNNING")
      PROVE  Abstract!Is(k, "running") /\ holderBar[k].run = claims[k].run
  <2>1. holderBar[k] = [run |-> claims[k].run, status |-> "running"]
    BY <1>1, <1>3 DEF HolderOf
  <2>2. holderBar[k] \in [run : Run, status : {"running", "recorded"}]
    BY <1>2, <1>3, <2>1 DEF InState
  <2> QED
    BY <2>1, <2>2, ConstantsAssumption DEF Abstract!Is
<1>4. ASSUME Cached(k)
      PROVE  Abstract!Is(k, "recorded") /\ holderBar[k].run = claims[k].run
  <2>1. holderBar[k] = [run |-> claims[k].run, status |-> "recorded"]
    BY <1>1, <1>4 DEF HolderOf, Cached, InState
  <2>2. holderBar[k] \in [run : Run, status : {"running", "recorded"}]
    BY <1>2, <1>4, <2>1 DEF InState, Cached
  <2> QED
    BY <2>1, <2>2, ConstantsAssumption DEF Abstract!Is
<1>5. ~InState(k, "RUNNING") /\ ~Cached(k) => holderBar[k] = None
  BY <1>1 DEF HolderOf
<1> QED
  BY <1>3, <1>4, <1>5

LEMMA HolderKept ==
  ASSUME \A k \in Key : HolderOf(k)' = HolderOf(k)
  PROVE  UNCHANGED holderBar
  BY HolderBarAt, HolderBarPrimed

\* A new claim begins a run.
LEMMA ClaimedBegins ==
  ASSUME TypeOK, NEW c \in Call, NEW r \in Run, Claimed(c, r),
         ~InState(KeyOf(c), "RUNNING"), ~Cached(KeyOf(c))
  PROVE  Abstract!Begin(KeyOf(c), r)
<1>0. PICK k \in Key : k = KeyOf(c)
  BY DEF Claimed
<1>1. holderBar[KeyOf(c)] = None
  BY HolderStates DEF Claimed
<1>2. ASSUME NEW j \in Key, holderBar[j] # None PROVE holderBar[j].run # r
  <2>1. holderBar[j].run = claims[j].run /\ claims[j] # None
    BY <1>2, HolderStates DEF InState, Cached
  <2> QED
    BY <2>1 DEF Claimed, Unused
<1>3. HolderOf(k)' = [run |-> r, status |-> "running"]
  <2>1. claims'[k] # None /\ claims'[k].state = "RUNNING" /\ claims'[k].run = r
    BY <1>0 DEF Claimed
  <2> QED
    BY <2>1, HolderOfPrimed
<1>4. ASSUME NEW j \in Key, j # k PROVE HolderOf(j)' = HolderOf(j)
  BY <1>0, <1>4 DEF Claimed, HolderOf, InState, Cached
<1>5. holderBar' = [holderBar EXCEPT ![k] = [run |-> r, status |-> "running"]]
  BY <1>3, <1>4, HolderBarAt, HolderBarPrimed
<1> QED
  BY <1>0, <1>1, <1>2, <1>5 DEF Abstract!Begin

\* A final result is recorded, a retryable one releases the key.
LEMMA RecordedRecords ==
  ASSUME TypeOK, NEW c \in Call, Finished(c), Recorded(c)
  PROVE  \/ Abstract!Record(KeyOf(c)) \/ Abstract!Release({KeyOf(c)})
<1>0. PICK k \in Key : k = KeyOf(c)
  BY DEF Recorded
<1>1. InState(k, "RUNNING") /\ claims[k].run = run[c]
  BY <1>0 DEF Finished, Holds
<1>2. Abstract!Is(k, "running")
  BY <1>1, HolderStates DEF Abstract!Is
<1>3. ASSUME NEW j \in Key, j # k PROVE HolderOf(j)' = HolderOf(j)
  BY <1>0, <1>3 DEF Recorded, HolderOf, InState, Cached
<1>4. HolderOf(k)' = IF final[c] THEN [run |-> run[c], status |-> "recorded"] ELSE None
  <2>1. /\ claims'[k] \in Claim /\ claims'[k] # None /\ claims'[k].state = "DONE"
        /\ claims'[k].run = run[c] /\ (claims'[k].replayable <=> final[c])
        /\ (claims'[k].expired <=> ~final[c])
    BY <1>0, ConstantsAssumption DEF Recorded
  <2> QED
    BY <2>1, HolderOfPrimed, <1>1
<1>5. CASE final[c]
  <2>1. [holderBar[k] EXCEPT !.status = "recorded"] = [run |-> run[c], status |-> "recorded"]
    <3>1. holderBar[k] = [run |-> run[c], status |-> "running"]
      BY <1>1, HolderBarAt DEF HolderOf
    <3> QED
      BY <3>1
  <2>2. holderBar' = [holderBar EXCEPT ![k] = [run |-> run[c], status |-> "recorded"]]
    BY <1>1, <1>3, <1>4, <1>5, HolderBarAt, HolderBarPrimed
  <2>3. holderBar' = [holderBar EXCEPT ![k].status = "recorded"]
    BY <2>1, <2>2, HolderBarAt
  <2> QED
    BY <1>0, <1>2, <2>3 DEF Abstract!Record
<1>6. CASE ~final[c]
  <2>1. holderBar' = [j \in Key |-> IF j \in {k} THEN None ELSE holderBar[j]]
    BY <1>1, <1>3, <1>4, <1>6, HolderBarAt, HolderBarPrimed
  <2> QED
    BY <1>0, <1>2, <2>1 DEF Abstract!Release
<1> QED
  BY <1>5, <1>6

\* Giving up a claim releases its key.
LEMMA ReleasedReleases ==
  ASSUME TypeOK, NEW c \in Call, Released(c)
  PROVE  Abstract!Release({KeyOf(c)}) \/ UNCHANGED holderBar
<1>0. PICK k \in Key : k = KeyOf(c)
  BY DEF Released
<1>1. ASSUME NEW j \in Key, j # k PROVE HolderOf(j)' = HolderOf(j)
  BY <1>0, <1>1 DEF Released, HolderOf, InState, Cached
<1>2. CASE Holds(k, run[c])
  <2>1. Abstract!Is(k, "running") 
    BY <1>2, HolderStates DEF Abstract!Is, Holds
  <2>2. HolderOf(k)' = None
    BY <1>0, <1>2, HolderOfPrimed DEF Released
  <2>3. holderBar' = [j \in Key |-> IF j \in {k} THEN None ELSE holderBar[j]]
    BY <1>1, <2>2, HolderBarAt, HolderBarPrimed
  <2> QED
    BY <1>0, <2>1, <2>3 DEF Abstract!Release
<1>3. CASE ~Holds(k, run[c])
  <2>1. HolderOf(k)' = HolderOf(k)
    BY <1>0, <1>3 DEF Released, HolderOf, InState, Cached
  <2> QED
    BY <1>1, <2>1, HolderKept
<1> QED
  BY <1>2, <1>3

\* A restart releases every key that was running.
LEMMA ResetReleases ==
  ASSUME TypeOK, ResetRunning
  PROVE  Abstract!Release({k \in Key : InState(k, "RUNNING")})
<1> DEFINE K == {k \in Key : InState(k, "RUNNING")}
<1>1. \A k \in K : Abstract!Is(k, "running")
  BY HolderStates DEF Abstract!Is
<1>2. ASSUME NEW k \in Key PROVE HolderOf(k)' = IF k \in K THEN None ELSE HolderOf(k)
  <2>1. claims'[k] = IF k \in K THEN None ELSE claims[k]
    BY ResetRunningRows
  <2>2. CASE k \in K
    BY <2>1, <2>2, HolderOfPrimed
  <2>3. CASE k \notin K
    BY <2>1, <2>3 DEF HolderOf, InState, Cached
  <2> QED
    BY <2>2, <2>3
<1>3. holderBar' = [k \in Key |-> IF k \in K THEN None ELSE holderBar[k]]
  BY <1>2, HolderBarAt, HolderBarPrimed
<1> QED
  BY <1>1, <1>3 DEF Abstract!Release

\* Time makes the Runner forget a result.
LEMMA ExpireForgets ==
  ASSUME TypeOK, NEW k \in Key, Expire(k)
  PROVE  Abstract!Forget(k)
<1>1. Abstract!Is(k, "recorded")
  BY HolderStates DEF Expire, Abstract!Is
<1>2. HolderOf(k)' = None
  BY ExpireRows, HolderOfPrimed
<1>3. ASSUME NEW j \in Key, j # k PROVE HolderOf(j)' = HolderOf(j)
  BY <1>3, ExpireRows DEF HolderOf, InState, Cached
<1>4. holderBar' = [holderBar EXCEPT ![k] = None]
  BY <1>2, <1>3, HolderBarAt, HolderBarPrimed
<1> QED
  BY <1>1, <1>4 DEF Abstract!Forget

LEMMA PurgeKeepsHolders ==
  ASSUME TypeOK, PurgeClaims
  PROVE  UNCHANGED holderBar
<1>1. ASSUME NEW k \in Key PROVE HolderOf(k)' = HolderOf(k)
  BY PurgeClaimsRows DEF HolderOf, InState, Cached, Expired
<1> QED
  BY <1>1, HolderKept

LEMMA ClaimsKept == ASSUME UNCHANGED claims PROVE UNCHANGED holderBar
  BY HolderKept DEF HolderOf, InState, Cached

LEMMA StepAbstract == TypeOK /\ Calls /\ Tables /\ [Next]_vars => [Abstract!Next]_holderBar
<1> SUFFICES ASSUME TypeOK, Calls, Tables, [Next]_vars PROVE [Abstract!Next]_holderBar
  OBVIOUS
<1> USE DEF Abstract!Next
<1>1. ASSUME NEW c \in Call, BeginAgain(c) PROVE [Abstract!Next]_holderBar
  <2>1. /\ pc[c] = "begin" /\ ClaimKey(c, "begin")
        /\ ~InState(KeyOf(c), "RUNNING") /\ ~Cached(KeyOf(c))
    BY <1>1 DEF BeginAgain, InState, Cached
  <2>2. PICK r \in Run : Claimed(c, r)
    BY <2>1, ClaimKeyRows
  <2>3. KeyOf(c) \in Key
    BY <2>2 DEF Claimed
  <2> QED
    BY <2>1, <2>2, <2>3, ClaimedBegins
<1>2. ASSUME NEW c \in Call, BeginInsert(c) PROVE [Abstract!Next]_holderBar
  <2>1. /\ pc[c] = "insert" /\ ClaimKey(c, "insert")
        /\ ~InState(KeyOf(c), "RUNNING") /\ ~Cached(KeyOf(c))
    BY <1>2 DEF BeginInsert, InState, Cached
  <2>2. PICK r \in Run : Claimed(c, r)
    BY <2>1, ClaimKeyRows
  <2>3. KeyOf(c) \in Key
    BY <2>2 DEF Claimed
  <2> QED
    BY <2>1, <2>2, <2>3, ClaimedBegins
<1>3. ASSUME NEW c \in Call, FinishRun(c) PROVE [Abstract!Next]_holderBar
  <2>1. CASE Finished(c) /\ RecordResult(c)
    <3>1. Recorded(c)
      BY <1>3, <2>1, RecordResultRows DEF FinishRun, Goto, TypeOK, Owning
    <3>2. KeyOf(c) \in Key
      BY <3>1 DEF Recorded
    <3> QED
      BY <2>1, <3>1, <3>2, RecordedRecords
  <2>2. CASE UNCHANGED dbVars
    BY <2>2, ClaimsKept DEF dbVars
  <2> QED
    BY <1>3, <2>1, <2>2 DEF FinishRun
<1>4. ASSUME NEW c \in Call, FinishRaises(c) PROVE [Abstract!Next]_holderBar
  <2>1. CASE Finished(c) /\ RecordResult(c)
    <3>1. Recorded(c)
      BY <1>4, <2>1, RecordResultRows DEF FinishRaises, Goto, TypeOK, Owning
    <3>2. KeyOf(c) \in Key
      BY <3>1 DEF Recorded
    <3> QED
      BY <2>1, <3>1, <3>2, RecordedRecords
  <2>2. CASE UNCHANGED dbVars
    BY <2>2, ClaimsKept DEF dbVars
  <2> QED
    BY <1>4, <2>1, <2>2 DEF FinishRaises
<1>5. ASSUME NEW c \in Call, AbandonRun(c) PROVE [Abstract!Next]_holderBar
  <2>1. CASE ReleaseClaim(c)
    <3>1. Released(c)
      BY <1>5, <2>1, ReleaseClaimRows DEF AbandonRun, Goto, TypeOK, Owning
    <3>2. KeyOf(c) \in Key
      BY <3>1 DEF Released
    <3> QED
      BY <2>1, <3>1, <3>2, ReleasedReleases
  <2>2. CASE UNCHANGED dbVars
    BY <2>2, ClaimsKept DEF dbVars
  <2> QED
    BY <1>5, <2>1, <2>2 DEF AbandonRun
<1>6. ASSUME NEW k \in Key, Expire(k) PROVE [Abstract!Next]_holderBar
  BY <1>6, ExpireForgets
<1>7. ASSUME PurgeExpired PROVE [Abstract!Next]_holderBar
  BY <1>7, PurgeKeepsHolders DEF PurgeExpired
<1>8. ASSUME PurgeOldRuns PROVE [Abstract!Next]_holderBar
  BY <1>8, ClaimsKept DEF PurgeOldRuns, dbVars
<1>9. ASSUME ResetRunning PROVE [Abstract!Next]_holderBar
  BY <1>9, ResetReleases
<1>10. ASSUME StartupPurge PROVE [Abstract!Next]_holderBar
  BY <1>10, PurgeKeepsHolders DEF StartupPurge
<1>11. CASE UNCHANGED dbVars
  BY <1>11, ClaimsKept DEF dbVars
<1> QED
  BY <1>1, <1>2, <1>3, <1>4, <1>5, <1>6, <1>7, <1>8, <1>9, <1>10, <1>11, DatabaseSteps

-----------------------------------------------------------------------------
(***************************************************************************)
(* What is recorded                                                        *)
(***************************************************************************)
Recording(r) ==
  runs[r] # None /\ runs[r].state = "DONE" /\ runs'[r] # None => runs'[r].state = "DONE"

LEMMA StepRecording == TypeOK /\ Calls /\ [Next]_vars => \A r \in Run : Recording(r)
<1> SUFFICES ASSUME TypeOK, Calls, [Next]_vars PROVE \A r \in Run : Recording(r)
  OBVIOUS
<1> SUFFICES ASSUME NEW u \in Run PROVE Recording(u)
  OBVIOUS
<1> USE DEF Recording, vars, callVars, dbVars, boxVars
<1>1. ASSUME NEW c \in Call, BeginAgain(c) PROVE Recording(u)
  <2>1. pc[c] = "begin" /\ ClaimKey(c, "begin")
    BY <1>1 DEF BeginAgain
  <2>2. PICK r \in Run : Claimed(c, r)
    BY <2>1, ClaimKeyRows
  <2> QED
    BY <2>2 DEF Claimed, Unused
<1>2. ASSUME NEW c \in Call, BeginInsert(c) PROVE Recording(u)
  <2>1. pc[c] = "insert" /\ ClaimKey(c, "insert")
    BY <1>2 DEF BeginInsert
  <2>2. PICK r \in Run : Claimed(c, r)
    BY <2>1, ClaimKeyRows
  <2> QED
    BY <2>2 DEF Claimed, Unused
<1>3. ASSUME NEW c \in Call, FinishRun(c) PROVE Recording(u)
  <2>1. CASE Finished(c) /\ RecordResult(c)
    <3>1. Recorded(c)
      BY <1>3, <2>1, RecordResultRows DEF FinishRun, Goto, TypeOK, Owning
    <3> QED
      BY <2>1, <3>1 DEF Recorded, Live
  <2>2. CASE UNCHANGED dbVars
    BY <2>2
  <2> QED
    BY <1>3, <2>1, <2>2 DEF FinishRun
<1>4. ASSUME NEW c \in Call, FinishRaises(c) PROVE Recording(u)
  <2>1. CASE Finished(c) /\ RecordResult(c)
    <3>1. Recorded(c)
      BY <1>4, <2>1, RecordResultRows DEF FinishRaises, Goto, TypeOK, Owning
    <3> QED
      BY <2>1, <3>1 DEF Recorded, Live
  <2>2. CASE UNCHANGED dbVars
    BY <2>2
  <2> QED
    BY <1>4, <2>1, <2>2 DEF FinishRaises
<1>5. ASSUME NEW c \in Call, AbandonRun(c) PROVE Recording(u)
  <2>1. CASE ReleaseClaim(c)
    <3>1. Released(c)
      BY <1>5, <2>1, ReleaseClaimRows DEF AbandonRun, Goto, TypeOK, Owning
    <3> QED
      BY <2>1, <3>1 DEF Released, Live
  <2>2. CASE UNCHANGED dbVars
    BY <2>2
  <2> QED
    BY <1>5, <2>1, <2>2 DEF AbandonRun
<1>6. ASSUME NEW k \in Key, Expire(k) PROVE Recording(u)
  BY <1>6 DEF Expire
<1>7. ASSUME PurgeExpired PROVE Recording(u)
  BY <1>7 DEF PurgeExpired
<1>8. ASSUME PurgeOldRuns PROVE Recording(u)
  BY <1>8 DEF PurgeOldRuns, Purgeable, TypeOK
<1>9. ASSUME ResetRunning PROVE Recording(u)
  BY <1>9, ResetRunningRows DEF Live
<1>10. ASSUME StartupPurge PROVE Recording(u)
  BY <1>10 DEF StartupPurge
<1>11. CASE UNCHANGED dbVars
  BY <1>11
<1> QED
  BY <1>1, <1>2, <1>3, <1>4, <1>5, <1>6, <1>7, <1>8, <1>9, <1>10, <1>11, DatabaseSteps

-----------------------------------------------------------------------------
(***************************************************************************)
(* The inductive invariant                                                 *)
(***************************************************************************)
LEMMA InitIInv == Init => IInv
<1> SUFFICES ASSUME Init PROVE IInv
  OBVIOUS
<1>1. TypeOK
  BY ConstantsAssumption DEF Init, TypeOK, Location, Owning
<1>2. Calls /\ Sealed
  BY ConstantsAssumption DEF Init, Calls, Sealed, LiveExecutions, Owning
<1>3. Tables /\ NoOrphanClaim
  BY DEF Init, Tables, TablesAgree, CompletionNeverLost, NoOrphanClaim, InState, Live, Cached
<1> QED
  BY <1>1, <1>2, <1>3 DEF IInv

LEMMA StepIInv == IInv /\ [Next]_vars => IInv'
<1> SUFFICES ASSUME IInv, [Next]_vars PROVE IInv'
  OBVIOUS
<1> USE DEF IInv
<1>1. TypeOK' /\ Calls'
  BY StepType, StepCalls
<1>2. Tables'
  BY StepTablesAgree, StepCompletion DEF Tables
<1>3. Sealed' /\ NoOrphanClaim'
  BY StepSealed, StepNoOrphan
<1> QED
  BY <1>1, <1>2, <1>3

\* What every reachable state satisfies.
THEOREM Invariance == Spec => []IInv
  BY InitIInv, StepIInv, PTL DEF Spec

-----------------------------------------------------------------------------
(***************************************************************************)
(* Results                                                                 *)
(***************************************************************************)

\* The model of RunnerService and RunnerDB is well typed.
THEOREM TypeCorrect == Spec => []TypeOK
<1>1. IInv => TypeOK
  BY DEF IInv
<1> QED
  BY <1>1, Invariance, PTL

\* No two runs of one key execute at a time, whatever the database and the
\* process do, while sandboxes can be deleted and cancel requests arrive.
THEOREM OneExecutionPerKey == Spec => []NoOverlap
<1>1. IInv => NoOverlap
  BY SealedNoOverlap DEF IInv, Tables
<1> QED
  BY <1>1, Invariance, PTL

\* runner.idempotency_keys and runner.runs agree after every transaction.
THEOREM TablesAlwaysAgree == Spec => []TablesAgree
<1>1. IInv => TablesAgree
  BY DEF IInv, Tables
<1> QED
  BY <1>1, Invariance, PTL

\* finish_run never raises RUN_STATE_LOST or IDEMPOTENCY_STATE_LOST.
THEOREM NoCompletionLost == Spec => []CompletionNeverLost
<1>1. IInv => CompletionNeverLost
  BY DEF IInv, Tables
<1> QED
  BY <1>1, Invariance, PTL

\* Without database errors every claim of a serving process has a call.
THEOREM EveryClaimIsOwned == Spec => []NoOrphanClaim
<1>1. IInv => NoOrphanClaim
  BY DEF IInv
<1> QED
  BY <1>1, Invariance, PTL

\* abandon_run, finish_run and reset_running never rewrite a finished row.
THEOREM ResultsStay == Spec => RecordedForGood
<1>1. IInv /\ [Next]_vars =>
        [\A r \in Run : runs[r] # None /\ runs[r].state = "DONE" /\ runs'[r] # None
           => runs'[r].state = "DONE"]_vars
  BY StepRecording DEF IInv, Recording
<1> QED
  BY <1>1, Invariance, PTL DEF Spec, RecordedForGood

\* The claims of RunnerDB, driven by RunnerService.invoke, startup and the
\* maintenance loop, implement the abstract idempotency keys.
THEOREM Implements == Spec => ImplementsIdempotentExecution
<1>1. Init => Abstract!Init
  BY DEF Init, Abstract!Init, holderBar, InState, Cached
<1>2. IInv /\ [Next]_vars => [Abstract!Next]_holderBar
  BY StepAbstract DEF IInv
<1> QED
  BY <1>1, <1>2, Invariance, PTL DEF Spec, ImplementsIdempotentExecution, Abstract!Spec
=============================================================================
