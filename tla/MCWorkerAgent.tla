--------------------------- MODULE MCWorkerAgent ---------------------------
EXTENDS WorkerAgent, TLC

CONSTANTS r1, r2, r3

\* The second run retries the first.
MCInvocationOf == [r \in Run |-> IF r = r3 THEN "b" ELSE "a"]

\* Plain content, and two dicts that ask for a retry: one without a status, one
\* that calls itself a success.
MCPlain ==
  [how |-> "content", status |-> "", retryable |-> "", code |-> "", typed |-> TRUE,
   fits |-> TRUE]
MCRetry == [MCPlain EXCEPT !.how = "dict", !.retryable = "True"]
MCOutcomes == {MCPlain, MCRetry, [MCRetry EXCEPT !.status = "SUCCEEDED"]}
=============================================================================
