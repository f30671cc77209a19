--------------------------- MODULE MCRuntimeCleanup ---------------------------
(* The calls that may be lost: the deletion, others that close gates or end *)
(* a cleanup, and none.                                                    *)
EXTENDS RuntimeCleanup

MCSome == {"delete", "publish.finalize"}
MCMany == MCSome \cup {"build.retire", "publish.retire", "runner.finalize"}
MCRetire == {"runner.retire"}
MCCancel == {"build.cancel"}
MCDeletion == {"delete"}
MCNoCall == {}
=============================================================================
