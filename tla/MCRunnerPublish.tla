--------------------------- MODULE MCRunnerPublish ---------------------------
(* Two jobs of one variant: a publication and its repetition.              *)
EXTENDS RunnerPublish

CONSTANT variant

MCVariant == {variant}
MCVariantOf == [j \in Job |-> variant]
==============================================================================
