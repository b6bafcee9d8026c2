---------------------------- MODULE MCEvaluation ----------------------------
EXTENDS Evaluation

Clean == [there |-> TRUE, sansio |-> TRUE, imports |-> TRUE,
          freshSeed |-> TRUE, passes |-> CHANNELS]
MCPackages ==
    {Clean,
     [Clean EXCEPT !.passes.pool = @ - 1],
     [Clean EXCEPT !.passes = None],
     [Clean EXCEPT !.sansio = FALSE],
     [Clean EXCEPT !.imports = FALSE],
     [Clean EXCEPT !.there = FALSE],
     [Clean EXCEPT !.freshSeed = FALSE]}

Fast == "pool-health-check-skipped"
Crawling == "crlf-rescanned-periodically"
MCTargets == {Control, ByHand, Fast, Crawling}
Default == [reference |-> TRUE, drifted |-> {}, only |-> {Fast, Crawling},
            oracle |-> TRUE, freshSeed |-> TRUE, skipSlow |-> TRUE,
            baseline |-> FALSE]
MCInvocations ==
    {Default,
     [Default EXCEPT !.only = {Crawling}, !.skipSlow = FALSE, !.baseline = TRUE],
     [Default EXCEPT !.drifted = {"pool.py"}],
     [Default EXCEPT !.only = {"unheard-of"}]}
=============================================================================
