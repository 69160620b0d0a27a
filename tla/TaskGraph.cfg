SPECIFICATION FairSpec
CONSTANT Graphs <- AllGraphs
INVARIANTS ValidatedRightly OrderRespected NeverStuck
CHECK_DEADLOCK FALSE
