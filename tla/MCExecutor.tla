---------------------------- MODULE MCExecutor -----------------------------
EXTENDS Executor
CONSTANTS s1, s2
NoExtra == {}
LastExtra == {MaxSize - 1}
=============================================================================
