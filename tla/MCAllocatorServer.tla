------------------------- MODULE MCAllocatorServer -------------------------
EXTENDS AllocatorServer

CONSTANTS main, child1, child2, server, nobody, k1

Requests == [c \in {main, child1, child2} |->
  IF c = main THEN {"reserve", "unreserve", "reserve if not allocated"} ELSE {"alloc", "free"}]
=============================================================================
