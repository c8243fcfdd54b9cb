------------------------- MODULE MCSimpleAllocator -------------------------
EXTENDS SimpleAllocator

CONSTANTS h1, h2
=============================================================================
