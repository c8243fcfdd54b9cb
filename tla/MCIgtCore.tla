------------------------------ MODULE MCIgtCore ------------------------------
\* Two subtests, either with dynamic subtests or without.
EXTENDS IgtCore
CONSTANTS s1, s2
TwoSubtests == <<s1, s2>>
=============================================================================
