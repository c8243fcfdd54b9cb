------------------------------ MODULE MCIgtFork ------------------------------
\* Two subtests with up to two children each and two helpers, three forks in all.
EXTENDS IgtFork
=============================================================================
