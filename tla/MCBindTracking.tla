--------------------------- MODULE MCBindTracking ---------------------------
EXTENDS BindTracking, TLC

CONSTANTS t1, t2, a, b, c, d

TwoOwners == (a :> t1) @@ (b :> t1) @@ (c :> t2) @@ (d :> t2)
=============================================================================
