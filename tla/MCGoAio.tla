------------------------------- MODULE MCGoAio -------------------------------
EXTENDS GoAio, TLC

CONSTANTS w1, w2
MCRounds == w1 :> 2 @@ w2 :> 1
==============================================================================
