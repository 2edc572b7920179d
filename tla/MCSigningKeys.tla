---------------------------- MODULE MCSigningKeys ----------------------------
(* Two instances, one with a provider the other lacks, and two calls.        *)
EXTENDS SigningKeys

CONSTANTS i1, i2, k1, k2

MCInstances == {i1, i2}
MCKeys == {k1, k2}
MCProvided == [i \in MCInstances |-> IF i = i1 THEN MCKeys ELSE {k1}]
MCRegions == [k \in MCKeys |-> IF k = k2 THEN 2 ELSE 1]
MCPreferred == [i \in MCInstances |-> IF i = i1 THEN k2 ELSE k1]
=============================================================================
