--------------------------- MODULE MC_HostFrames ---------------------------
(* Instantiates HostFrames for TLC: three nameable contracts, one payload, *)
(* one storage slot, three units of gas per instance, two nested levels.   *)
EXTENDS HostFrames, TLC

CONSTANTS aTop, aTarget, aUnknown, aCreate, aCreate2, aEoa,
          cTop, cTarget, d1, k1

MCData        == {d1}
MCKeys        == {k1}
MCVals        == {0, 1}
MCCallValues  == {0, 1}
MCGasArgs     == {1}
MCCreateCodes == CodeKinds
=============================================================================
