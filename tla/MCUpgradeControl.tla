------------------------- MODULE MCUpgradeControl -------------------------
EXTENDS UpgradeControl

\* Keys 1 and 4 are gated to image 1, 2 and 5 to image 2, 3 to image 3.
MCGate == [k \in Keys |-> <<1, 2, 3, 1, 2>>[k]]
MCSetting(i) == [enabled |-> TRUE, upgrade_target |-> i # 1, debug_attestation |-> FALSE,
                 synchronizers |-> {"s"}]
===========================================================================
