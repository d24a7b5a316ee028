----------------------------- MODULE MCServices -----------------------------
(* One instance for the parts that share no state: an initial state chooses   *)
(* the part that moves, and the others keep one of their initial states.      *)
EXTENDS MCSyncJoin, MeshLink, SessionMux, AttestedConnect, KmsGate, EgressFlow

VARIABLE part

ServicesInit ==
    /\ part \in {"join", "mesh", "session", "connect", "kms", "egress"}
    /\ JoinInit /\ (part # "join" => bound = FreshBound)
    /\ MeshInit
    /\ MuxInit
    /\ ConnectInit
    /\ KmsInit /\ (part # "kms" => <<region, cid, origin, policy>> = <<"set", 3, "AWS_KMS", CHOOSE p \in Policies : TRUE>>)
    /\ EgressInit

ServicesNext ==
    /\ UNCHANGED part
    /\ \/ part = "join" /\ JoinNext /\ UNCHANGED <<meshVars, muxVars, connectVars, kmsVars, egressVars>>
       \/ part = "mesh" /\ MeshNext /\ UNCHANGED <<joinVars, muxVars, connectVars, kmsVars, egressVars>>
       \/ part = "session" /\ MuxNext /\ UNCHANGED <<joinVars, meshVars, connectVars, kmsVars, egressVars>>
       \/ part = "connect" /\ ConnectNext /\ UNCHANGED <<joinVars, meshVars, muxVars, kmsVars, egressVars>>
       \/ part = "kms" /\ KmsNext /\ UNCHANGED <<joinVars, meshVars, muxVars, connectVars, egressVars>>
       \/ part = "egress" /\ EgressNext /\ UNCHANGED <<joinVars, meshVars, muxVars, connectVars, kmsVars>>
=============================================================================
