------------------------------ MODULE MCCluster ------------------------------
(***************************************************************************)
(* Small instances of Cluster.  The burst of handleBooting is shortened    *)
(* from one front and four mid servers to one of each, so that it fits     *)
(* below the highest VM id of the instance.                                *)
(***************************************************************************)
EXTENDS Cluster

MCBurst == <<FRONT, MID>>
=============================================================================
