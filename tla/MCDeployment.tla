------------------------------ MODULE MCDeployment ------------------------------
(* Instances of Deployment for TLC.                                           *)
EXTENDS Deployment

OnceEach == [k \in Troubles |-> 1]
================================================================================
