---------------------------- MODULE MCFrontDoor ----------------------------
(* The configurations of the run of FrontDoor. *)
EXTENDS FrontDoor

\* On Azure, the demonstration as it is deployed, every way in which settings may
\* be missing and an API whose secret differs; off Azure an open server in front
\* of an API that tells users apart.
MCDeployments ==
    {d \in Deployment : d.azure /\ d.auth = "demo" /\ d.proxySecret # "former"}
    \cup
    {[azure |-> FALSE, accessKey |-> FALSE, apiOrigin |-> TRUE, proxySecret |-> "",
      apiSecret |-> "", auth |-> auth] : auth \in {"local", "easyAuth"}}
=============================================================================
