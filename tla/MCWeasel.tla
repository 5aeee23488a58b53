----------------------------- MODULE MCWeasel -----------------------------
(* The front end for Windows.  A behaviour has some of what may disturb a    *)
(* key, not all of it.                                                      *)
EXTENDS Weasel

\* Two clients and the panel; two clients and the buffer; two clients and the
\* deployer; one client, and all that may happen to the server.
Panel == [keys |-> 3, commits |-> 0, moves |-> 2, posts |-> 1,
          changes |-> 0, deployments |-> 0, stops |-> 0]
Buffer == [keys |-> 3, commits |-> 2, moves |-> 1, posts |-> 0,
           changes |-> 0, deployments |-> 0, stops |-> 0]
Deployment == [keys |-> 2, commits |-> 0, moves |-> 1, posts |-> 0,
               changes |-> 0, deployments |-> 1, stops |-> 0]
Disturbance == [keys |-> 3, commits |-> 1, moves |-> 0, posts |-> 0,
                changes |-> 1, deployments |-> 1, stops |-> 1]
AllBudgets == {Panel, Buffer, Deployment, Disturbance}

\* One client and the deployer
OneClient == {[keys |-> 3, commits |-> 1, moves |-> 0, posts |-> 0,
               changes |-> 0, deployments |-> 1, stops |-> 0]}
=============================================================================
