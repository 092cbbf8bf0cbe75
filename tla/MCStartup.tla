------------------------------- MODULE MCStartup -------------------------------
\* The API has its volume; two workers and a command share the other.
EXTENDS Startup, TLC

CONSTANTS api, worker1, worker2, admin, apiSecrets, workerSecrets

Mounted == [p \in Processes |-> IF p = api THEN apiSecrets ELSE workerSecrets]
=============================================================================
