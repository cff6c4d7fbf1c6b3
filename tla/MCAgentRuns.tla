---------------------------- MODULE MCAgentRuns -----------------------------
(* TLC instance of AgentRuns: all executions take place in one process.    *)
EXTENDS AgentRuns, TLC

CONSTANT p1

OneProcess == [e \in Executors |-> p1]
=============================================================================
