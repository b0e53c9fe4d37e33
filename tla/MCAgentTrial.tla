---- MODULE MCAgentTrial ----
(* One call, two calls, and batches that repeat a call ID.                  *)
EXTENDS AgentTrial
MCBatches == {<<1>>, <<2, 3>>, <<2, 2>>}
====
