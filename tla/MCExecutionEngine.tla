------------------------- MODULE MCExecutionEngine --------------------------
(* Three assets, two of them crypto, caps that bind (see README, bounds).   *)
EXTENDS ExecutionEngineProps

CONSTANTS btc, eth, xau

MCOrder == <<btc, eth, xau>>
=============================================================================
