---------------------------- MODULE MCServices ----------------------------
(***************************************************************************)
(* Four small services that share no state: a behaviour is one of each    *)
(* kind, chosen at its beginning.                                          *)
(***************************************************************************)
EXTENDS OrderRouter, AccountingCore, LiveIngestor, IntegrationHarness, TLC

CONSTANTS s1, s2, s3, s4, s5,   \* signals
          t1, t2, t3, t4        \* trade tokens

VARIABLE service

vars == <<service, routerVars, ledgerVars, ingestorVars, harnessVars>>

MCSignals == {s1, s2, s3, s4, s5}
MCBuys == {s1, s2, s3, s5}
MCOversized == {s5}

MCFill ==
    t1 :> [symbol |-> "BTC", side |-> "BUY", qty |-> 1, price |-> 600]
    @@ t2 :> [symbol |-> "BTC", side |-> "BUY", qty |-> 2, price |-> 500]
    @@ t3 :> [symbol |-> "ETH", side |-> "BUY", qty |-> 3, price |-> 30]
    @@ t4 :> [symbol |-> "BTC", side |-> "SELL", qty |-> 1, price |-> 700]

Init ==
    /\ service \in {"router", "ledger", "ingestor", "harness"}
    /\ RouterInit /\ LedgerInit /\ IngestorInit /\ HarnessInit

RouterStep ==
    /\ service = "router" /\ RouterNext
    /\ UNCHANGED <<service, ledgerVars, ingestorVars, harnessVars>>
LedgerStep ==
    /\ service = "ledger" /\ LedgerNext
    /\ UNCHANGED <<service, routerVars, ingestorVars, harnessVars>>
IngestorStep ==
    /\ service = "ingestor" /\ IngestorNext
    /\ UNCHANGED <<service, routerVars, ledgerVars, harnessVars>>
HarnessStep ==
    /\ service = "harness" /\ HarnessNext
    /\ UNCHANGED <<service, routerVars, ledgerVars, ingestorVars>>

Next == RouterStep \/ LedgerStep \/ IngestorStep \/ HarnessStep

Spec == Init /\ [][Next]_vars /\ IngestorFairness

=============================================================================
