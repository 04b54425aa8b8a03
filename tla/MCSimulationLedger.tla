--------------------------- MODULE MCSimulationLedger ---------------------------
(***************************************************************************)
(* Small instances of SimulationLedger for TLC.                            *)
(***************************************************************************)
EXTENDS SimulationLedger, TLC

\* 2020 CNY buys two lots at 10 CNY per share with their minimum fees, and not
\* three; 1002 CNY covers the price of one lot and not its fee.
MCCash == {100200, 202000}

\* One amount only, which cannot be edited.
MCOneCash == {202000}

\* 10 CNY per share.
MCPrices == {100000}

StockSymmetry == Permutations(Symbols)
================================================================================
