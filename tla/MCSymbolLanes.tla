--------------------------- MODULE MCSymbolLanes ---------------------------
(***************************************************************************)
(* A small instance of SymbolLanes: three tasks, enough for an owner, a    *)
(* waiter and a third task that waits too, is cancelled or comes along     *)
(* while the lock is handed over; two canonical symbols, one of them with  *)
(* two spellings; and as many lane objects as can be alive at once.        *)
(***************************************************************************)
EXTENDS SymbolLanes

Spellings == [BTCUSDT |-> "BTCUSDT", btcusdt |-> "BTCUSDT", ETHUSDT |-> "ETHUSDT"]
=============================================================================
