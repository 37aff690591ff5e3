----------------------------- MODULE MCKillSwitch -----------------------------
(* The kill switch with two clients, whose requests cross in five scenarios. *)
EXTENDS KillSwitch

CONSTANTS c1, c2

Crossing(first, second) == [c \in {c1, c2} |-> IF c = c1 THEN first ELSE second]

TwoClients ==
  { \* both enter PINs
    Crossing({"authorize", "guess"}, {"authorize", "guess", "mistype"}),
    \* an operator purges while others write
    Crossing({"arm", "authorize", "purge"}, {"write", "command", "identity"}),
    \* an operator purges while another looks, disarms or purges too
    Crossing({"arm", "authorize", "purge"}, {"status", "disarm", "purge"}),
    \* an operator purges while the runtime is started and stopped
    Crossing({"arm", "authorize", "purge"}, {"start", "stop"}),
    \* two setups, then a purge
    Crossing({"setup", "arm", "authorize", "purge"}, {"setup"}) }

===============================================================================
