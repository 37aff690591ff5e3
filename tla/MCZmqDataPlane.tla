--------------------------- MODULE MCZmqDataPlane ---------------------------
(***************************************************************************)
(* Instances of ZmqDataPlane for TLC: what two callers ask for.            *)
(***************************************************************************)
EXTENDS ZmqDataPlane

CONSTANTS c1, c2

Traffic(first, second) == [c \in {c1, c2} |-> IF c = c1 THEN first ELSE second]

BothLanes == {"send", "control", "shutdown"}

\* Both fill both lanes; one registers service identities and the other updates
\* them; or one registers and sends in turn.
TwoCallers == { Traffic(BothLanes, BothLanes),
                Traffic({"register"}, {"update"}),
                Traffic({"register", "send"}, {}) }
=============================================================================
