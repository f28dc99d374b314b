------------------------- MODULE MCForwardTestRunner -------------------------
(* One unit of capital buys once at 9: five shares, and a spread of one    *)
(* that trips the breaker at once; at 13 the broker refuses.               *)
EXTENDS ForwardTestRunner

MCPrices == {0, 9, 13}
=============================================================================
