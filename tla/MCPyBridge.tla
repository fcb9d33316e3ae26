----------------------------- MODULE MCPyBridge -----------------------------
(***************************************************************************)
(* The model of PyBridge: one Python thread puts and closes, the other     *)
(* calls synchronously.  Both proxies reach the scheduler at first; the    *)
(* client's may lose it.                                                   *)
(***************************************************************************)
EXTENDS PyBridge

CONSTANTS c1, c2

CallsOf == [c \in Callers |-> IF c = c1 THEN {"put", "close"} ELSE {"sync"}]

NoOutage == {{}}
=============================================================================
