----------------------------- MODULE MCRpcClient -----------------------------
(* Two calls are enough for a manager that starts its server, which makes three  *)
(* requests of them; the connected clients make three.                            *)
EXTENDS RpcClient

Bound == [k \in Kinds |-> IF k = "lsp" THEN 2 ELSE 3]
================================================================================
