------------------------------ MODULE MCRemote ------------------------------
(* A pool and an agent.  The agent calls the pool, whose handler calls back, *)
(* and the agent's handler calls once more; the pool makes a call of its own *)
(* besides.  Only the pool's end has a PendingLimit (server.go:63), and only *)
(* its calls have a deadline (service.go:430).                               *)
EXTENDS Remote

MCFrom == [c \in Call |-> IF c \in {"ask", "nested"} THEN "agent" ELSE "pool"]

MCParent == [c \in Call |-> CASE c = "callback" -> "ask"
                              [] c = "nested" -> "callback"
                              [] OTHER -> None]

Limited == [s \in Side |-> IF s = "pool" THEN 1 ELSE 0]
=============================================================================
