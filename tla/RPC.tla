-------------------------------- MODULE RPC --------------------------------
(***************************************************************************)
(* What jsonrpc2.Service.Call promises its callers: the handler of a call  *)
(* runs at most once, a call returns a result only after its handler       *)
(* finished, and a call that failed may still be handled.                  *)
(***************************************************************************)
CONSTANT Call

VARIABLES caller,   \* what the caller knows
          handling  \* what the remote end does

rpcVars == <<caller, handling>>

RPCInit ==
    /\ caller = [c \in Call |-> "idle"]
    /\ handling = [c \in Call |-> "none"]

Invoke(c) ==
    /\ caller[c] = "idle"
    /\ caller' = [caller EXCEPT ![c] = "calling"]
    /\ UNCHANGED handling

Begin(c) ==
    /\ caller[c] \in {"calling", "failed"} /\ handling[c] = "none"
    /\ handling' = [handling EXCEPT ![c] = "running"]
    /\ UNCHANGED caller

Finish(c) ==
    /\ handling[c] = "running"
    /\ handling' = [handling EXCEPT ![c] = "finished"]
    /\ UNCHANGED caller

Result(c) ==
    /\ caller[c] = "calling" /\ handling[c] = "finished"
    /\ caller' = [caller EXCEPT ![c] = "returned"]
    /\ UNCHANGED handling

Fail(c) ==
    /\ caller[c] \in {"idle", "calling"}
    /\ caller' = [caller EXCEPT ![c] = "failed"]
    /\ UNCHANGED handling

RPCNext == \E c \in Call : Invoke(c) \/ Begin(c) \/ Finish(c) \/ Result(c) \/ Fail(c)

RPCSpec == RPCInit /\ [][RPCNext]_rpcVars
=============================================================================
