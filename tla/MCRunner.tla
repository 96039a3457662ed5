----------------------------- MODULE MCRunner -----------------------------
(* Every subcommand over every transport it has. *)
EXTENDS Runner

MCConfig == {c \in ConfigType : c.pool = "http" \/ (c.fullNode <=> c.cmd = "host")}
=============================================================================
