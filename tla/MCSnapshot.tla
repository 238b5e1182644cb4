------------------------------ MODULE MCSnapshot ------------------------------
(***************************************************************************)
(* Snapshot on small instances.                                            *)
(***************************************************************************)
EXTENDS Snapshot, TLC

\* Two handles, each saved to a file of its own.
MCTargets == [h1 |-> {"user.json"}, h2 |-> {"agent.json"}]
MCTemp == ("user.json" :> "user.tmp") @@ ("agent.json" :> "agent.tmp")

OneTarget == [h1 |-> {"user.json"}]
OneBuild == [h1 |-> "f32"]
MCBuild == [h1 |-> "f32", h2 |-> "int8"]

\* The same with names that differ in their extension only.
SiblingTargets == [h1 |-> {"memory.1"}, h2 |-> {"memory.2"}]
SiblingTemp == ("memory.1" :> "memory.tmp") @@ ("memory.2" :> "memory.tmp")
=============================================================================
