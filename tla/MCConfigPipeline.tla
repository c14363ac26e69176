-------------------------- MODULE MCConfigPipeline --------------------------
(* Small instances of ConfigPipeline for TLC. *)
EXTENDS ConfigPipeline

CONSTANTS description, vrf, shutdown, x, y

MCColumns == {description, vrf, shutdown}
MCDefault == [c \in MCColumns |-> Null]
MCValues == {x, y, On}
=============================================================================
