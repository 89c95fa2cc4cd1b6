----------------------------- MODULE MCVfPipeline -----------------------------
(* An instance of VfPipeline for TLC: one factor, offered for either length. *)
EXTENDS VfPipeline

CONSTANTS b1, short, long, vf4

OfferedAlways == [c \in Code |-> {vf4}]
=============================================================================
