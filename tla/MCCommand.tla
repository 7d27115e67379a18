----------------------------- MODULE MCCommand -----------------------------
(* Command with every value of --type of at most two parts.                *)
EXTENDS Command

Parts == {"", "cpu", "memory", "gpu", "pod", "disk"}
MCTypeFlags == {<<>>} \cup [1..1 -> Parts \ {""}] \cup [1..2 -> Parts]
=============================================================================
