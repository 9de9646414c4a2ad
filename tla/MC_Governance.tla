--------------------------- MODULE MC_Governance ---------------------------
(***************************************************************************)
(* A small instance of the governed registry for TLC.                      *)
(***************************************************************************)
EXTENDS Governance, TLC

CONSTANTS alice, bob, wasm1, wasm2

\* An upgrade, one to the old schema, one no executable supports, one that names no
\* schema, and a way out of the timelock.
MC_Actions ==
    {[kind |-> "Upgrade", wasm |-> wasm2, schema |-> v] : v \in 0 .. 3}
    \cup {[kind |-> "SetUpgradeAdmin", to |-> alice]}
=============================================================================
