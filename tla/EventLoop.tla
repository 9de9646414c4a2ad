----------------------------- MODULE EventLoop -----------------------------
(***************************************************************************)
(* What the models of the off-chain programs share.  Each program is one   *)
(* JavaScript event loop: code runs undisturbed from one await to the next,*)
(* and what happens between two awaits is one action.                      *)
(***************************************************************************)
EXTENDS Integers, Sequences, FiniteSets

CONSTANT None   \* undefined, null, or an entry that is absent
=============================================================================
