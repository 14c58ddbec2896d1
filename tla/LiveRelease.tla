----------------------------- MODULE LiveRelease ----------------------------
(***************************************************************************)
(* What the VM role promises the timers, whatever happens to a play: the   *)
(* build a run would start from is always one that passed the smoke test,  *)
(* it changes only from one such build to another, and once there is one   *)
(* there always is one - except that an operator may have it replaced, and *)
(* then there is none until another one goes live.                         *)
(*                                                                         *)
(* VmRelease implements this module; see VmRelease!Live.                   *)
(***************************************************************************)
CONSTANTS
    Tested,     \* builds that pass the smoke test
    None        \* no release is installed

VARIABLES
    live,       \* the build a run starting now would run
    replacing   \* the live build is being replaced in place

Init == live = None /\ replacing = FALSE

GoLive(b) == live' = b /\ replacing' = FALSE

Replace == live # None /\ live' = None /\ replacing' = TRUE

Next == Replace \/ \E b \in Tested : GoLive(b)

Spec == Init /\ [][Next]_<<live, replacing>>
=============================================================================
