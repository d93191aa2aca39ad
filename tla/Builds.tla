------------------------------- MODULE Builds -------------------------------
(***************************************************************************)
(* What the host may load beside the ring of pages, which RxPath and       *)
(* Device have: the driver built with CONFIG_XEN_NF_BACKEND (XenBackend),  *)
(* the driver built with CONFIG_SKBPOOL (SkbPool), or the driver for       *)
(* bring-up (MyDriver).  A host has one of them: the others stay as they   *)
(* are.                                                                    *)
(***************************************************************************)
EXTENDS XenBackend, SkbPool, MyDriver

VARIABLE build

Build == {"xen", "skbpool", "my_driver"}

buildsVars == <<build, vars, poolVars, myVars>>

BuildsInit == build \in Build /\ Init /\ PoolInit /\ MyInit

XenStep  == build = "xen" /\ Next /\ UNCHANGED <<build, poolVars, myVars>>
PoolStep == build = "skbpool" /\ PoolNext /\ UNCHANGED <<build, vars, myVars>>
MyStep   == build = "my_driver" /\ MyNext /\ UNCHANGED <<build, vars, poolVars>>

BuildsNext == XenStep \/ PoolStep \/ MyStep

(* Nothing XenBackend is fair to is enabled in a build that does not run it. *)
BuildsSpec == BuildsInit /\ [][BuildsNext]_buildsVars /\ Fairness
=============================================================================
