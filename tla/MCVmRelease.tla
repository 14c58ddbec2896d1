---------------------------- MODULE MCVmRelease -----------------------------
(* Small instances of VmRelease.                                            *)
EXTENDS VmRelease

\* a and b work, a not for m2; d fails the smoke test.
MCBuilds == {"a", "b", "d"}
MCPasses == {<<"a", "m1">>, <<"b", "m1">>, <<"b", "m2">>}

\* vm-install.sh: the commit is the release id.
CommitIds == [b \in MCBuilds |-> b]

\* Packages: d was built under the version of a.
VersionIds == [b \in MCBuilds |-> IF b = "d" THEN "a" ELSE b]
=============================================================================
