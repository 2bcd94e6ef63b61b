------------------------- MODULE MCRunnerSupervisor -------------------------
(* Small instances of the runner supervisor for TLC. *)
EXTENDS RunnerSupervisor

\* The two repositories of the deployment.
TwoRepos == <<"homelab", "fork">>

\* Two identities for the first, one for the second.
ThreeRunners == <<"homelab", "homelab", "fork">>

\* One more for the first: a minted identity is there whenever one is wanted.
FourRunners == <<"homelab", "homelab", "homelab", "fork">>

\* Everything but a failing `docker ps`.
AllButPs == FaultKinds \ {"ps"}
=============================================================================
