---------------------------- MODULE MCAutoDeploy ----------------------------
(* Small instances of the GitOps controller for TLC. *)
EXTENDS AutoDeploy

CONSTANTS c1, c2, c3

ThreeCommits == {c1, c2, c3}

\* Two targets; c2 changes the first and adds the second, c3 removes the first
\* and changes the second.  A tag may go back to an earlier commit.
AddAndRemove == [c \in ThreeCommits |->
    CASE c = c1 -> <<1, 0>>
      [] c = c2 -> <<2, 1>>
      [] c = c3 -> <<0, 2>>]

\* The same, with a third target that c2 changes and c3 keeps.
AddRemoveHold == [c \in ThreeCommits |->
    CASE c = c1 -> <<1, 0, 1>>
      [] c = c2 -> <<2, 1, 2>>
      [] c = c3 -> <<0, 2, 2>>]

\* Two targets that both exist in every commit.
EditOnly == [c \in ThreeCommits |->
    CASE c = c1 -> <<1, 1>>
      [] c = c2 -> <<2, 2>>
      [] c = c3 -> <<2, 3>>]
=============================================================================
