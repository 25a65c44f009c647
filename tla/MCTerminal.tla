----------------------------- MODULE MCTerminal ------------------------------
(* Constants for model-checking Terminal, and UserSession with it. *)
EXTENDS Terminal, TLC

CONSTANTS u1, u2, c1, c2, c3
TwoIds == {u1, u2}
ThreeCards == {c1, c2, c3}
TwoEmployees == {c1, c2}
SomeLevels == {2, 9}

Symmetric == Permutations(TwoIds)

\* The session is checked with all users and forms where the plugin does nothing
\* with a login; the two threads are checked with users that do not change.
Split ==
  IF variant = "none" THEN \A i \in DOMAIN users : users[i].card # c3
  ELSE /\ dialog = NoUser /\ basis = "exact" /\ widgets = TwoIds
       /\ \A i \in TwoIds : users[i].level = 2
=============================================================================
