----------------------------- MODULE MCAccounts -----------------------------
(***************************************************************************)
(* Accounts with small sets for TLC.                                      *)
(***************************************************************************)
EXTENDS Accounts, TLC

CONSTANTS a1, a2, i1, i2, c1, c2, groups, person, alice, bob, bobby

MCAdmins == {a1, a2}
MCIssuers == {i1, i2}
MCClients == {c1}
MCOneIssuer == {i1}
MCTwoClients == {c1, c2}
MCPolicies == {groups}
MCPeople == {person}
MCNames == {alice, bob}
MCSpelled == {alice, bob, bobby}
MCCasefold == [n \in MCNames |-> n]
\* bobby is bob with other capitals
MCSpellings == [n \in MCSpelled |-> IF n = alice THEN alice ELSE bob]

\* Of two spellings it only matters that they are two.
Symmetry ==
    UNION {Permutations(S) : S \in {MCAdmins, MCIssuers, {bob, bobby}}}
=============================================================================
