---------------------------- MODULE MCAdminStore ----------------------------
(***************************************************************************)
(* A small instance of AdminStore: two roles, two users, two servers whose *)
(* names can be swapped through a third, three policy ids, four triples.   *)
(***************************************************************************)
EXTENDS AdminStore, TLC

CONSTANTS r1, r2, u1, u2, s1, s2, p1, p2, p3, rn1, rn2, e1, e2, sn1, sn2, sn3, tool

MCRoleIds == {r1, r2}
MCUserIds == {u1, u2}
MCServerIds == {s1, s2}
MCPolicyIds == {p1, p2, p3}
MCRoleNames == {rn1, rn2}
MCEmails == {e1, e2}
MCServerNames == {sn1, sn2, sn3}
MCTools == {tool}

Symmetry ==
    Permutations(MCRoleIds) \cup Permutations(MCServerIds)
        \cup Permutations(MCPolicyIds) \cup Permutations(MCRoleNames)
        \cup Permutations(MCServerNames) \cup Permutations(MCUserIds)
        \cup Permutations(MCEmails)
=============================================================================
