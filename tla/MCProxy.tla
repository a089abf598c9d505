------------------------------ MODULE MCProxy ------------------------------
(***************************************************************************)
(* A small instance of Proxy: two requests with one token, a user who can  *)
(* be moved between two roles, one server that can be renamed, one policy  *)
(* row and one tool.                                                       *)
(***************************************************************************)
EXTENDS Proxy, TLC

CONSTANTS q1, q2, t1, r1, r2, u1, s1, p1, rn1, rn2, e1, sn1, sn2, tool

MCRequests == {q1, q2}
MCTokens == {t1}
MCRoleIds == {r1, r2}
MCUserIds == {u1}
MCServerIds == {s1}
MCPolicyIds == {p1}
MCRoleNames == {rn1, rn2}
MCEmails == {e1}
MCServerNames == {sn1, sn2}
MCTools == {tool}

Symmetry ==
    Permutations(MCRoleIds) \cup Permutations(MCPolicyIds)
        \cup Permutations(MCRoleNames) \cup Permutations(MCServerNames)
        \cup Permutations(MCRequests)
=============================================================================
