----------------------------- MODULE MCPrefill -----------------------------
(* Constant values for the prefill service: a subscription asks for groups
   and users, a pattern that matches both, and a topic of another realm. *)
EXTENDS Prefill, TLC

CONSTANTS groups, users, other, g1, u1

MCRealmTopics == {groups, users, other}
MCContents == (groups :> <<g1>>) @@ (users :> <<u1>>)
MCTopicLists == {<<groups, other, users>>}
=============================================================================
