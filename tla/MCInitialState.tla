--------------------------- MODULE MCInitialState ---------------------------
(* TLC instances of InitialState: two object types; the first topic matches *)
(* both of them, the second one repeats one.                               *)
EXTENDS InitialState, TLC

CONSTANTS user, group

MCObjectTypes == <<"users", "groups">>
MCTypeOf == (user :> "users" @@ group :> "groups")
MCTopics == <<".*", "groups">>
MCMatching == {<<".*", "users">>, <<".*", "groups">>, <<"groups", "groups">>}

MCOneType == <<"users">>
MCOneTypeOf == (user :> "users")
MCOneTopic == <<"users">>
MCOneMatching == {<<"users", "users">>}
=============================================================================
