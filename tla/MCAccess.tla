------------------------------ MODULE MCAccess ------------------------------
(* Two accounts, the administrator's role and one more, one group.  "files"  *)
(* provisions the account, its role and the group's mapping; "takeover"      *)
(* declares the administrator's role and grants the other one, which it does *)
(* not declare; "mapped" gives it to the group and withholds the permission; *)
(* "off" mounts no policy.                                                   *)
EXTENDS Access, TLC

NoPolicy == [enabled |-> FALSE, roles |-> {}, perms |-> {}, grants |-> {}, maps |-> {}, locals |-> {}]

MCPolicyOf ==
    [off |-> NoPolicy,
     files |-> [enabled |-> TRUE, roles |-> {"dev"}, perms |-> {<<"dev", "read">>},
                grants |-> {<<"bob", "dev">>}, maps |-> {<<"g", "dev">>}, locals |-> {"bob"}],
     takeover |-> [enabled |-> TRUE, roles |-> {"administrator"}, perms |-> {<<"administrator", "admin">>},
                   grants |-> {<<"bob", "dev">>}, maps |-> {}, locals |-> {}],
     mapped |-> [enabled |-> TRUE, roles |-> {"administrator"}, perms |-> {<<"administrator", "read">>},
                 grants |-> {}, maps |-> {<<"g", "administrator">>}, locals |-> {}]]

MCRequests == {<<"disable", "lockout">>, <<"lockout", "unlock">>, <<"enable", "no lockout">>}

Symmetry == Permutations(Logins) \union Permutations(Admins) \union Permutations(Replicas)
=============================================================================
