------------------------------- MODULE MCRules -------------------------------
(***************************************************************************)
(* The calls of Rules on small inputs: every pattern of up to 5 characters  *)
(* on every name of up to 4, every principal with up to two permissions and *)
(* two scopes of a small set, every policy text of up to 3 lines, and so on. *)
(***************************************************************************)
EXTENDS Rules

Upto(S, n) == UNION {[1..k -> S] : k \in 0..n}

MCRepos == {<<"a">>, <<"b">>, <<"a", "b">>}
MCEntries(actionSets) ==
    [pattern : {<<Star>>, <<Star, Star>>, <<"a">>, <<"a", Star>>}, actions : actionSets]

AtMost(S, n) == {T \in SUBSET S : Cardinality(T) <= n}

MCPrincipals ==
    [perms : AtMost(MCEntries({{"read"}, {"approve"}, {"audit", "read"}, {"admin"}}), 2),
     viaToken : BOOLEAN,
     scopes : AtMost([pattern : {<<Star>>, <<"a">>}, actions : {{"read"}, {"read", "write"}, {"admin"}}], 2)]

MCLines ==
    [kind : {"p"}, role : {"dev", "ops"}, action : {"read", "*", "own"}, pattern : {<<Star>>, <<"a", Star>>},
     effect : {"allow"}]
    \union {[kind |-> "p", role |-> "dev", action |-> "write", pattern |-> <<Star>>, effect |-> e] :
               e \in {"allow", "deny"}}
    \union [kind : {"g"}, subject : {"x"}, prefix : {"group", "user", "none"}, role : {"dev"}]
    \union {[kind |-> "g", subject |-> s, prefix |-> "user", role |-> r] :
               <<s, r>> \in {<<"", "dev">>, <<"x", "">>}}
    \union {[kind |-> "x"]}

MCTimes == [sec : {0, 9, 10, 11}, frac : {0, 5} \X {0, 7}]

MCVersions ==
    {[segs |-> s, suffix |-> FALSE, v |-> FALSE] : s \in {<<1, 0, 9>>, <<1, 2, 0>>, <<2, 0, 1>>, <<1, 2>>}}
    \union {[segs |-> <<2, 0, 1>>, suffix |-> FALSE, v |-> TRUE],
            [segs |-> <<3, 0, 0>>, suffix |-> TRUE, v |-> FALSE]}

MCTasks ==
    [kind : {"glob"}, pattern : Upto({"a", "b", Star}, 5), name : Upto({"a", "b"}, 4)]
    \union [kind : {"can"}, p : MCPrincipals, repos : {MCRepos}]
    \union [kind : {"policy"}, lines : Upto(MCLines, 3), repos : {MCRepos}]
    \union [kind : {"time"}, t : MCTimes, u : MCTimes]
    \union [kind : {"npm"}, versions : SUBSET MCVersions]
    \union [kind : {"config"}, c : [backend : {"fs", "s3"}, ha : BOOLEAN, replication : BOOLEAN,
                                    leaderURL : BOOLEAN, pod : BOOLEAN]]
=============================================================================
