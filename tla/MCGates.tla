------------------------------ MODULE MCGates ------------------------------
EXTENDS Gates, TLC

Base == [approval |-> "off", auto |-> FALSE, vuln |-> "off", license |-> "off",
         acl |-> {}, members |-> <<>>]
MCConfigs ==
    [base |-> Base,
     quarantine |-> [Base EXCEPT !.approval = "enforce", !.vuln = "block", !.acl = {{}}],
     audit |-> [Base EXCEPT !.approval = "audit", !.vuln = "strict", !.license = "block"],
     trusted |-> [Base EXCEPT !.approval = "enforce", !.auto = TRUE, !.vuln = "warn", !.license = "strict"],
     all |-> [Base EXCEPT !.members = <<"p", "h">>]]

Bp(n, t, g) == [name |-> n, type |-> t, cfg |-> g]
MCFounding == <<Bp("p", "proxy", "quarantine"), Bp("h", "hosted", "base"), Bp("g", "group", "all")>>
MCBlueprints == {Bp("p", "proxy", "quarantine"), Bp("p", "proxy", "audit"), Bp("p", "proxy", "trusted"),
                 Bp("g", "group", "all")}
MCReaders == [n \in {"p", "h", "g"} |-> IF n = "p" THEN {} ELSE Clients]
MCWanted == {<<"p", "artifact">>, <<"g", "artifact">>, <<"g", "index">>, <<"g", "config">>, <<"h", "upload">>}
Symmetry == Permutations(Clients) \union Permutations(Admins)
=============================================================================
