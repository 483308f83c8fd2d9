------------------------------ MODULE MCAccess ------------------------------
(* Access for TLC: a policy of the team that others keep changing, one that
   comes and goes, and the ways there are to write a pattern. *)
EXTENDS Access

MCNames == {"default", "root", "team", "ops"}

MCCallers == {[is_root |-> TRUE, policies |-> <<"root">>],
              [is_root |-> FALSE, policies |-> <<"ops", "team">>]}

Team(pattern) == {Rule(pattern, {"write"}),
                  Rule(<<"sys", "policy", Star>>, {"write", "delete"})}

MCPutRules == {Team(<<"secret", StarStar>>),
               Team(<<"secret", StarStar, "db">>),
               {Rule(<<"secret", Star, "db">>, {"write"}),
                Rule(<<"secret", "app">>, {"read"})},
               {Rule(<<"secret">>, {"fly"})}, {}}

MCOthers == {<<"team", Team(<<"secret", StarStar>>)>>,
             <<"team", Team(<<"secret", StarStar, "db">>)>>,
             <<"team", Absent>>,
             <<"ops", {Rule(<<"secret", Star, "db">>, {"write"}),
                       Rule(<<"secret", "app">>, {"read"})}>>,
             <<"ops", Absent>>}

MCRequests == {[op |-> "put", name |-> "team", rules |-> Team(<<"secret", StarStar, "db">>)],
               [op |-> "put", name |-> "ops", rules |-> {Rule(<<"secret">>, {"fly"})}],
               [op |-> "delete", name |-> "root"],
               [op |-> "delete", name |-> "team"],
               [op |-> "use", path |-> <<"secret", "app">>, capability |-> "write"],
               [op |-> "look", path |-> <<"secret", "app", "db">>, capability |-> "read"]}

MCPatterns == UNION {{r.path : r \in rules} : rules \in MCPutRules \cup {Default, Root}}

MCPaths == {<<"sys", "policy", n>> : n \in MCNames}
           \cup {<<"auth", "token", "lookup-self">>, <<"secret">>, <<"secret", "app">>,
                 <<"secret", "db">>, <<"secret", "app", "db">>, <<"secret", "app", "app", "db">>,
                 <<"app", "secret">>, <<"app", "secret", "db">>}

=============================================================================
