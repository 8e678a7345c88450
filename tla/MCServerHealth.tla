---------------------------- MODULE MCServerHealth ----------------------------
(***************************************************************************)
(* Instance of ServerHealth for TLC: production and test environments that *)
(* can be loaded, and those that differ from the former in one key.        *)
(***************************************************************************)
EXTENDS ServerHealth

CONSTANTS Varied  \* the keys that differ

Given == [key \in RequiredKeys |-> "word"] @@ [key \in UrlKeys |-> "http://host"] @@ Absent

Production == [node |-> Unset, app |-> "production", direct |-> Given, file |-> Absent]

MCEnvironments ==
    {Production, [Production EXCEPT !.node = "test"]}
        \cup {[Production EXCEPT !.direct[key] = text] :
                 key \in Varied, text \in Texts \cup {Unset}}
        \cup {[Production EXCEPT !.file[key] = text] :
                 key \in Varied, text \in Texts \cup {Missing}}

MCBuckets == <<"media", "exports">>
=============================================================================
