------------------------------ MODULE MCRateLimit ------------------------------
(* Small instances of RateLimit for TLC: the settings that make a difference *)
(* for the endpoint, and limits of one or two.                             *)
EXTENDS RateLimit

MCPolicies ==
    {"pre_auth", "invite_create", "invite_create_organisation", "invite_create_target_email"}
MCGroup == <<"invite_create_organisation", "invite_create_target_email">>
MCDefaultLimit == [p \in MCPolicies |-> IF p = "invite_create_organisation" THEN 2 ELSE 1]

MCDeployments ==
    {s \in [env : {"dev", "prod"}, enabled : BOOLEAN, edge : BOOLEAN, preAuth : BOOLEAN,
            trustProxy : {TRUE}, cidrs : {TRUE}, edgeSecret : BOOLEAN,
            mode : {"normal", "panic"},
            over : {[p \in MCPolicies |-> IF p \in open THEN "open" ELSE "unset"] :
                      open \in {{}, {"invite_create_organisation"}, MCPolicies}}] :
       /\ ValidSettings(s)
       /\ s.env = "dev" => s.enabled /\ ~s.edge /\ ~s.preAuth /\ ~s.edgeSecret
       /\ s.env = "prod" => s.mode = "normal" /\ (s.enabled /\ s.edge => s.preAuth)}
===============================================================================
