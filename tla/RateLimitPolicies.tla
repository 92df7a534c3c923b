--------------------------- MODULE RateLimitPolicies ---------------------------
(***************************************************************************)
(* Which limits are in force (app/core/rate_limit/policies.py, registry.py *)
(* and the rate-limiting part of app/core/config/settings.py): the policy  *)
(* table, what the validators of the settings refuse at startup, and the   *)
(* effective policy that mode, override and environment make of an entry.  *)
(* Windows only choose the unit of the limit and are left out.             *)
(***************************************************************************)
EXTENDS Integers, FiniteSets

CONSTANTS
    Policies,       \* names of the policies an instance looks at
    DefaultLimit    \* their default limits, scaled down

Sensitivities == {"normal", "sensitive", "critical"}

ReadPolicies == {"authenticated_default", "tenant_read"}

SensitivePolicies ==
    {"pre_auth", "tenant_write", "tenant_write_organisation", "platform_read",
     "invite_mutation", "invite_create", "invite_create_organisation",
     "invite_create_target_domain", "invite_resend_invite",
     "invite_resend_organisation_daily"}

CriticalPolicies ==
    {"organisation_create", "audit_read", "invite_accept", "invite_accept_token",
     "invite_create_organisation_daily", "invite_create_target_email",
     "platform_write", "platform_staff_write", "privacy_dsr_submit",
     "privacy_export_download_url"}

RegisteredPolicies == ReadPolicies \cup SensitivePolicies \cup CriticalPolicies

ASSUME PoliciesAssumption ==
    Policies \subseteq RegisteredPolicies /\ DefaultLimit \in [Policies -> Nat \ {0}]

Sensitivity(p) ==
    CASE p \in ReadPolicies -> "normal"
      [] p \in SensitivePolicies -> "sensitive"
      [] p \in CriticalPolicies -> "critical"

DefaultFailOpen(p) == p \in ReadPolicies \cup {"pre_auth"}

-------------------------------------------------------------------------------
(* Settings. over is the fail_open of the override of a policy.            *)

Environments == {"dev", "staging", "prod"}
Modes == {"normal", "strict", "relaxed", "panic"}
Overrides == {"unset", "open", "closed"}

Settings ==
    [env : Environments, enabled : BOOLEAN, edge : BOOLEAN, preAuth : BOOLEAN,
     trustProxy : BOOLEAN, cidrs : BOOLEAN, edgeSecret : BOOLEAN, mode : Modes,
     over : [Policies -> Overrides]]

Protected(s) == s.env \in {"staging", "prod"}

\* _validate_rate_limit_fail_open_overrides.
SafeOverrides(s) ==
    \A p \in Policies : s.over[p] = "open" => Sensitivity(p) = "normal"

\* Variant: rate limiting without the check before authentication is enough.
ActorLimitsSuffice(s) == TRUE

\* _validate_pre_auth_policy.
PreAuthRequired(s) ==
    s.enabled /\ ~s.edge => s.preAuth /\ s.trustProxy /\ s.cidrs

\* validate_environment_security, as far as rate limiting goes.
ValidSettings(s) ==
    /\ Protected(s) => /\ s.enabled \/ s.edge
                       /\ SafeOverrides(s)
                       /\ s.trustProxy => s.cidrs
                       /\ PreAuthRequired(s)
                       /\ s.edge => s.cidrs /\ s.edgeSecret
    /\ s.env = "prod" => s.mode # "relaxed"

-------------------------------------------------------------------------------
(* The effective policies.                                                 *)

AtLeastOne(n) == IF n < 1 THEN 1 ELSE n

\* _apply_mode_to_limit.
ModeLimit(p, mode) ==
    LET limit == DefaultLimit[p]
    IN CASE mode = "strict" -> AtLeastOne(limit \div 2)
         [] mode = "relaxed" -> limit * 2
         [] mode = "panic" /\ Sensitivity(p) = "sensitive" -> AtLeastOne(limit \div 2)
         [] mode = "panic" /\ Sensitivity(p) = "critical" -> AtLeastOne(limit \div 4)
         [] OTHER -> limit

\* _apply_override: panic has the last word.
OverriddenFailOpen(p, mode, over) ==
    /\ ~(mode = "panic" /\ Sensitivity(p) # "normal")
    /\ over = "open" \/ (over = "unset" /\ DefaultFailOpen(p))

\* _should_force_fail_closed_in_environment.
ForcedClosed(s, p) == Protected(s) /\ p = "pre_auth"

\* build_effective_policy_registry.
EffectiveLimit(s) == [p \in Policies |-> ModeLimit(p, s.mode)]
EffectiveFailOpen(s) ==
    [p \in Policies |-> OverriddenFailOpen(p, s.mode, s.over[p]) /\ ~ForcedClosed(s, p)]
===============================================================================
