----------------------------- MODULE MCSsoLogin -----------------------------
(***************************************************************************)
(* SsoLogin for TLC: a configuration file with a profile that names a      *)
(* session, one whose session has no start URL, and one that is incomplete. *)
(***************************************************************************)
EXTENDS SsoLogin

MCKeys == {"region", "sso_region", "sso_start_url", "sso_session"}
MCRequired == MCKeys \ {"sso_session"}

Section(type, name, given) ==
  [type |-> type, name |-> name,
   keys |-> [k \in MCKeys |-> IF k \in DOMAIN given THEN given[k] ELSE ""]]

MCConfig == <<
  Section("default", "", [region |-> "r0"]),
  Section("profile", "dev", [sso_session |-> "corp"]),
  Section("profile", "ops",
          [region |-> "r1", sso_region |-> "r1", sso_start_url |-> "url", sso_session |-> "bare"]),
  Section("sso-session", "corp", [sso_region |-> "r1", sso_start_url |-> "url"]),
  Section("sso-session", "bare", [sso_region |-> "r1"]) >>
=============================================================================
