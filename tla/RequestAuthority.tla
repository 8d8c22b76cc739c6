--------------------------- MODULE RequestAuthority ---------------------------
(***************************************************************************)
(* What the server's request boundary decides: the classification of an    *)
(* internal error into one public denial, the tenant an actor acts for,    *)
(* and the decision on one action.  Everything here is a function of the   *)
(* memberships at the instant of the call; AuthSession calls it from the   *)
(* handlers, which make several such calls, each at its own instant.       *)
(*                                                                         *)
(* A raised error is named by its internal code.  The mapper looks for     *)
(* words in that code; ErrorWords lists the words it would find.           *)
(***************************************************************************)
EXTENDS Naturals, FiniteSets, FiniteSetsExt

CONSTANTS Users,        \* the people, one actor each
          Tenants,      \* the organizations
          NoTenant,     \* no organization named
          Claim,        \* [Users -> Tenants \cup {NoTenant}]: app_metadata.selected_tenant_id
          Permissions   \* the active rows of the role table: <<role, type, action>>

ASSUME ClaimAssumption == Claim \in [Users -> Tenants \cup {NoTenant}]
ASSUME NoTenantAssumption == NoTenant \notin Tenants

Roles == {"organization_admin", "member"}

-----------------------------------------------------------------------------
(* Internal errors: the words the patterns of the mapper match, the status. *)
Err(words, status) == [words |-> words, status |-> status]

InternalErrors ==
    [ AUTHENTICATION_INVALID              |-> Err({"AUTHENTICATION"}, 401),
      AUTHENTICATION_PROVIDER_UNAVAILABLE |-> Err({"AUTHENTICATION"}, 503),
      AUTHORITY_DEPENDENCY_UNAVAILABLE    |-> Err({}, 503),
      REFRESH_SESSION_REQUIRED            |-> Err({"SESSION"}, 0),
      PREAUTH_QUOTA_EXCEEDED              |-> Err({"QUOTA"}, 429),
      MEMBERSHIP_INACTIVE                 |-> Err({"MEMBERSHIP"}, 403),
      TENANT_UNAUTHORIZED                 |-> Err({"TENANT"}, 403),
      TENANT_OVERRIDE_DENIED              |-> Err({"TENANT"}, 403),
      TENANT_AMBIGUOUS                    |-> Err({"TENANT_AMBIGUOUS", "TENANT"}, 403),
      PV_IDEMPOTENCY_FINGERPRINT_CONFLICT |-> Err({"IDEMPOTENCY"}, 409),
      PV_IDEMPOTENCY_RESULT_CONFLICT      |-> Err({"IDEMPOTENCY"}, 409) ]

Rule(word, code) == [word |-> word, code |-> code]

(* The patterns in the order the mapper tries them. *)
Rules ==
    << Rule("QUOTA", "DENY_RATE_LIMITED"), Rule("AUDIT", "DENY_AUDIT_PERSISTENCE"),
       Rule("IDEMPOTENCY", "DENY_IDEMPOTENCY_CONFLICT"),
       Rule("TENANT_AMBIGUOUS", "DENY_TENANT_AMBIGUOUS"),
       Rule("VERSION", "DENY_AUTHORITY_VERSION_CONFLICT"),
       Rule("ACTOR", "DENY_ACTOR_UNKNOWN"), Rule("MEMBERSHIP", "DENY_MEMBERSHIP_INACTIVE"),
       Rule("TENANT", "DENY_TENANT_UNAUTHORIZED"), Rule("ACTION", "DENY_ACTION") >>

(* The public code of a raised error. *)
PublicCode(raised) ==
    LET e    == InternalErrors[raised]
        hits == {i \in DOMAIN Rules : Rules[i].word \in e.words}
    IN  IF e.status = 429 THEN "DENY_RATE_LIMITED"
        ELSE IF hits # {} THEN Rules[Min(hits)].code
        ELSE IF e.words \cap {"AUTHENTICATION", "SESSION"} # {} /\ e.status < 500
             THEN "DENY_UNAUTHENTICATED"
             ELSE "DENY_AUTHORITY_UNAVAILABLE"

(* The codes answered with 401: only these make the browser refresh its session. *)
Unauthorized(code) == code = "DENY_UNAUTHENTICATED"

(* The codes after which the browser may offer to try again: the copy the
   browser keeps and the server's own list must both say so. *)
ServerRetryable == {"DENY_AUTHORITY_VERSION_CONFLICT", "DENY_AUTHORITY_UNAVAILABLE",
                    "DENY_RATE_LIMITED", "DENY_AUDIT_PERSISTENCE"}
BrowserRetryable == {"DENY_AUTHORITY_UNAVAILABLE", "DENY_RATE_LIMITED",
                     "DENY_AUDIT_PERSISTENCE", "DENY_MALFORMED_RESPONSE", "DENY_NETWORK_FAILURE"}
Retryable(code) ==
    /\ code \in BrowserRetryable
    /\ code \in ServerRetryable \cup {"DENY_MALFORMED_RESPONSE", "DENY_NETWORK_FAILURE"}

-----------------------------------------------------------------------------
(* Memberships: [Users -> [Tenants -> [active, role, version]]]. *)
Eligible(members, u) == {x \in Tenants : members[u][x].active}

(* The tenant of a request.  One active membership is taken as it is; of
   several, the one the session's claim names.  The hint of the request never
   selects: it may only agree. *)
Derive(members, u, hint) ==
    LET eligible == Eligible(members, u)
        picked   == IF Cardinality(eligible) = 1 THEN CHOOSE x \in eligible : TRUE ELSE Claim[u]
    IN  CASE eligible = {} -> [error |-> "MEMBERSHIP_INACTIVE", tenant |-> NoTenant]
          [] eligible # {} /\ picked = NoTenant ->
                [error |-> "TENANT_AMBIGUOUS", tenant |-> NoTenant]
          [] eligible # {} /\ picked # NoTenant /\ picked \notin eligible ->
                [error |-> "TENANT_UNAUTHORIZED", tenant |-> NoTenant]
          [] picked \in eligible /\ hint \notin {NoTenant, picked} ->
                [error |-> "TENANT_OVERRIDE_DENIED", tenant |-> NoTenant]
          [] OTHER -> [error |-> "none", tenant |-> picked]

(* has_permission: the tenant is the caller's own, derived with no hint, and
   the role of the membership as it stands carries the row. *)
HasPermission(members, u, x, type, action) ==
    /\ Derive(members, u, NoTenant).tenant = x
    /\ <<members[u][x].role, type, action>> \in Permissions

(* Mutant: the version the caller derived is not compared. *)
DecisionOnAnyVersion(members, u, x, version, type, action) ==
    LET derived == Derive(members, u, x)
    IN  CASE derived.error # "none" -> "DENY_TENANT_UNAUTHORIZED"
          [] OTHER -> IF HasPermission(members, u, x, type, action) THEN "ALLOW" ELSE "DENY_ROLE"

(* The decision of authorize_and_audit on one action in tenant x, as the code
   the route answers: the reasons carry the DENY_ codes themselves.  The version
   compared is, in the database, the greater of the actor's and the membership's;
   an actor's starts at 1 and nothing in the repository raises it, so it is the
   membership's.  (An actor's version that rose above its memberships' would hide
   a change of role from the comparison.)  The status of actor and tenant, and
   expiry, which can only refuse more, are left out. *)
Decision(members, u, x, version, type, action) ==
    LET derived == Derive(members, u, x)
    IN  CASE derived.error # "none" ->
                IF derived.error = "MEMBERSHIP_INACTIVE" THEN "DENY_MEMBERSHIP_INACTIVE"
                                                         ELSE "DENY_TENANT_UNAUTHORIZED"
          [] derived.error = "none" /\ members[u][x].version # version ->
                "DENY_AUTHORITY_VERSION_CONFLICT"
          [] OTHER -> IF \A r \in Roles : <<r, type, action>> \notin Permissions THEN "DENY_ACTION"
                      ELSE IF HasPermission(members, u, x, type, action) THEN "ALLOW"
                      ELSE "DENY_ROLE"

(* What the session routes ask for, in the words they use. *)
ReadTenant == <<"tenant", "tenant_resource/read">>
ManageMembership == <<"membership", "membership/manage">>

(* set_membership_authority: the target's version must be the one the
   administrator saw, and every change takes the next one. *)
SetMembership(members, u, x, role, active) ==
    [members EXCEPT ![u][x] = [active |-> active, role |-> role, version |-> @.version + 1]]
=============================================================================
