--------------------------- MODULE AccessControl ---------------------------
(***************************************************************************)
(* Who may do what: tenants, principals, scopes and signing keys.          *)
(*                                                                         *)
(* A principal holds scopes; NoPrincipal is None, a trusted in-process     *)
(* caller.  A function that raises returns Refused.  A key set maps kids   *)
(* to secrets; Empty secrets are the dev setting of the env provider.      *)
(***************************************************************************)
EXTENDS Naturals, FiniteSets, SequencesExt

\* The empty string, which the code takes for "not given".
Unset == ""
Refused == [refused |-> TRUE]
NoPrincipal == [id |-> "none", scopes |-> {}]
NoTenant == [id |-> "none", scopes |-> {}]
ADMIN_SCOPES == {"runs:read", "runs:write", "workflow:author", "workflow:approve",
                 "registry:author", "registry:approve"}

resolve_tenant(settings, tenant) ==
    IF settings.tenancy_mode = "single"
    THEN [id |-> IF tenant = Unset THEN "default" ELSE tenant, scopes |-> {}]
    ELSE IF tenant = Unset THEN Refused ELSE [id |-> tenant, scopes |-> {}]

service_principal == [id |-> "maof-service", scopes |-> {}]

\* Mutation: the local operator is trusted in every tenancy mode.
OperatorAlwaysTrusted(settings) ==
    IF settings.principal # NoPrincipal THEN settings.principal
    ELSE [service_principal EXCEPT !.scopes = ADMIN_SCOPES]
\* PRINCIPAL_ID, the trusted local operator, or the scopeless service.
resolve_operator_principal(settings) ==
    IF settings.principal # NoPrincipal THEN settings.principal
    ELSE IF settings.tenancy_mode = "single"
         THEN [service_principal EXCEPT !.scopes = ADMIN_SCOPES]
         ELSE service_principal

\* principal_from_claims under a ClaimsMapping; a token without subject is refused.
principal_from_claims(claims, mapping) ==
    IF claims.subject = Unset THEN Refused
    ELSE [id |-> claims.subject, scopes |-> claims.values[mapping.scopes_claim]]

\* verify_oidc_token: audience and issuer are checked only when they are configured.
verify_oidc_token(token, expected, mapping) ==
    IF /\ token.signed /\ ~token.expired
       /\ expected.issuer \in {Unset, token.issuer}
       /\ expected.audience \in {Unset, token.audience}
    THEN principal_from_claims(token.claims, mapping) ELSE Refused

held_scopes(principal, tenant) == principal.scopes \cup tenant.scopes
require_scopes(principal, required, tenant) == required \subseteq held_scopes(principal, tenant)

require_run_read(owner, principal, tenant) ==
    /\ require_scopes(principal, {"runs:read"}, tenant)
    /\ tenant # NoTenant => tenant.id = owner
require_run_write(owner, principal, tenant) ==
    /\ require_scopes(principal, {"runs:write"}, tenant)
    /\ tenant # NoTenant => tenant.id = owner

-----------------------------------------------------------------------------
(* Signing keys: Signer.__init__ and the key providers. *)

Signer(keys, active) == IF active \in DOMAIN keys THEN [keys |-> keys, active |-> active] ELSE Refused

default_kid(keys) == IF "default" \in DOMAIN keys THEN "default"
                     ELSE CHOOSE k \in DOMAIN keys : TRUE

EnvKeyProvider(settings) == Signer([k \in {settings.kid} |-> settings.secret], settings.kid)

\* An unreadable file, no key, or any empty secret is refused.
FileKeyProvider(file) ==
    IF ~file.readable \/ DOMAIN file.keys = {} \/ (\E k \in DOMAIN file.keys : file.keys[k] = Unset)
    THEN Refused
    ELSE Signer(file.keys, IF file.active = Unset THEN default_kid(file.keys) ELSE file.active)

\* Vault drops the empty secrets and needs one that is not.
VaultKeyProvider(file) ==
    LET usable == {k \in DOMAIN file.keys : file.keys[k] # Unset}
        keys == [k \in usable |-> file.keys[k]]
    IN  IF ~file.readable \/ usable = {} THEN Refused ELSE Signer(keys, default_kid(keys))

build_signer(settings) ==
    CASE settings.provider = "env" -> EnvKeyProvider(settings)
      [] settings.provider = "file" -> FileKeyProvider(settings.file)
      [] settings.provider = "vault" -> VaultKeyProvider(settings.file)

\* Mutation: the check looks at the provider only.
SigningAssumed(settings) == TRUE
ensure_signing_configured(settings) ==
    ~(settings.require_signature /\ settings.provider = "env" /\ settings.secret = Unset)

\* Signer.headers and Signer.verify.
Headers(signer) == [kid |-> signer.active, secret |-> signer.keys[signer.active]]
VerifyHeaders(signer, headers) ==
    /\ headers.kid # Unset
    /\ headers.kid \in DOMAIN signer.keys /\ signer.keys[headers.kid] = headers.secret
=============================================================================
