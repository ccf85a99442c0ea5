------------------------------ MODULE Tenants ------------------------------
(***************************************************************************)
(* BrandRegistry of multitenant.py and the authentication of require_brand.*)
(* create_brand gives every tenant one key, so a brand stands for its key. *)
(* Keys and signatures are what they are found to be; how they are hashed  *)
(* and compared is left out.                                               *)
(***************************************************************************)
EXTENDS Naturals, FiniteSets

CONSTANTS Brands,
          DefaultLimit,     \* OPSONARA_RATE_LIMIT_PER_MINUTE; 0 is unlimited
          SigningRequired   \* OPSONARA_AUTH_SIGNING_REQUIRED

ASSUME TenantSettings == DefaultLimit \in Nat /\ SigningRequired \in BOOLEAN

VARIABLE registry   \* registry[b]: the tenant, once it is registered

\* limit is rate_limit_per_minute, 0 if it has none of its own; signed: it has
\* a signing secret.
Tenant == [known : BOOLEAN, limit : Nat, signed : BOOLEAN]
TenantsInit == registry = [b \in Brands |-> [known |-> FALSE, limit |-> 0, signed |-> FALSE]]

\* POST /v1/brands
Register(b, limit, signed) ==
    /\ ~registry[b].known
    /\ registry' = [registry EXCEPT ![b] = [known |-> TRUE, limit |-> limit, signed |-> signed]]

LimitOf(b) == IF registry[b].limit # 0 THEN registry[b].limit ELSE DefaultLimit

\* What a call presents: the tenant's key or not, and its signature.
Credentials == [key : BOOLEAN, signature : {"none", "stale", "good"}]
Authentic(b, c) ==
    /\ registry[b].known /\ c.key
    /\ IF registry[b].signed THEN c.signature = "good" ELSE ~SigningRequired
=============================================================================
