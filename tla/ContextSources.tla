--------------------------- MODULE ContextSources ---------------------------
(***************************************************************************)
(* Context that comes from registry agents: the approved context sources   *)
(* that are attached to the builder, their cache, and the context that an  *)
(* agent declares to side-load itself.                                     *)
(***************************************************************************)
EXTENDS ContextBudget

Down == "down"

\* attach_registry_context_sources: the approved context sources the tenant holds the
\* scopes for, in the order of the registry.
attach_registry_context_sources(manifests, scopes) ==
    Select(manifests, {i \in DOMAIN manifests : /\ manifests[i].kind = "context_source"
                                                /\ manifests[i].rbac_scopes \subseteq scopes})

\* Mutation: mutable declarations are cached like any other.
CacheEverything(m) == TRUE
\* A source with a mutable declaration is fetched for every build.
cacheable(m) == ~m.mutable

\* A dictionary with an entry set.
Put(dict, key, value) == [x \in DOMAIN dict \cup {key} |-> IF x = key THEN value ELSE dict[x]]

\* ContextSourceCache.get.
Cached(m, cache) == cacheable(m) /\ m.id \in DOMAIN cache

\* RegistryContextSource.contribute: from the cache, from the agent, skipped when the
\* agent is unavailable, or an error that ends the build when the source is required.
RegistryContribute(built, m, remote) ==
    IF built.failed THEN built
    ELSE IF ~Cached(m, built.cache) /\ remote[m.id] = Down
         THEN [built EXCEPT !.failed = m.required]
         ELSE LET datum == IF Cached(m, built.cache) THEN built.cache[m.id] ELSE remote[m.id]
              IN  [built EXCEPT !.data = Put(@, m.id, datum),
                                !.cache = IF cacheable(m) THEN Put(@, m.id, datum) ELSE @]

\* ContextBuilder.build: the sources in turn.
Contributed(sources, cache, remote) ==
    LET built[n \in 0..Len(sources)] ==
            IF n = 0 THEN [data |-> [id \in {} |-> 0], cache |-> cache, failed |-> FALSE]
            ELSE RegistryContribute(built[n - 1], sources[n], remote)
    IN  built
Assemble(sources, cache, remote) == Contributed(sources, cache, remote)[Len(sources)]

-----------------------------------------------------------------------------
(* Side-loaded context: an envelope is its flags, tools, pointers and semantic model. *)

available_context_keys(env) == env.flags \cup env.tools \cup env.pointers \cup env.semantic

\* Mutation: what the earlier declarations took out does not count as assembled.
DeclareAfterDedup(out, decl, available) ==
    IF out.refused \/ ~(decl.requires_from_l1 \subseteq available_context_keys(out.env))
    THEN [out EXCEPT !.refused = TRUE]
    ELSE [out EXCEPT !.env.pointers = @ \ decl.supplies, !.env.semantic = @ \ decl.supplies]
\* One declaration: what it requires must have been assembled, what it supplies is
\* no longer carried.
Declare(out, decl, available) ==
    IF out.refused \/ ~(decl.requires_from_l1 \subseteq available)
    THEN [out EXCEPT !.refused = TRUE]
    ELSE [out EXCEPT !.env.pointers = @ \ decl.supplies, !.env.semantic = @ \ decl.supplies]

\* The declarations in turn, against what was assembled at the outset.
Declared(env, declarations) ==
    LET available == available_context_keys(env)
        out[n \in 0..Len(declarations)] ==
            IF n = 0 THEN [env |-> env, refused |-> FALSE]
            ELSE Declare(out[n - 1], declarations[n], available)
    IN  out
process_context_delegations(env, declarations) == Declared(env, declarations)[Len(declarations)]
=============================================================================
