----------------------------- MODULE AuthChain -----------------------------
(***************************************************************************)
(* Authentication of the gateway's requests: the chain of auth plugins,    *)
(* the scheduler's tokens in Redis, and the cache of the roles that the    *)
(* portal adds to a scheduler token's own.  Several requests are           *)
(* authenticated at once: the lookup of roles is awaited, and meanwhile    *)
(* time passes, other requests ask, jobs of the scheduler end and an       *)
(* administrator changes the roles.                                        *)
(***************************************************************************)
EXTENDS Integers, Sequences

CONSTANTS
  Requests,      \* the requests
  Users,         \* the names principals have
  Owners,        \* those of them who have a token of the scheduler's
  Nobody,        \* the empty name, of an identity without a preferred_username
  SchedulerJobs, \* the jobs of the scheduler that may back a token
  Unlicensed,    \* those whose n_licenses is 0
  Roles,         \* the roles there are
  DefaultRoles,  \* SQED_DEFAULT_ROLES
  Plugins,       \* AUTH_PLUGINS, in order
  Strict,        \* STRICT_PREFIX_MODE
  LookupRoles,   \* SQED_ROLES_LOOKUP_URL is set
  TTL,           \* SQED_ROLES_CACHE_TTL
  MaxTime,       \* bound: the time until which the clock runs
  MaxGlitches    \* bound: calls that fail and processes that die

ASSUME NamesKnown    == Owners \cup {Nobody} \subseteq Users /\ Nobody \notin Owners
ASSUME LicensesKnown == Unlicensed \subseteq SchedulerJobs
ASSUME RolesKnown    == DefaultRoles \subseteq Roles
ASSUME PluginsLoaded == Plugins \in Seq({"keycloak", "sqed"}) /\ Plugins # <<>>
ASSUME SwitchesSet   == Strict \in BOOLEAN /\ LookupRoles \in BOOLEAN
ASSUME TimesNatural  == TTL \in Nat /\ MaxTime \in Nat /\ MaxGlitches \in Nat

VARIABLES
  token,     \* the bearer token of each request
  auth,      \* how far authenticate is with it: a step, "in", or the status it raises
  principal, \* the Principal of each request, once its plugin has made it out
  lookup,    \* its lookup of roles: when it was begun and what the portal answered
  cache,     \* _roles_cache: until when, and the roles
  fields,    \* the live fields of qpu:token:{token}, per owner: jobs of the scheduler
  granted,   \* the roles each owner has at the portal, beside the default ones
  lastHeld,  \* history: when an owner last had a role that was withdrawn at the portal
  clock,     \* time.monotonic, in units of which a cached answer lasts TTL
  hurt,      \* history: how many failures have hit each request
  glitches   \* failures so far

bus       == <<fields, granted, lastHeld>>
authVars  == <<auth, principal, lookup, cache>>
chain     == <<token, authVars, bus, clock>>
chainVars == <<chain, hurt, glitches>>

-----------------------------------------------------------------------------
Tokens     == [form : {"none", "jwt", "other"}, user : Users] \cup [form : {"sqed"}, user : Owners]
ExtraRoles == Roles \ DefaultRoles
Principals == [source : {"keycloak", "sqed"}, user : Users, roles : SUBSET Roles,
               licensed : BOOLEAN]
NoPrincipal == [source |-> "none"]
AuthSteps  == {"new", "due", "asking", "answered"}
Statuses   == {"401", "503"}

ChainTypeOK ==
  /\ token \in [Requests -> Tokens]
  /\ auth \in [Requests -> AuthSteps \cup Statuses \cup {"in"}]
  /\ principal \in [Requests -> Principals \cup {NoPrincipal}]
  /\ lookup \in [Requests -> [asked : Nat, roles : SUBSET ExtraRoles]]
  /\ cache \in [Owners -> [until : Nat, roles : SUBSET ExtraRoles]]
  /\ fields \in [Owners -> SUBSET SchedulerJobs]
  /\ granted \in [Owners -> SUBSET ExtraRoles]
  /\ lastHeld \in [Owners -> [ExtraRoles -> Nat]]
  /\ clock \in Nat
  /\ hurt \in [Requests -> 0..MaxGlitches]
  /\ glitches \in 0..MaxGlitches

\* The clock starts so late that an answer cached at 0 no longer holds, and a role last
\* held at 0 was never held.
EmptyCache == [u \in Owners |-> [until |-> 0, roles |-> {}]]

ChainInit ==
  /\ auth = [r \in Requests |-> "new"]
  /\ principal = [r \in Requests |-> NoPrincipal]
  /\ lookup = [r \in Requests |-> [asked |-> 0, roles |-> {}]]
  /\ cache = EmptyCache
  /\ fields \in [Owners -> SUBSET SchedulerJobs]
  /\ granted \in [Owners -> SUBSET ExtraRoles]
  /\ lastHeld = [u \in Owners |-> [role \in ExtraRoles |-> 0]]
  /\ clock = TTL + 1
  /\ hurt = [r \in Requests |-> 0] /\ glitches = 0

-----------------------------------------------------------------------------
Works == UNCHANGED <<glitches, hurt>>
Fails(r) ==
  /\ glitches < MaxGlitches /\ glitches' = glitches + 1
  /\ hurt' = [hurt EXCEPT ![r] = @ + 1]

Raise(r, status) ==
  /\ auth' = [auth EXCEPT ![r] = status]
  /\ UNCHANGED <<principal, lookup, cache>>

\* A Principal, with or without roles still to be added.
Recognise(r, step, p) ==
  /\ auth' = [auth EXCEPT ![r] = step]
  /\ principal' = [principal EXCEPT ![r] = p]

Loaded(plugin) == \E i \in DOMAIN Plugins : Plugins[i] = plugin

\* The plugin whose prefix the token has; it alone is asked.
Claimed(r) == token[r].form = "sqed" /\ Loaded("sqed")

-----------------------------------------------------------------------------
\* KeycloakAuthPlugin.validate, without an await: a token with the form of a JWT is
\* decoded and verified, or refused, also when the keys cannot be had; others are
\* declined.
KeycloakValidate(r) ==
  \/ /\ token[r].form = "jwt" /\ Works
     /\ \E roles \in SUBSET Roles :
          Recognise(r, "in", [source |-> "keycloak", user |-> token[r].user,
                              roles |-> roles, licensed |-> TRUE])
     /\ UNCHANGED <<lookup, cache>>
  \/ Works /\ Raise(r, "401")
  \/ token[r].form = "jwt" /\ Fails(r) /\ Raise(r, "401")

\* What SqedAuthPlugin.validate makes of the fields of a token: whether their licenses
\* add up to any.
ByScheduler(u, roles) ==
  [source |-> "sqed", user |-> u, roles |-> DefaultRoles \cup roles,
   licensed |-> fields[u] \ Unlicensed # {}]

\* slip: an unreachable token backend is taken for an unknown token.
SqedValidate_AsUnknown(r) ==
  LET u == token[r].user IN
  \/ Fails(r) /\ Raise(r, "401")
  \/ Works /\ fields[u] = {} /\ Raise(r, "401")
  \/ /\ Works /\ fields[u] # {}
     /\ \/ /\ ~LookupRoles
           /\ Recognise(r, "in", ByScheduler(u, {})) /\ UNCHANGED <<lookup, cache>>
        \/ /\ LookupRoles /\ cache[u].until > clock
           /\ Recognise(r, "in", ByScheduler(u, cache[u].roles)) /\ UNCHANGED <<lookup, cache>>
        \/ /\ LookupRoles /\ cache[u].until <= clock
           /\ Recognise(r, "asking", ByScheduler(u, {}))
           /\ lookup' = [lookup EXCEPT ![r] = [asked |-> clock, roles |-> {}]]
           /\ UNCHANGED cache

\* SqedAuthPlugin.validate up to its await: the token's fields are read from Redis, and
\* its owner's roles are in the cache or have to be asked for.
SqedValidate(r) ==
  LET u == token[r].user IN
  \/ Fails(r) /\ Raise(r, "503")
  \/ Works /\ fields[u] = {} /\ Raise(r, "401")
  \/ /\ Works /\ fields[u] # {}
     /\ \/ /\ ~LookupRoles
           /\ Recognise(r, "in", ByScheduler(u, {})) /\ UNCHANGED <<lookup, cache>>
        \/ /\ LookupRoles /\ cache[u].until > clock
           /\ Recognise(r, "in", ByScheduler(u, cache[u].roles)) /\ UNCHANGED <<lookup, cache>>
        \/ /\ LookupRoles /\ cache[u].until <= clock
           /\ Recognise(r, "asking", ByScheduler(u, {}))
           /\ lookup' = [lookup EXCEPT ![r] = [asked |-> clock, roles |-> {}]]
           /\ UNCHANGED cache

\* authenticate: the plugin that claims the token's prefix, alone; else, unless
\* prefixes are mandatory, those without a prefix, of which there is one.
Authenticate(r) ==
  /\ auth[r] = "due"
  /\ \/ token[r].form = "none" /\ Works /\ Raise(r, "401")
     \/ Claimed(r) /\ SqedValidate(r)
     \/ /\ token[r].form # "none" /\ ~Claimed(r)
        /\ IF ~Strict /\ Loaded("keycloak") THEN KeycloakValidate(r)
                                            ELSE Works /\ Raise(r, "401")
  /\ UNCHANGED <<token, bus, clock>>

\* The portal looks the roles up, at some time while the gateway awaits them.
PortalAnswers(r) ==
  /\ auth[r] = "asking"
  /\ auth' = [auth EXCEPT ![r] = "answered"]
  /\ lookup' = [lookup EXCEPT ![r].roles = granted[token[r].user]]
  /\ UNCHANGED <<token, principal, cache, bus, clock, hurt, glitches>>

\* The end of _lookup_roles: the answer, or none, is cached, and validate adds it.
Cached(r, until, roles) ==
  LET u == token[r].user IN
  /\ cache' = [cache EXCEPT ![u] = [until |-> until, roles |-> roles]]
  /\ principal' = [principal EXCEPT ![r].roles = @ \cup roles]
  /\ auth' = [auth EXCEPT ![r] = "in"]

RolesArrive_TimedLate(r) ==   \* slip: the time is taken when the answer is there
  /\ \/ auth[r] = "answered" /\ Works /\ Cached(r, clock + TTL, lookup[r].roles)
     \/ auth[r] \in {"asking", "answered"} /\ Fails(r) /\ Cached(r, clock + TTL, {})
  /\ UNCHANGED <<token, lookup, bus, clock>>

RolesArrive(r) ==
  /\ \/ auth[r] = "answered" /\ Works /\ Cached(r, lookup[r].asked + TTL, lookup[r].roles)
     \/ auth[r] \in {"asking", "answered"} /\ Fails(r)
        /\ Cached(r, lookup[r].asked + TTL, {})
  /\ UNCHANGED <<token, lookup, bus, clock>>

-----------------------------------------------------------------------------
\* The world: time, the scheduler's prolog and epilog, the portal's administrator.
Tick ==
  /\ clock < MaxTime /\ clock' = clock + 1
  /\ UNCHANGED <<token, authVars, bus, hurt, glitches>>

Prolog(u, j) ==
  /\ j \notin fields[u]
  /\ fields' = [fields EXCEPT ![u] = @ \cup {j}]
  /\ UNCHANGED <<token, authVars, granted, lastHeld, clock, hurt, glitches>>

Epilog(u, j) ==
  /\ j \in fields[u]
  /\ fields' = [fields EXCEPT ![u] = @ \ {j}]
  /\ UNCHANGED <<token, authVars, granted, lastHeld, clock, hurt, glitches>>

Grant(u, role) ==
  /\ role \notin granted[u]
  /\ granted' = [granted EXCEPT ![u] = @ \cup {role}]
  /\ UNCHANGED <<token, authVars, fields, lastHeld, clock, hurt, glitches>>

Withdraw(u, role) ==
  /\ role \in granted[u]
  /\ granted' = [granted EXCEPT ![u] = @ \ {role}]
  /\ lastHeld' = [lastHeld EXCEPT ![u][role] = clock]
  /\ UNCHANGED <<token, authVars, fields, clock, hurt, glitches>>

World ==
  \/ Tick
  \/ \E u \in Owners :
       \/ \E j \in SchedulerJobs : Prolog(u, j) \/ Epilog(u, j)
       \/ \E role \in ExtraRoles : Grant(u, role) \/ Withdraw(u, role)

-----------------------------------------------------------------------------
\* A role beyond the default ones is honoured in a scheduler's request only if its
\* owner had it at the portal less than TTL ago, or since the request asked for it:
\* however long an answer takes, and whatever other answer for the same user comes
\* in first, no cached answer outlives its time.
HeldSince(u, role, time) == role \in granted[u] \/ lastHeld[u][role] >= time

RolesRecent ==
  [][\A r \in Requests :
       auth'[r] = "in" /\ auth[r] # "in" /\ principal'[r].source = "sqed" =>
         \A role \in principal'[r].roles \ DefaultRoles :
           HeldSince(token[r].user, role,
                     IF auth[r] = "answered" THEN lookup[r].asked ELSE clock - TTL + 1)]_chainVars

\* A scheduler's token is refused as invalid, 401, only when none of its fields is live;
\* while the token backend cannot be asked the answer is 503.
OutageIsNot401 ==
  [][\A r \in Requests :
       Claimed(r) /\ auth'[r] = "401" /\ auth[r] # "401" => fields[token[r].user] = {}]_chainVars
=============================================================================
