---------------------- MODULE SubmissionPipelineProofs ----------------------
(***************************************************************************)
(* What is proved of the gateway's handling of requests, for any number of *)
(* requests, users and roles, any route table and any number of failures.  *)
(***************************************************************************)
EXTENDS SubmissionPipeline, TLAPS

\* The variables that the roles of a principal go through have their types.
RolesTyped ==
  /\ token \in [Requests -> Tokens]
  /\ auth \in [Requests -> AuthSteps \cup Statuses \cup {"in"}]
  /\ principal \in [Requests -> Principals \cup {NoPrincipal}]
  /\ lookup \in [Requests -> [asked : Nat, roles : SUBSET ExtraRoles]]
  /\ cache \in [Owners -> [until : Nat, roles : SUBSET ExtraRoles]]
  /\ granted \in [Owners -> SUBSET ExtraRoles]
  /\ lastHeld \in [Owners -> [ExtraRoles -> Nat]]
  /\ clock \in Nat

\* A handler that asks for roles has a principal of the scheduler's with the default
\* ones, and asked in the past.
AskingInv ==
  \A r \in Requests : auth[r] \in {"asking", "answered"} =>
    /\ token[r].user \in Owners
    /\ principal[r] \in Principals /\ principal[r].roles = DefaultRoles
    /\ lookup[r].asked <= clock

\* What the portal answered was so at some time since it was asked.
AnswerInv ==
  \A r \in Requests : auth[r] = "answered" =>
    \A role \in lookup[r].roles : HeldSince(token[r].user, role, lookup[r].asked)

\* What is cached was so less than TTL before it ceases to hold, and ceases in time.
CacheInv ==
  \A u \in Owners :
    /\ cache[u].until <= clock + TTL
    /\ \A role \in cache[u].roles : HeldSince(u, role, cache[u].until - TTL)

RolesKept == RolesTyped /\ clock > TTL /\ AskingInv /\ AnswerInv /\ CacheInv

-----------------------------------------------------------------------------
\* What a step of the gateway, of the world, or of neither does to authentication.
LEMMA ChainSteps ==
  ASSUME [Next]_vars
  PROVE  \/ UNCHANGED chain
         \/ \E r \in Requests :
              \/ /\ auth' = [auth EXCEPT ![r] = "due"]
                 /\ UNCHANGED <<token, principal, lookup, cache, bus, clock>>
              \/ Authenticate(r) \/ PortalAnswers(r) \/ RolesArrive(r)
         \/ World
         \/ cache' = EmptyCache /\ UNCHANGED <<token, auth, principal, lookup, bus, clock>>
<1>1. ASSUME NEW r \in Requests, Handle(r)
      PROVE  \/ UNCHANGED chain
             \/ /\ auth' = [auth EXCEPT ![r] = "due"]
                /\ UNCHANGED <<token, principal, lookup, cache, bus, clock>>
             \/ Authenticate(r) \/ PortalAnswers(r) \/ RolesArrive(r)
  <2>1. CASE Arrive(r)
    BY <2>1 DEF Arrive, chain, authVars, bus
  <2>2. CASE Authenticating(r)
    BY <2>2 DEF Authenticating
  <2>3. CASE Authenticated(r) \/ InitialArtifacts(r)
    BY <2>3 DEF Authenticated, InitialArtifacts, chainVars
  <2>4. CASE AuthorizeJob(r) \/ CheckSubmission(r) \/ Forward(r) \/ Rollback(r)
    BY <2>4 DEF AuthorizeJob, CheckSubmission, Forward, Rollback
  <2>5. CASE UploadPayload(r) \/ LogJob(r) \/ InitialReport(r)
    BY <2>5 DEF UploadPayload, LogJob, InitialReport
  <2>6. QED
    BY <1>1, <2>1, <2>2, <2>3, <2>4, <2>5 DEF Handle
<1>2. ASSUME NEW r \in Requests, MachineEnds(r) \/ Close(r)
      PROVE  UNCHANGED chain
  BY <1>2 DEF MachineEnds, Close, chainVars
<1>3. CASE Crash
  BY <1>3 DEF Crash
<1>4. CASE Elsewhere
  BY <1>4 DEF Elsewhere
<1>5. CASE UNCHANGED vars
  BY <1>5 DEF vars, chainVars
<1>6. QED
  BY <1>1, <1>2, <1>3, <1>4, <1>5 DEF Next

\* The ways in which authenticate goes on for a request, without the other services.
LEMMA ValidateSteps ==
  ASSUME NEW r \in Requests, Authenticate(r), RolesTyped
  PROVE  /\ UNCHANGED <<token, bus, clock>>
         /\ \/ /\ \E status \in Statuses : auth' = [auth EXCEPT ![r] = status]
               /\ UNCHANGED <<principal, lookup, cache>>
            \/ /\ auth' = [auth EXCEPT ![r] = "in"]
               /\ \E p \in Principals :
                    /\ principal' = [principal EXCEPT ![r] = p]
                    /\ \/ p.source = "keycloak"
                       \/ p.roles = DefaultRoles
                       \/ /\ token[r].user \in Owners /\ cache[token[r].user].until > clock
                          /\ p.roles = DefaultRoles \cup cache[token[r].user].roles
               /\ UNCHANGED <<lookup, cache>>
            \/ /\ auth' = [auth EXCEPT ![r] = "asking"]
               /\ token[r].user \in Owners
               /\ \E p \in Principals : /\ p.roles = DefaultRoles
                                        /\ principal' = [principal EXCEPT ![r] = p]
               /\ lookup' = [lookup EXCEPT ![r] = [asked |-> clock, roles |-> {}]]
               /\ UNCHANGED cache
<1> DEFINE u == token[r].user
<1>1. token[r] \in Tokens /\ token[r].user \in Users
  BY NamesKnown DEF RolesTyped, Tokens
<1>2. ASSUME KeycloakValidate(r)
      PROVE  \/ /\ \E status \in Statuses : auth' = [auth EXCEPT ![r] = status]
                /\ UNCHANGED <<principal, lookup, cache>>
             \/ /\ auth' = [auth EXCEPT ![r] = "in"]
                /\ \E p \in Principals : /\ principal' = [principal EXCEPT ![r] = p]
                                         /\ p.source = "keycloak"
                /\ UNCHANGED <<lookup, cache>>
  <2>1. CASE Raise(r, "401")
    BY <2>1 DEF Raise, Statuses
  <2>2. ASSUME NEW roles \in SUBSET Roles,
               Recognise(r, "in", [source |-> "keycloak", user |-> u,
                                   roles |-> roles, licensed |-> TRUE]),
               UNCHANGED <<lookup, cache>>
        PROVE  /\ auth' = [auth EXCEPT ![r] = "in"]
               /\ \E p \in Principals : /\ principal' = [principal EXCEPT ![r] = p]
                                        /\ p.source = "keycloak"
    <3> DEFINE p == [source |-> "keycloak", user |-> u, roles |-> roles, licensed |-> TRUE]
    <3>1. p \in Principals
      BY <1>1 DEF Principals
    <3>2. QED
      BY <2>2, <3>1 DEF Recognise
  <2>3. QED
    BY <1>2, <2>1, <2>2 DEF KeycloakValidate
<1>3. ASSUME Claimed(r) PROVE token[r].user \in Owners
  BY <1>1, <1>3 DEF Claimed, Tokens
<1>4. ASSUME NEW roles \in SUBSET ExtraRoles
      PROVE  /\ ByScheduler(u, roles) \in Principals
             /\ ByScheduler(u, roles).roles = DefaultRoles \cup roles
  BY <1>1, RolesKnown DEF ByScheduler, Principals, ExtraRoles
<1>5. ASSUME Claimed(r), SqedValidate(r)
      PROVE  \/ /\ \E status \in Statuses : auth' = [auth EXCEPT ![r] = status]
                /\ UNCHANGED <<principal, lookup, cache>>
             \/ /\ auth' = [auth EXCEPT ![r] = "in"]
                /\ \E roles \in SUBSET ExtraRoles :
                     /\ principal' = [principal EXCEPT ![r] = ByScheduler(u, roles)]
                     /\ \/ roles = {}
                        \/ cache[u].until > clock /\ roles = cache[u].roles
                /\ UNCHANGED <<lookup, cache>>
             \/ /\ auth' = [auth EXCEPT ![r] = "asking"]
                /\ principal' = [principal EXCEPT ![r] = ByScheduler(u, {})]
                /\ lookup' = [lookup EXCEPT ![r] = [asked |-> clock, roles |-> {}]]
                /\ UNCHANGED cache
  <2>1. cache[u].roles \in SUBSET ExtraRoles
    BY <1>3, <1>5 DEF RolesTyped
  <2>2. CASE Raise(r, "401") \/ Raise(r, "503")
    BY <2>2 DEF Raise, Statuses
  <2>3. CASE Recognise(r, "in", ByScheduler(u, {})) /\ UNCHANGED <<lookup, cache>>
    BY <2>3 DEF Recognise
  <2>4. CASE /\ cache[u].until > clock
             /\ Recognise(r, "in", ByScheduler(u, cache[u].roles)) /\ UNCHANGED <<lookup, cache>>
    BY <2>1, <2>4 DEF Recognise
  <2>5. CASE /\ Recognise(r, "asking", ByScheduler(u, {}))
             /\ lookup' = [lookup EXCEPT ![r] = [asked |-> clock, roles |-> {}]]
             /\ UNCHANGED cache
    BY <2>5 DEF Recognise
  <2>6. QED
    BY <1>5, <2>2, <2>3, <2>4, <2>5 DEF SqedValidate
<1>6. CASE Claimed(r) /\ SqedValidate(r)
  <2>1. ByScheduler(u, {}) \in Principals /\ ByScheduler(u, {}).roles = DefaultRoles
    BY <1>4
  <2>2. CASE /\ \E status \in Statuses : auth' = [auth EXCEPT ![r] = status]
             /\ UNCHANGED <<principal, lookup, cache>>
    BY <2>2 DEF Authenticate
  <2>3. ASSUME auth' = [auth EXCEPT ![r] = "in"],
               NEW roles \in SUBSET ExtraRoles,
               principal' = [principal EXCEPT ![r] = ByScheduler(u, roles)],
               roles = {} \/ (cache[u].until > clock /\ roles = cache[u].roles)
        PROVE  \E p \in Principals :
                 /\ principal' = [principal EXCEPT ![r] = p]
                 /\ \/ p.roles = DefaultRoles
                    \/ /\ cache[u].until > clock
                       /\ p.roles = DefaultRoles \cup cache[u].roles
    <3>1. ByScheduler(u, roles) \in Principals
      BY <1>4
    <3>2. ByScheduler(u, roles).roles = DefaultRoles \cup roles
      BY <1>4
    <3>3. CASE roles = {}
      BY <2>1, <2>3, <3>3
    <3>4. CASE cache[u].until > clock /\ roles = cache[u].roles
      BY <2>3, <3>1, <3>2, <3>4
    <3>5. QED
      BY <2>3, <3>3, <3>4
  <2>4. CASE /\ auth' = [auth EXCEPT ![r] = "in"]
             /\ \E roles \in SUBSET ExtraRoles :
                  /\ principal' = [principal EXCEPT ![r] = ByScheduler(u, roles)]
                  /\ \/ roles = {}
                     \/ cache[u].until > clock /\ roles = cache[u].roles
             /\ UNCHANGED <<lookup, cache>>
    BY <1>3, <1>6, <2>3, <2>4 DEF Authenticate
  <2>5. CASE /\ auth' = [auth EXCEPT ![r] = "asking"]
             /\ principal' = [principal EXCEPT ![r] = ByScheduler(u, {})]
             /\ lookup' = [lookup EXCEPT ![r] = [asked |-> clock, roles |-> {}]]
             /\ UNCHANGED cache
    BY <1>3, <1>6, <2>1, <2>5 DEF Authenticate
  <2>6. QED
    BY <1>5, <1>6, <2>2, <2>4, <2>5
<1>7. CASE KeycloakValidate(r)
  BY <1>2, <1>7 DEF Authenticate
<1>8. CASE Raise(r, "401")
  BY <1>8 DEF Raise, Statuses, Authenticate
<1>9. QED
  BY <1>6, <1>7, <1>8 DEF Authenticate

\* RolesArrive ends a lookup: with the roles that were answered, or with none.
LEMMA ArriveSteps ==
  ASSUME NEW r \in Requests, RolesArrive(r)
  PROVE  \E roles \in {{}, lookup[r].roles} :
           /\ auth[r] \in {"asking", "answered"}
           /\ roles = {} \/ auth[r] = "answered"
           /\ cache' = [cache EXCEPT ![token[r].user] =
                          [until |-> lookup[r].asked + TTL, roles |-> roles]]
           /\ principal' = [principal EXCEPT ![r].roles = @ \cup roles]
           /\ auth' = [auth EXCEPT ![r] = "in"]
           /\ UNCHANGED <<token, lookup, bus, clock>>
BY DEF RolesArrive, Cached

-----------------------------------------------------------------------------
LEMMA TypedStep ==
  ASSUME RolesTyped, AskingInv, [Next]_vars
  PROVE  RolesTyped'
<1>1. CASE UNCHANGED chain
  BY <1>1 DEF RolesTyped, chain, authVars, bus
<1>2. ASSUME NEW r \in Requests, auth' = [auth EXCEPT ![r] = "due"],
             UNCHANGED <<token, principal, lookup, cache, bus, clock>>
      PROVE  RolesTyped'
  BY <1>2 DEF RolesTyped, bus, AuthSteps
<1>3. ASSUME NEW r \in Requests, Authenticate(r)
      PROVE  RolesTyped'
  <2>1. [asked |-> clock, roles |-> {}] \in [asked : Nat, roles : SUBSET ExtraRoles]
    BY DEF RolesTyped
  <2>2. auth' \in [Requests -> AuthSteps \cup Statuses \cup {"in"}]
    BY <1>3, ValidateSteps DEF RolesTyped, AuthSteps
  <2>3. principal' \in [Requests -> Principals \cup {NoPrincipal}]
    BY <1>3, ValidateSteps DEF RolesTyped
  <2>4. lookup' \in [Requests -> [asked : Nat, roles : SUBSET ExtraRoles]]
    BY <1>3, <2>1, ValidateSteps DEF RolesTyped
  <2>5. UNCHANGED <<token, cache, granted, lastHeld, clock>>
    BY <1>3, ValidateSteps DEF bus
  <2>6. QED
    BY <2>2, <2>3, <2>4, <2>5 DEF RolesTyped
<1>4. ASSUME NEW r \in Requests, PortalAnswers(r)
      PROVE  RolesTyped'
  <2>1. token[r].user \in Owners
    BY <1>4 DEF PortalAnswers, AskingInv
  <2>2. granted[token[r].user] \in SUBSET ExtraRoles
    BY <2>1 DEF RolesTyped
  <2>3. lookup' \in [Requests -> [asked : Nat, roles : SUBSET ExtraRoles]]
    BY <1>4, <2>2 DEF PortalAnswers, RolesTyped
  <2>4. QED
    BY <1>4, <2>3 DEF PortalAnswers, RolesTyped, AuthSteps, bus
<1>5. ASSUME NEW r \in Requests, RolesArrive(r)
      PROVE  RolesTyped'
  <2>1. PICK roles \in {{}, lookup[r].roles} :
           /\ auth[r] \in {"asking", "answered"}
           /\ cache' = [cache EXCEPT ![token[r].user] =
                          [until |-> lookup[r].asked + TTL, roles |-> roles]]
           /\ principal' = [principal EXCEPT ![r].roles = @ \cup roles]
           /\ auth' = [auth EXCEPT ![r] = "in"]
           /\ UNCHANGED <<token, lookup, bus, clock>>
    BY <1>5, ArriveSteps
  <2>2. roles \in SUBSET ExtraRoles /\ lookup[r].asked \in Nat
    BY <2>1 DEF RolesTyped
  <2>3. [until |-> lookup[r].asked + TTL, roles |-> roles]
          \in [until : Nat, roles : SUBSET ExtraRoles]
    BY <2>2, TimesNatural
  <2>4. cache' \in [Owners -> [until : Nat, roles : SUBSET ExtraRoles]]
    BY <2>1, <2>3 DEF RolesTyped
  <2>5. principal' \in [Requests -> Principals \cup {NoPrincipal}]
    <3>1. [principal[r] EXCEPT !.roles = @ \cup roles] \in Principals
      BY <2>1, <2>2, RolesKnown DEF AskingInv, Principals, ExtraRoles
    <3>2. principal' = [principal EXCEPT ![r] = [principal[r] EXCEPT !.roles = @ \cup roles]]
      BY <2>1
    <3>3. QED
      BY <3>1, <3>2 DEF RolesTyped
  <2>6. auth' \in [Requests -> AuthSteps \cup Statuses \cup {"in"}]
    BY <2>1 DEF RolesTyped
  <2>7. QED
    BY <2>1, <2>4, <2>5, <2>6 DEF RolesTyped, bus
<1>6. CASE World
  <2>1. CASE Tick
    BY <2>1 DEF Tick, RolesTyped, authVars, bus
  <2>2. ASSUME NEW u \in Owners, NEW j \in SchedulerJobs, Prolog(u, j) \/ Epilog(u, j)
        PROVE  RolesTyped'
    BY <2>2 DEF Prolog, Epilog, RolesTyped, authVars
  <2>3. ASSUME NEW u \in Owners, NEW role \in ExtraRoles, Grant(u, role)
        PROVE  RolesTyped'
    BY <2>3 DEF Grant, RolesTyped, authVars
  <2>4. ASSUME NEW u \in Owners, NEW role \in ExtraRoles, Withdraw(u, role)
        PROVE  RolesTyped'
    BY <2>4 DEF Withdraw, RolesTyped, authVars
  <2>5. QED
    BY <1>6, <2>1, <2>2, <2>3, <2>4 DEF World
<1>7. CASE cache' = EmptyCache /\ UNCHANGED <<token, auth, principal, lookup, bus, clock>>
  BY <1>7 DEF EmptyCache, RolesTyped, bus
<1>8. QED
  BY <1>1, <1>2, <1>3, <1>4, <1>5, <1>6, <1>7, ChainSteps

-----------------------------------------------------------------------------
\* A role that was held since some past time still was after a step: a withdrawal
\* leaves the present time behind.
LEMMA HeldKept ==
  ASSUME RolesTyped, [Next]_vars, NEW u \in Owners, NEW role \in ExtraRoles,
         NEW time \in Int, time <= clock, HeldSince(u, role, time)
  PROVE  HeldSince(u, role, time)'
<1>1. CASE UNCHANGED bus
  BY <1>1 DEF bus, HeldSince
<1>2. CASE World
  <2>1. CASE Tick
    BY <2>1 DEF Tick, HeldSince, bus
  <2>2. ASSUME NEW v \in Owners, NEW j \in SchedulerJobs, Prolog(v, j) \/ Epilog(v, j)
        PROVE  HeldSince(u, role, time)'
    BY <2>2 DEF Prolog, Epilog, HeldSince
  <2>3. ASSUME NEW v \in Owners, NEW given \in ExtraRoles, Grant(v, given)
        PROVE  HeldSince(u, role, time)'
    BY <2>3 DEF Grant, HeldSince, RolesTyped
  <2>4. ASSUME NEW v \in Owners, NEW taken \in ExtraRoles, Withdraw(v, taken)
        PROVE  HeldSince(u, role, time)'
    <3>1. CASE v = u /\ taken = role
      BY <2>4, <3>1 DEF Withdraw, HeldSince, RolesTyped
    <3>2. CASE ~(v = u /\ taken = role)
      <4>1. lastHeld'[u][role] = lastHeld[u][role]
        BY <2>4, <3>2 DEF Withdraw, RolesTyped
      <4>2. role \in granted[u] => role \in granted'[u]
        BY <2>4, <3>2 DEF Withdraw, RolesTyped
      <4>3. QED
        BY <4>1, <4>2 DEF HeldSince
    <3>3. QED
      BY <3>1, <3>2
  <2>5. QED
    BY <1>2, <2>1, <2>2, <2>3, <2>4 DEF World
<1>3. ASSUME NEW r \in Requests, Authenticate(r) \/ PortalAnswers(r) \/ RolesArrive(r)
      PROVE  UNCHANGED bus
  BY <1>3 DEF Authenticate, PortalAnswers, RolesArrive
<1>4. QED
  BY <1>1, <1>2, <1>3, ChainSteps DEF chain

\* A token never changes, and time never goes back.
LEMMA TokenAndClock ==
  ASSUME RolesTyped, [Next]_vars
  PROVE  token' = token /\ clock <= clock' /\ clock' \in Nat
<1>1. clock \in Nat
  BY DEF RolesTyped
<1>2. CASE UNCHANGED <<token, clock>>
  BY <1>1, <1>2
<1>3. CASE World
  BY <1>1, <1>3 DEF World, Tick, Prolog, Epilog, Grant, Withdraw
<1>4. ASSUME NEW r \in Requests, Authenticate(r) \/ PortalAnswers(r) \/ RolesArrive(r)
      PROVE  UNCHANGED <<token, clock>>
  BY <1>4 DEF Authenticate, PortalAnswers, RolesArrive
<1>5. QED
  BY <1>2, <1>3, <1>4, ChainSteps DEF chain

\* How a request comes to await its roles, and to have them answered.
LEMMA AwaitingSteps ==
  ASSUME RolesTyped, [Next]_vars, NEW r \in Requests, auth'[r] \in {"asking", "answered"}
  PROVE  \/ /\ auth[r] = auth'[r] /\ principal'[r] = principal[r] /\ lookup'[r] = lookup[r]
         \/ /\ auth'[r] = "asking" /\ token[r].user \in Owners
            /\ principal'[r] \in Principals /\ principal'[r].roles = DefaultRoles
            /\ lookup'[r].asked = clock /\ clock' = clock
         \/ /\ auth[r] = "asking" /\ auth'[r] = "answered" /\ principal'[r] = principal[r]
            /\ lookup'[r].asked = lookup[r].asked /\ UNCHANGED <<token, bus, clock>>
            /\ lookup'[r].roles = granted[token[r].user]
<1>1. CASE UNCHANGED <<auth, principal, lookup>>
  BY <1>1
<1>2. ASSUME NEW q \in Requests, auth' = [auth EXCEPT ![q] = "due"],
             UNCHANGED <<principal, lookup>>
      PROVE  auth[r] = auth'[r] /\ principal'[r] = principal[r] /\ lookup'[r] = lookup[r]
  BY <1>2 DEF RolesTyped
<1>3. ASSUME NEW q \in Requests, Authenticate(q)
      PROVE  \/ /\ auth[r] = auth'[r] /\ principal'[r] = principal[r] /\ lookup'[r] = lookup[r]
             \/ /\ auth'[r] = "asking" /\ token[r].user \in Owners
                /\ principal'[r] \in Principals /\ principal'[r].roles = DefaultRoles
                /\ lookup'[r].asked = clock /\ clock' = clock
  <2>1. CASE /\ \E status \in Statuses : auth' = [auth EXCEPT ![q] = status]
             /\ UNCHANGED <<principal, lookup>>
    BY <2>1 DEF RolesTyped, Statuses
  <2>2. CASE /\ auth' = [auth EXCEPT ![q] = "in"]
             /\ \E p \in Principals : principal' = [principal EXCEPT ![q] = p]
             /\ UNCHANGED lookup
    BY <2>2 DEF RolesTyped
  <2>3. CASE /\ auth' = [auth EXCEPT ![q] = "asking"] /\ token[q].user \in Owners
             /\ \E p \in Principals : /\ p.roles = DefaultRoles
                                      /\ principal' = [principal EXCEPT ![q] = p]
             /\ lookup' = [lookup EXCEPT ![q] = [asked |-> clock, roles |-> {}]]
             /\ UNCHANGED clock
    <3>1. CASE q = r
      BY <2>3, <3>1 DEF RolesTyped
    <3>2. CASE q # r
      BY <2>3, <3>2 DEF RolesTyped
    <3>3. QED
      BY <3>1, <3>2
  <2>4. QED
    BY <1>3, <2>1, <2>2, <2>3, ValidateSteps
<1>4. ASSUME NEW q \in Requests, PortalAnswers(q)
      PROVE  \/ /\ auth[r] = auth'[r] /\ principal'[r] = principal[r] /\ lookup'[r] = lookup[r]
             \/ /\ auth[r] = "asking" /\ auth'[r] = "answered" /\ principal'[r] = principal[r]
                /\ lookup'[r].asked = lookup[r].asked /\ UNCHANGED <<token, bus, clock>>
                /\ lookup'[r].roles = granted[token[r].user]
  <2>1. CASE q = r
    BY <1>4, <2>1 DEF PortalAnswers, RolesTyped
  <2>2. CASE q # r
    BY <1>4, <2>2 DEF PortalAnswers, RolesTyped
  <2>3. QED
    BY <2>1, <2>2
<1>5. ASSUME NEW q \in Requests, RolesArrive(q)
      PROVE  auth[r] = auth'[r] /\ principal'[r] = principal[r] /\ lookup'[r] = lookup[r]
  BY <1>5 DEF RolesArrive, Cached, RolesTyped
<1>6. CASE World
  BY <1>1, <1>6 DEF World, Tick, Prolog, Epilog, Grant, Withdraw, authVars
<1>7. QED
  BY <1>1, <1>2, <1>3, <1>4, <1>5, <1>6, ChainSteps DEF chain, authVars

LEMMA AskingStep ==
  ASSUME RolesTyped, AskingInv, [Next]_vars
  PROVE  AskingInv'
<1> SUFFICES ASSUME NEW r \in Requests, auth'[r] \in {"asking", "answered"}
             PROVE  /\ token'[r].user \in Owners
                    /\ principal'[r] \in Principals /\ principal'[r].roles = DefaultRoles
                    /\ lookup'[r].asked <= clock'
  BY DEF AskingInv
<1>1. token' = token /\ clock <= clock' /\ clock' \in Nat
  BY TokenAndClock
<1>2. clock \in Nat /\ lookup[r].asked \in Nat
  BY DEF RolesTyped
<1>3. QED
  BY <1>1, <1>2, AwaitingSteps DEF AskingInv

LEMMA AnswerStep ==
  ASSUME RolesTyped, AskingInv, AnswerInv, [Next]_vars
  PROVE  AnswerInv'
<1>1. token' = token
  BY TokenAndClock
<1> SUFFICES ASSUME NEW r \in Requests, auth'[r] = "answered", NEW role \in lookup'[r].roles
             PROVE  \/ role \in granted'[token[r].user]
                    \/ lastHeld'[token[r].user][role] >= lookup'[r].asked
  BY <1>1 DEF AnswerInv, HeldSince
<1>2. CASE auth[r] = auth'[r] /\ lookup'[r] = lookup[r]
  <2>1. token[r].user \in Owners /\ lookup[r].asked <= clock
    BY <1>2 DEF AskingInv
  <2>2. lookup[r].asked \in Nat /\ role \in ExtraRoles
    BY <1>2 DEF RolesTyped
  <2>3. HeldSince(token[r].user, role, lookup[r].asked)
    BY <1>2 DEF AnswerInv
  <2>4. \A u \in Owners, time \in Int :
          time <= clock /\ HeldSince(u, role, time) => HeldSince(u, role, time)'
    BY <2>2, HeldKept
  <2>5. \A u \in Owners, time \in Int :
          time <= clock /\ HeldSince(u, role, time) =>
            role \in granted'[u] \/ lastHeld'[u][role] >= time
    BY <2>4 DEF HeldSince
  <2>6. QED
    BY <1>2, <2>1, <2>2, <2>3, <2>5
<1>3. CASE lookup'[r].roles = granted[token[r].user] /\ UNCHANGED bus
  BY <1>3 DEF bus
<1>4. QED
  BY <1>2, <1>3, AwaitingSteps

\* What a step puts into the cache: nothing, or what a request asked for; else it
\* leaves what is there.
LEMMA CacheSteps ==
  ASSUME RolesTyped, AskingInv, [Next]_vars, NEW u \in Owners
  PROVE  \/ cache'[u] = cache[u]
         \/ cache'[u] = [until |-> 0, roles |-> {}] /\ UNCHANGED clock
         \/ \E r \in Requests :
              /\ auth[r] \in {"asking", "answered"} /\ token[r].user = u
              /\ \E roles \in {{}, lookup[r].roles} :
                   /\ roles = {} \/ auth[r] = "answered"
                   /\ cache'[u] = [until |-> lookup[r].asked + TTL, roles |-> roles]
              /\ UNCHANGED <<bus, clock>>
<1>1. CASE UNCHANGED cache
  BY <1>1
<1>2. CASE cache' = EmptyCache /\ UNCHANGED clock
  BY <1>2 DEF EmptyCache
<1>3. ASSUME NEW r \in Requests, Authenticate(r) \/ PortalAnswers(r)
      PROVE  UNCHANGED cache
  BY <1>3, ValidateSteps DEF PortalAnswers
<1>4. ASSUME NEW r \in Requests, RolesArrive(r)
      PROVE  \/ cache'[u] = cache[u]
             \/ /\ auth[r] \in {"asking", "answered"} /\ token[r].user = u
                /\ \E roles \in {{}, lookup[r].roles} :
                     /\ roles = {} \/ auth[r] = "answered"
                     /\ cache'[u] = [until |-> lookup[r].asked + TTL, roles |-> roles]
                /\ UNCHANGED <<bus, clock>>
  <2>1. CASE token[r].user = u
    BY <1>4, <2>1, ArriveSteps DEF RolesTyped
  <2>2. CASE token[r].user # u
    BY <1>4, <2>2, ArriveSteps DEF RolesTyped
  <2>3. QED
    BY <2>1, <2>2
<1>5. CASE World
  BY <1>1, <1>5 DEF World, Tick, Prolog, Epilog, Grant, Withdraw, authVars
<1>6. QED
  BY <1>1, <1>2, <1>3, <1>4, <1>5, ChainSteps DEF chain, authVars

LEMMA CacheStep ==
  ASSUME RolesKept, [Next]_vars
  PROVE  CacheInv'
<1> USE DEF RolesKept
<1> SUFFICES ASSUME NEW u \in Owners
             PROVE  /\ cache'[u].until <= clock' + TTL
                    /\ \A role \in cache'[u].roles :
                         \/ role \in granted'[u]
                         \/ lastHeld'[u][role] >= cache'[u].until - TTL
  BY DEF CacheInv, HeldSince
<1>1. clock \in Nat /\ TTL \in Nat /\ clock <= clock' /\ clock' \in Nat
  BY TokenAndClock, TimesNatural DEF RolesTyped
<1>2. cache[u] \in [until : Nat, roles : SUBSET ExtraRoles]
  BY DEF RolesTyped
<1>3. CASE cache'[u] = cache[u]
  <2>1. cache[u].until \in Nat /\ cache[u].roles \in SUBSET ExtraRoles
    BY <1>2
  <2>2. cache[u].until <= clock + TTL
    BY DEF CacheInv
  <2>3. ASSUME NEW role \in cache[u].roles
        PROVE  \/ role \in granted'[u]
               \/ lastHeld'[u][role] >= cache[u].until - TTL
    <3>1. cache[u].until - TTL \in Int /\ cache[u].until - TTL <= clock
      BY <1>1, <2>1, <2>2
    <3>2. role \in ExtraRoles
      BY <2>1, <2>3
    <3>3. HeldSince(u, role, cache[u].until - TTL)
      BY <2>3 DEF CacheInv
    <3>4. \A time \in Int : time <= clock /\ HeldSince(u, role, time) =>
                              HeldSince(u, role, time)'
      BY <3>2, HeldKept
    <3>5. \A time \in Int : time <= clock /\ HeldSince(u, role, time) =>
                              role \in granted'[u] \/ lastHeld'[u][role] >= time
      BY <3>4 DEF HeldSince
    <3>6. QED
      BY <3>1, <3>3, <3>5
  <2>4. QED
    BY <1>1, <1>3, <2>1, <2>2, <2>3
<1>4. CASE cache'[u] = [until |-> 0, roles |-> {}] /\ UNCHANGED clock
  BY <1>1, <1>4
<1>5. ASSUME NEW r \in Requests, auth[r] \in {"asking", "answered"}, token[r].user = u,
             NEW roles \in {{}, lookup[r].roles}, roles = {} \/ auth[r] = "answered",
             cache'[u] = [until |-> lookup[r].asked + TTL, roles |-> roles],
             UNCHANGED <<bus, clock>>
      PROVE  /\ cache'[u].until <= clock' + TTL
             /\ \A role \in cache'[u].roles :
                  \/ role \in granted'[u]
                  \/ lastHeld'[u][role] >= cache'[u].until - TTL
  <2>1. lookup[r].asked \in Nat /\ lookup[r].asked <= clock
    BY <1>5 DEF RolesTyped, AskingInv
  <2>2. cache'[u].until = lookup[r].asked + TTL /\ cache'[u].roles = roles
    BY <1>5
  <2>3. cache'[u].until - TTL = lookup[r].asked
    BY <1>1, <2>1, <2>2
  <2>4. ASSUME NEW role \in roles
        PROVE  role \in granted[u] \/ lastHeld[u][role] >= lookup[r].asked
    BY <1>5, <2>4 DEF AnswerInv, HeldSince
  <2>5. cache'[u].until <= clock' + TTL
    BY <1>1, <1>5, <2>1, <2>2
  <2>6. QED
    BY <1>5, <2>2, <2>3, <2>4, <2>5 DEF bus
<1>6. \/ cache'[u] = cache[u]
      \/ cache'[u] = [until |-> 0, roles |-> {}] /\ UNCHANGED clock
      \/ \E r \in Requests :
           /\ auth[r] \in {"asking", "answered"} /\ token[r].user = u
           /\ \E roles \in {{}, lookup[r].roles} :
                /\ roles = {} \/ auth[r] = "answered"
                /\ cache'[u] = [until |-> lookup[r].asked + TTL, roles |-> roles]
           /\ UNCHANGED <<bus, clock>>
  <2>1. RolesTyped /\ AskingInv
    OBVIOUS
  <2>2. QED
    BY <2>1, CacheSteps
<1>7. QED
  BY <1>3, <1>4, <1>5, <1>6

LEMMA RolesKeptStep == RolesKept /\ [Next]_vars => RolesKept'
<1> SUFFICES ASSUME RolesKept, [Next]_vars PROVE RolesKept'
  OBVIOUS
<1>1. RolesTyped /\ AskingInv /\ AnswerInv /\ clock > TTL
  BY DEF RolesKept
<1>2. RolesTyped' /\ AskingInv' /\ AnswerInv' /\ CacheInv'
  BY <1>1, TypedStep, AskingStep, AnswerStep, CacheStep
<1>3. clock' > TTL
  BY <1>1, TokenAndClock, TimesNatural DEF RolesTyped
<1>4. QED
  BY <1>2, <1>3 DEF RolesKept

LEMMA RolesKeptInit == Init => RolesKept
<1> SUFFICES ASSUME Init PROVE RolesKept
  OBVIOUS
<1> USE DEF Init, ChainInit
<1>1. RolesTyped
  <2>1. clock \in Nat
    BY TimesNatural
  <2>2. lookup \in [Requests -> [asked : Nat, roles : SUBSET ExtraRoles]]
    OBVIOUS
  <2>3. cache \in [Owners -> [until : Nat, roles : SUBSET ExtraRoles]]
    BY DEF EmptyCache
  <2>4. auth \in [Requests -> AuthSteps \cup Statuses \cup {"in"}]
    BY DEF AuthSteps
  <2>5. QED
    BY <2>1, <2>2, <2>3, <2>4 DEF RolesTyped
<1>2. clock > TTL /\ AskingInv /\ AnswerInv
  BY TimesNatural DEF AskingInv, AnswerInv
<1>3. CacheInv
  BY TimesNatural DEF CacheInv, EmptyCache
<1>4. QED
  BY <1>1, <1>2, <1>3 DEF RolesKept

LEMMA AlwaysRolesKept == Spec => []RolesKept
BY RolesKeptInit, RolesKeptStep, PTL DEF Spec

\* A role that is honoured in a scheduler's request is one its owner has now, or had
\* less than TTL ago, or since the request asked for it.
LEMMA HonouredRoles ==
  ASSUME RolesKept, [Next]_vars, NEW r \in Requests, auth[r] # "in", auth'[r] = "in",
         principal'[r].source = "sqed", NEW role \in principal'[r].roles \ DefaultRoles
  PROVE  HeldSince(token[r].user, role,
                   IF auth[r] = "answered" THEN lookup[r].asked ELSE clock - TTL + 1)
<1> USE DEF RolesKept
<1>1. clock \in Nat /\ TTL \in Nat
  BY TimesNatural DEF RolesTyped
<1>2. CASE UNCHANGED auth
  BY <1>2
<1>3. ASSUME NEW q \in Requests, auth' = [auth EXCEPT ![q] = "due"]
      PROVE  FALSE
  BY <1>3 DEF RolesTyped
<1>4. ASSUME NEW q \in Requests, PortalAnswers(q)
      PROVE  FALSE
  BY <1>4 DEF PortalAnswers, RolesTyped
<1>5. CASE World
  BY <1>2, <1>5 DEF World, Tick, Prolog, Epilog, Grant, Withdraw, authVars
<1>6. ASSUME NEW q \in Requests, Authenticate(q)
      PROVE  HeldSince(token[r].user, role,
                       IF auth[r] = "answered" THEN lookup[r].asked ELSE clock - TTL + 1)
  <2>1. auth[q] = "due"
    BY <1>6 DEF Authenticate
  <2>2. q = r
    BY <1>6, ValidateSteps DEF RolesTyped
  <2>3. ~ \E status \in Statuses : auth' = [auth EXCEPT ![r] = status]
    BY DEF RolesTyped, Statuses
  <2>4. auth' # [auth EXCEPT ![r] = "asking"]
    BY DEF RolesTyped
  <2>5. PICK p \in Principals :
          /\ principal' = [principal EXCEPT ![r] = p]
          /\ \/ p.source = "keycloak"
             \/ p.roles = DefaultRoles
             \/ /\ token[r].user \in Owners /\ cache[token[r].user].until > clock
                /\ p.roles = DefaultRoles \cup cache[token[r].user].roles
    BY <1>6, <2>2, <2>3, <2>4, ValidateSteps
  <2>6. principal'[r] = p
    BY <2>5 DEF RolesTyped
  <2> DEFINE u == token[r].user
  <2>7. u \in Owners /\ cache[u].until > clock /\ role \in cache[u].roles
    BY <2>5, <2>6
  <2>8. role \in granted[u] \/ lastHeld[u][role] >= cache[u].until - TTL
    BY <2>7 DEF CacheInv, HeldSince
  <2>9. cache[u].until \in Nat /\ (role \in ExtraRoles => lastHeld[u][role] \in Nat)
    BY <2>7 DEF RolesTyped
  <2>10. role \in ExtraRoles
    BY <2>7 DEF RolesTyped
  <2>11. role \in granted[u] \/ lastHeld[u][role] >= clock - TTL + 1
    BY <1>1, <2>7, <2>8, <2>9, <2>10
  <2>12. auth[r] # "answered"
    BY <2>1, <2>2
  <2>13. QED
    BY <2>11, <2>12 DEF HeldSince
<1>7. ASSUME NEW q \in Requests, RolesArrive(q)
      PROVE  HeldSince(token[r].user, role,
                       IF auth[r] = "answered" THEN lookup[r].asked ELSE clock - TTL + 1)
  <2>1. PICK roles \in {{}, lookup[q].roles} :
          /\ auth[q] \in {"asking", "answered"}
          /\ roles = {} \/ auth[q] = "answered"
          /\ principal' = [principal EXCEPT ![q].roles = @ \cup roles]
          /\ auth' = [auth EXCEPT ![q] = "in"]
    BY <1>7, ArriveSteps
  <2>2. q = r
    BY <2>1 DEF RolesTyped
  <2>3. principal[r] \in Principals /\ principal[r].roles = DefaultRoles
    BY <2>1, <2>2 DEF AskingInv
  <2>4. principal'[r].roles = DefaultRoles \cup roles
    <3>1. principal'[r] = [principal[r] EXCEPT !.roles = @ \cup roles]
      BY <2>1, <2>2 DEF RolesTyped
    <3>2. QED
      BY <2>3, <3>1 DEF Principals
  <2>5. role \in roles
    BY <2>4
  <2>6. auth[r] = "answered" /\ role \in lookup[r].roles
    BY <2>1, <2>2, <2>5
  <2>7. QED
    BY <2>6 DEF AnswerInv
<1>8. QED
  BY <1>2, <1>3, <1>4, <1>5, <1>6, <1>7, ChainSteps DEF chain, authVars

\* No answer about roles, from the portal or from the cache, is honoured after its
\* time: whatever the order in which the answers for one user arrive.
THEOREM RolesHonouredRecently == Spec => RolesRecent
<1>1. RolesKept /\ [Next]_vars =>
        [\A r \in Requests :
           auth'[r] = "in" /\ auth[r] # "in" /\ principal'[r].source = "sqed" =>
             \A role \in principal'[r].roles \ DefaultRoles :
               HeldSince(token[r].user, role,
                         IF auth[r] = "answered" THEN lookup[r].asked
                         ELSE clock - TTL + 1)]_chainVars
  BY HonouredRoles
<1>2. QED
  BY <1>1, AlwaysRolesKept, PTL DEF Spec, RolesRecent

-----------------------------------------------------------------------------
\* What a request leaves behind: on the machine, in the jobs table, in the object store,
\* at the portal and in the limiter.

\* A failure that hit a request is one of all failures.
Counted ==
  /\ hurt \in [Requests -> Nat] /\ glitches \in 0..MaxGlitches
  /\ \A r \in Requests : hurt[r] <= glitches

\* Nothing outside the gateway has heard of the request.
Untouched(r) ==
  /\ machine[r] = "none" /\ row[r] = "none" /\ store[r] = {} /\ portal[r] = "none"
  /\ named[r] = TRUE

\* A limited request with a user has its reservation, unless a call failed.
Backed(r) ==
  Limited(r) /\ IsNamed(r) => charge[r] \notin {"none", "overdrawn"} \/ hurt[r] >= 1

\* The reservation of a request that is being handled and has no row: made or not, and
\* never given back.
Reserved(r) ==
  /\ charge[r] \in {"none", "held", "stray"}
  /\ charge[r] # "none" => Limited(r)
  /\ charge[r] = "stray" => hurt[r] >= 1

\* The machine has, or has had, a job of the request's, which is still to be recorded.
OnMachine(r) ==
  machine[r] # "none" /\ row[r] = "none" /\ portal[r] = "none" /\ Captures(r) /\ Reserved(r)

\* What is so before, and after, each step of the handler.
Waiting(r) ==
  at[r] \in {"new", "auth", "portal", "policy"} =>
    /\ Untouched(r) /\ charge[r] = "none" /\ reply[r] = "none"
    /\ at[r] \in {"portal", "policy"} => Limited(r)

Sending(r) ==
  /\ at[r] = "upstream" =>
       Untouched(r) /\ Reserved(r) /\ Backed(r) /\ reply[r] = "none"
  /\ at[r] = "rollback" =>
       /\ row[r] = "none" /\ store[r] = {} /\ portal[r] = "none" /\ Reserved(r)
       /\ reply[r] \in {"refused", "502"}
       /\ reply[r] = "refused" => machine[r] = "none" /\ named[r] = TRUE
       /\ reply[r] = "502" => hurt[r] >= IF charge[r] = "stray" THEN 2 ELSE 1

Recording(r) ==
  /\ at[r] \in {"initial", "payload", "row"} =>
       OnMachine(r) /\ Backed(r) /\ reply[r] = "none"
  /\ at[r] = "initial" => named[r] = TRUE
  /\ at[r] \in {"payload", "row", "report"} => named[r] = TRUE \/ hurt[r] >= 1
  /\ at[r] \in {"row", "report"} /\ named[r] = TRUE => "submitted" \in store[r]
  /\ at[r] = "report" =>
       /\ machine[r] # "none" /\ Captures(r) /\ reply[r] = "none"
       /\ row[r] # "none" \/ hurt[r] >= 1

\* What a handler that is done with a request leaves.
Finished(r) ==
  /\ at[r] = "done" /\ reply[r] \in {"local", "401", "403", "410", "429", "503", "denied"} =>
       Untouched(r) /\ charge[r] = "none"
  /\ at[r] = "done" /\ reply[r] = "500" =>
       (Untouched(r) /\ charge[r] = "none") \/ hurt[r] >= Tries(r)
  /\ at[r] = "done" /\ reply[r] = "refused" => Untouched(r)
  /\ at[r] = "done" /\ reply[r] = "ok" /\ ~Captures(r) => charge[r] = "none"
  /\ at[r] = "done" /\ reply[r] = "ok" /\ Captures(r) =>
       /\ machine[r] # "none"
       /\ named[r] = TRUE => /\ "submitted" \in store[r]
                             /\ IsNamed(r) => portal[r] # "none"
       /\ row[r] # "none" \/ hurt[r] >= 1
  /\ at[r] = "done" => reply[r] # "none"
  /\ at[r] \in {"done", "lost"} /\ charge[r] \in {"held", "stray"} /\ row[r] = "none" =>
       hurt[r] >= IF reply[r] = "502" /\ machine[r] = "none" THEN 2 ELSE 1
  /\ at[r] = "done" /\ reply[r] = "502" => hurt[r] >= 1
  /\ at[r] = "lost" => hurt[r] >= 1

\* A row stands for a job of the machine, with its payload and its reservation; a
\* reservation that was given back has no job that runs, unless a call failed.
Tracked(r) ==
  /\ row[r] # "none" =>
       /\ at[r] \in {"report", "done", "lost"}
       /\ machine[r] # "none" /\ "submitted" \in store[r] /\ Captures(r) /\ Backed(r)
  /\ row[r] = "submitted" => charge[r] \in {"none", "held", "stray"}
  /\ row[r] = "deleted" => machine[r] = "ended" /\ portal[r] # "none"
  /\ charge[r] = "overdrawn" => row[r] = "deleted"
  /\ charge[r] = "returned" /\ machine[r] = "running" => hurt[r] >= 1

RequestInv(r) == Waiting(r) /\ Sending(r) /\ Recording(r) /\ Finished(r) /\ Tracked(r)

\* The variables of the handlers and of what they leave have their types.
HandlersTyped ==
  /\ mode \in Modes /\ route \in [Requests -> Routes]
  /\ at \in [Requests -> Steps] /\ reply \in [Requests -> Replies]
  /\ charge \in [Requests -> {"none", "held", "stray", "returned", "overdrawn"}]
  /\ machine \in [Requests -> {"none", "running", "ended"}]
  /\ named \in [Requests -> BOOLEAN]
  /\ row \in [Requests -> {"none", "submitted", "deleted"}]
  /\ store \in [Requests -> SUBSET {"initial", "submitted"}]
  /\ portal \in [Requests -> {"none", "submitted", "ended"}]

RequestsKept == HandlersTyped /\ Counted /\ \A r \in Requests : RequestInv(r)

-----------------------------------------------------------------------------
\* A step fails no call, or one or two for one request, or for each that a gateway
\* which dies was handling.
LEMMA FailureSteps ==
  ASSUME [Next]_vars
  PROVE  \/ Works
         \/ \E r \in Requests : Fails(r) \/ FailsTimes(r, Tries(r))
         \/ Crash
<1>1. ASSUME NEW r \in Requests, Handle(r)
      PROVE  Works \/ Fails(r) \/ FailsTimes(r, Tries(r))
  <2>1. CASE Arrive(r) \/ Authenticated(r) \/ InitialArtifacts(r)
    BY <2>1 DEF Arrive, Authenticated, InitialArtifacts, Works, chainVars
  <2>2. CASE Authenticating(r)
    BY <2>2 DEF Authenticating, Authenticate, SqedValidate, KeycloakValidate, PortalAnswers,
                RolesArrive, Works
  <2>3. CASE AuthorizeJob(r)
    BY <2>3 DEF AuthorizeJob
  <2>4. CASE CheckSubmission(r)
    BY <2>4 DEF CheckSubmission
  <2>5. CASE Forward(r)
    BY <2>5 DEF Forward
  <2>6. CASE Rollback(r)
    BY <2>6 DEF Rollback
  <2>7. CASE UploadPayload(r) \/ LogJob(r) \/ InitialReport(r)
    BY <2>7 DEF UploadPayload, LogJob, InitialReport
  <2>8. QED
    BY <1>1, <2>1, <2>2, <2>3, <2>4, <2>5, <2>6, <2>7 DEF Handle
<1>2. ASSUME NEW r \in Requests, MachineEnds(r) \/ Close(r)
      PROVE  Works
  BY <1>2 DEF MachineEnds, Close, Works, chainVars
<1>3. CASE Elsewhere
  BY <1>3 DEF Elsewhere, World, Tick, Prolog, Epilog, Grant, Withdraw, Works
<1>4. CASE UNCHANGED vars
  BY <1>4 DEF vars, chainVars, Works
<1>5. QED
  BY <1>1, <1>2, <1>3, <1>4 DEF Next

LEMMA CountedStep ==
  ASSUME Counted, [Next]_vars
  PROVE  Counted'
<1> USE TimesNatural DEF Counted
<1>1. CASE Works
  BY <1>1 DEF Works
<1>2. ASSUME NEW r \in Requests, Fails(r)
      PROVE  Counted'
  BY <1>2 DEF Fails
<1>3. ASSUME NEW r \in Requests, FailsTimes(r, Tries(r))
      PROVE  Counted'
  <2>1. Tries(r) \in 1..2
    BY DEF Tries
  <2>2. QED
    BY <1>3, <2>1 DEF FailsTimes
<1>4. CASE Crash
  <2>1. /\ glitches < MaxGlitches /\ glitches' = glitches + 1
        /\ hurt' = [r \in Requests |-> hurt[r] + (IF r \in InFlight THEN 1 ELSE 0)]
    BY <1>4 DEF Crash
  <2>2. QED
    BY <2>1
<1>5. QED
  BY <1>1, <1>2, <1>3, <1>4, FailureSteps

-----------------------------------------------------------------------------
LEMMA HandlersTypedStep ==
  ASSUME HandlersTyped, [Next]_vars
  PROVE  HandlersTyped'
<1> USE DEF HandlersTyped, Goto, Answer, Steps, Replies, outside, handler, records
<1>1. ASSUME NEW r \in Requests, Handle(r)
      PROVE  HandlersTyped'
  <2>1. CASE Arrive(r)
    BY <2>1 DEF Arrive
  <2>2. CASE Authenticating(r)
    BY <2>2 DEF Authenticating
  <2>3. CASE Authenticated(r)
    BY <2>3 DEF Authenticated, chainVars
  <2>4. CASE AuthorizeJob(r)
    BY <2>4 DEF AuthorizeJob
  <2>5. CASE CheckSubmission(r)
    BY <2>5 DEF CheckSubmission
  <2>6. CASE Forward(r)
    <3>1. machine' \in [Requests -> {"none", "running", "ended"}]
      BY <2>6 DEF Forward, Taken
    <3>2. at' \in [Requests -> Steps] /\ reply' \in [Requests -> Replies]
      BY <2>6 DEF Forward
    <3>3. named' \in [Requests -> BOOLEAN]
      BY <2>6 DEF Forward
    <3>4. QED
      BY <2>6, <3>1, <3>2, <3>3 DEF Forward
  <2>7. CASE Rollback(r)
    BY <2>7 DEF Rollback
  <2>8. CASE InitialArtifacts(r)
    BY <2>8 DEF InitialArtifacts
  <2>9. CASE UploadPayload(r)
    BY <2>9 DEF UploadPayload, Submitted
  <2>10. CASE LogJob(r)
    BY <2>10 DEF LogJob, Inserted
  <2>11. CASE InitialReport(r)
    BY <2>11 DEF InitialReport, Told
  <2>12. QED
    BY <1>1, <2>1, <2>2, <2>3, <2>4, <2>5, <2>6, <2>7, <2>8, <2>9, <2>10, <2>11 DEF Handle
<1>2. ASSUME NEW r \in Requests, MachineEnds(r)
      PROVE  HandlersTyped'
  BY <1>2 DEF MachineEnds
<1>3. ASSUME NEW r \in Requests, Close(r)
      PROVE  HandlersTyped'
  BY <1>3 DEF Close
<1>4. CASE Crash
  BY <1>4 DEF Crash
<1>5. CASE Elsewhere
  BY <1>5 DEF Elsewhere
<1>6. CASE UNCHANGED vars
  BY <1>6 DEF vars
<1>7. QED
  BY <1>1, <1>2, <1>3, <1>4, <1>5, <1>6 DEF Next

-----------------------------------------------------------------------------
\* A step is one of the request's own, or it ends its handler with the gateway, or it
\* leaves alone what is known of the request.
LEMMA RequestSteps ==
  ASSUME HandlersTyped, Counted, RolesTyped, [Next]_vars, NEW r \in Requests
  PROVE  /\ mode' = mode /\ route' = route
         /\ \/ Handle(r) \/ MachineEnds(r) \/ Close(r)
            \/ /\ at[r] \notin {"new", "done", "lost"} /\ at'[r] = "lost"
               /\ hurt'[r] = hurt[r] + 1 /\ principal'[r] = principal[r]
               /\ reply'[r] = reply[r] /\ charge'[r] = charge[r]
               /\ machine'[r] = machine[r] /\ named'[r] = named[r]
               /\ row'[r] = row[r] /\ store'[r] = store[r] /\ portal'[r] = portal[r]
            \/ /\ at'[r] = at[r] /\ hurt'[r] = hurt[r] /\ principal'[r] = principal[r]
               /\ reply'[r] = reply[r] /\ charge'[r] = charge[r]
               /\ machine'[r] = machine[r] /\ named'[r] = named[r]
               /\ row'[r] = row[r] /\ store'[r] = store[r] /\ portal'[r] = portal[r]
<1> DEFINE Spared ==
      /\ mode' = mode /\ route' = route
      /\ at'[r] = at[r] /\ hurt'[r] = hurt[r] /\ principal'[r] = principal[r]
      /\ reply'[r] = reply[r] /\ charge'[r] = charge[r]
      /\ machine'[r] = machine[r] /\ named'[r] = named[r]
      /\ row'[r] = row[r] /\ store'[r] = store[r] /\ portal'[r] = portal[r]
<1> USE DEF HandlersTyped, Counted, Goto, Answer, outside, handler, records, chainVars, chain,
            authVars, Works, Fails
<1>1. ASSUME NEW q \in Requests, q # r, Handle(q)
      PROVE  Spared
  <2>1. CASE Arrive(q)
    BY <1>1, <2>1 DEF Arrive
  <2>2. CASE Authenticating(q)
    <3>1. Authenticate(q) \/ PortalAnswers(q) \/ RolesArrive(q)
      BY <2>2 DEF Authenticating
    <3>2. hurt'[r] = hurt[r]
      BY <1>1, <3>1 DEF Authenticate, SqedValidate, KeycloakValidate, PortalAnswers, RolesArrive
    <3>3. principal'[r] = principal[r]
      <4>1. CASE Authenticate(q)
        <5>1. UNCHANGED principal \/ \E p : principal' = [principal EXCEPT ![q] = p]
          BY <4>1, ValidateSteps
        <5>2. QED
          BY <1>1, <5>1 DEF RolesTyped
      <4>2. CASE PortalAnswers(q)
        BY <4>2 DEF PortalAnswers
      <4>3. CASE RolesArrive(q)
        BY <1>1, <4>3 DEF RolesArrive, Cached, RolesTyped
      <4>4. QED
        BY <3>1, <4>1, <4>2, <4>3
    <3>4. QED
      BY <2>2, <3>2, <3>3 DEF Authenticating
  <2>3. CASE Authenticated(q)
    BY <1>1, <2>3 DEF Authenticated
  <2>4. CASE AuthorizeJob(q)
    BY <1>1, <2>4 DEF AuthorizeJob
  <2>5. CASE CheckSubmission(q)
    BY <1>1, <2>5 DEF CheckSubmission
  <2>6. CASE Forward(q)
    <3>1. machine'[r] = machine[r] /\ named'[r] = named[r]
      BY <1>1, <2>6 DEF Forward, Taken
    <3>2. at'[r] = at[r] /\ reply'[r] = reply[r]
      BY <1>1, <2>6 DEF Forward
    <3>3. hurt'[r] = hurt[r]
      BY <1>1, <2>6 DEF Forward
    <3>4. QED
      BY <2>6, <3>1, <3>2, <3>3 DEF Forward
  <2>7. CASE Rollback(q)
    BY <1>1, <2>7 DEF Rollback
  <2>8. CASE InitialArtifacts(q)
    BY <1>1, <2>8 DEF InitialArtifacts
  <2>9. CASE UploadPayload(q)
    BY <1>1, <2>9 DEF UploadPayload, Submitted, FailsTimes
  <2>10. CASE LogJob(q)
    BY <1>1, <2>10 DEF LogJob, Inserted
  <2>11. CASE InitialReport(q)
    BY <1>1, <2>11 DEF InitialReport, Told
  <2>12. QED
    BY <1>1, <2>1, <2>2, <2>3, <2>4, <2>5, <2>6, <2>7, <2>8, <2>9, <2>10, <2>11 DEF Handle
<1>2. ASSUME NEW q \in Requests, q # r, MachineEnds(q)
      PROVE  Spared
  BY <1>2 DEF MachineEnds
<1>3. ASSUME NEW q \in Requests, q # r, Close(q)
      PROVE  Spared
  BY <1>3 DEF Close
<1>4. CASE Crash
  <2>1. CASE r \in InFlight
    BY <1>4, <2>1 DEF Crash, InFlight
  <2>2. CASE r \notin InFlight
    <3>1. hurt'[r] = hurt[r] + 0 /\ hurt[r] \in Nat
      BY <1>4, <2>2 DEF Crash
    <3>2. QED
      BY <1>4, <2>2, <3>1 DEF Crash
  <2>3. QED
    BY <2>1, <2>2
<1>5. CASE Elsewhere
  <2>1. UNCHANGED <<principal, hurt>>
    BY <1>5 DEF Elsewhere, World, Tick, Prolog, Epilog, Grant, Withdraw
  <2>2. QED
    BY <1>5, <2>1 DEF Elsewhere
<1>6. CASE UNCHANGED vars
  BY <1>6 DEF vars
<1>7. ASSUME Handle(r) \/ MachineEnds(r) \/ Close(r)
      PROVE  mode' = mode /\ route' = route
  BY <1>7 DEF Handle, MachineEnds, Close, Arrive, Authenticating, Authenticated, AuthorizeJob,
              CheckSubmission, Forward, Rollback, InitialArtifacts, UploadPayload, LogJob,
              InitialReport
<1>8. QED
  BY <1>1, <1>2, <1>3, <1>4, <1>5, <1>6, <1>7 DEF Next

-----------------------------------------------------------------------------
\* Each step of its handler keeps what is known of a request.
LEMMA HandleStep ==
  ASSUME HandlersTyped, Counted, NEW r \in Requests, RequestInv(r), Handle(r),
         mode' = mode, route' = route
  PROVE  RequestInv(r)'
<1> USE DEF HandlersTyped, Counted, Goto, Answer, handler, records, chainVars, chain, authVars,
            Works, Fails, RequestInv, Submits, Limited, Captures, IsNamed, User, Tries, Parses
<1>1. CASE Arrive(r)
  BY <1>1 DEF Arrive, Waiting, Sending, Recording, Finished, Tracked, Untouched, Backed,
              Reserved, OnMachine
<1>2. CASE Authenticating(r)
  BY <1>2 DEF Authenticating, Waiting, Sending, Recording, Finished, Tracked, Untouched,
              Backed, Reserved, OnMachine
<1>3. CASE Authenticated(r)
  BY <1>3 DEF Authenticated, Waiting, Sending, Recording, Finished, Tracked, Untouched, Backed,
              Reserved, OnMachine
<1>4. CASE AuthorizeJob(r)
  BY <1>4 DEF AuthorizeJob, Waiting, Sending, Recording, Finished, Tracked, Untouched, Backed,
              Reserved, OnMachine
<1>5. CASE CheckSubmission(r)
  BY <1>5 DEF CheckSubmission, Waiting, Sending, Recording, Finished, Tracked, Untouched,
              Backed, Reserved, OnMachine
<1>6. CASE Forward(r)
  BY <1>6 DEF Forward, Taken, Waiting, Sending, Recording, Finished, Tracked, Untouched,
              Backed, Reserved, OnMachine
<1>7. CASE Rollback(r)
  <2>1. /\ at[r] = "rollback" /\ row[r] = "none" /\ store[r] = {} /\ portal[r] = "none"
        /\ charge[r] \in {"none", "held", "stray"} /\ charge[r] # "none" => Limited(r)
        /\ charge[r] = "stray" => hurt[r] >= 1
        /\ reply[r] \in {"refused", "502"}
        /\ reply[r] = "refused" => machine[r] = "none" /\ named[r] = TRUE
        /\ reply[r] = "502" => hurt[r] >= IF charge[r] = "stray" THEN 2 ELSE 1
        /\ reply[r] = "refused" => named[r] = TRUE
    BY <1>7 DEF Rollback, Sending, Reserved
  <2>2. /\ at'[r] = "done" /\ reply'[r] = reply[r]
        /\ machine' = machine /\ named' = named /\ row' = row /\ store' = store
        /\ portal' = portal
    BY <1>7 DEF Rollback
  <2>3. \/ charge[r] = "held" /\ charge'[r] = "returned" /\ hurt'[r] = hurt[r]
        \/ charge[r] = "held" /\ charge'[r] = "held" /\ hurt'[r] = hurt[r] + 1
        \/ charge[r] # "held" /\ charge'[r] = charge[r] /\ hurt'[r] = hurt[r]
    BY <1>7 DEF Rollback
  <2>4. Finished(r)'
    BY <2>1, <2>2, <2>3 DEF Finished, Untouched
  <2>5. Waiting(r)' /\ Sending(r)' /\ Recording(r)'
    BY <2>2 DEF Waiting, Sending, Recording
  <2>6. Tracked(r)'
    BY <2>1, <2>2, <2>3 DEF Tracked
  <2>7. QED
    BY <2>4, <2>5, <2>6
<1>8. CASE InitialArtifacts(r)
  BY <1>8 DEF InitialArtifacts, Waiting, Sending, Recording, Finished, Tracked, Untouched,
              Backed, Reserved, OnMachine
<1>9. CASE UploadPayload(r)
  BY <1>9 DEF UploadPayload, Submitted, FailsTimes, Waiting, Sending, Recording, Finished,
              Tracked, Untouched, Backed, Reserved, OnMachine
<1>10. CASE LogJob(r)
  BY <1>10 DEF LogJob, Inserted, Waiting, Sending, Recording, Finished, Tracked, Untouched,
               Backed, Reserved, OnMachine
<1>11. CASE InitialReport(r)
  BY <1>11 DEF InitialReport, Told, Waiting, Sending, Recording, Finished, Tracked, Untouched,
               Backed, Reserved, OnMachine
<1>12. QED
  BY <1>1, <1>2, <1>3, <1>4, <1>5, <1>6, <1>7, <1>8, <1>9, <1>10, <1>11 DEF Handle

LEMMA RequestStep ==
  ASSUME HandlersTyped, Counted, RolesTyped, NEW r \in Requests, RequestInv(r), [Next]_vars
  PROVE  RequestInv(r)'
<1> USE DEF Submits, Limited, Captures, IsNamed, User, Waiting, Sending, Recording, Finished,
            Tracked, Untouched, Backed, Reserved, OnMachine, Tries, Parses
<1>1. mode' = mode /\ route' = route
  BY RequestSteps
<1>2. CASE Handle(r)
  BY <1>1, <1>2, HandleStep
<1>3. CASE MachineEnds(r)
  BY <1>3 DEF MachineEnds, HandlersTyped, Counted, RequestInv, outside, handler, records,
              chainVars, chain, authVars
<1>4. CASE Close(r)
  BY <1>4 DEF Close, HandlersTyped, Counted, RequestInv, outside, handler, chainVars, chain,
              authVars
<1>5. CASE /\ at[r] \notin {"new", "done", "lost"} /\ at'[r] = "lost"
           /\ hurt'[r] = hurt[r] + 1 /\ principal'[r] = principal[r]
           /\ reply'[r] = reply[r] /\ charge'[r] = charge[r]
           /\ machine'[r] = machine[r] /\ named'[r] = named[r]
           /\ row'[r] = row[r] /\ store'[r] = store[r] /\ portal'[r] = portal[r]
  BY <1>1, <1>5 DEF HandlersTyped, Counted, RequestInv, Steps
<1>6. CASE /\ at'[r] = at[r] /\ hurt'[r] = hurt[r] /\ principal'[r] = principal[r]
           /\ reply'[r] = reply[r] /\ charge'[r] = charge[r]
           /\ machine'[r] = machine[r] /\ named'[r] = named[r]
           /\ row'[r] = row[r] /\ store'[r] = store[r] /\ portal'[r] = portal[r]
  BY <1>1, <1>6 DEF RequestInv
<1>7. QED
  BY <1>2, <1>3, <1>4, <1>5, <1>6, RequestSteps

-----------------------------------------------------------------------------
LEMMA RequestsKeptInit == Init => RequestsKept
<1> SUFFICES ASSUME Init PROVE RequestsKept
  OBVIOUS
<1>1. HandlersTyped
  BY DEF Init, HandlersTyped, Steps, Replies
<1>2. Counted
  BY TimesNatural DEF Init, ChainInit, Counted
<1>3. ASSUME NEW r \in Requests
      PROVE  RequestInv(r)
  BY DEF Init, RequestInv, Waiting, Sending, Recording, Finished, Tracked, Untouched
<1>4. QED
  BY <1>1, <1>2, <1>3 DEF RequestsKept

LEMMA RequestsKeptStep == RolesTyped /\ RequestsKept /\ [Next]_vars => RequestsKept'
<1> SUFFICES ASSUME RolesTyped, RequestsKept, [Next]_vars PROVE RequestsKept'
  OBVIOUS
<1>1. HandlersTyped /\ Counted /\ \A r \in Requests : RequestInv(r)
  BY DEF RequestsKept
<1>2. HandlersTyped' /\ Counted'
  BY <1>1, HandlersTypedStep, CountedStep
<1>3. ASSUME NEW r \in Requests
      PROVE  RequestInv(r)'
  BY <1>1, RequestStep
<1>4. QED
  BY <1>2, <1>3 DEF RequestsKept

LEMMA AlwaysRequestsKept == Spec => []RequestsKept
<1>1. RolesKept => RolesTyped
  BY DEF RolesKept
<1>2. QED
  BY <1>1, AlwaysRolesKept, RequestsKeptInit, RequestsKeptStep, PTL DEF Spec

\* The scheduler's fields are jobs of the scheduler's: only its prolog adds to them.
FieldsTyped == fields \in [Owners -> SUBSET SchedulerJobs]

LEMMA FieldsTypedStep == FieldsTyped /\ [Next]_vars => FieldsTyped'
<1> SUFFICES ASSUME FieldsTyped, [Next]_vars PROVE FieldsTyped'
  OBVIOUS
<1>1. CASE UNCHANGED fields
  BY <1>1 DEF FieldsTyped
<1>2. ASSUME NEW r \in Requests, Authenticate(r) \/ PortalAnswers(r) \/ RolesArrive(r)
      PROVE  UNCHANGED fields
  BY <1>2 DEF Authenticate, PortalAnswers, RolesArrive, bus
<1>3. CASE World
  <2>1. ASSUME NEW u \in Owners, NEW j \in SchedulerJobs, Prolog(u, j) \/ Epilog(u, j)
        PROVE  FieldsTyped'
    BY <2>1 DEF Prolog, Epilog, FieldsTyped
  <2>2. CASE Tick \/ \E u \in Owners, role \in ExtraRoles : Grant(u, role) \/ Withdraw(u, role)
    BY <1>1, <2>2 DEF Tick, Grant, Withdraw, bus
  <2>3. QED
    BY <1>3, <2>1, <2>2 DEF World
<1>4. QED
  BY <1>1, <1>2, <1>3, ChainSteps DEF chain, bus

\* Every variable keeps its type, and no request is hit by more failures than there are.
THEOREM TypeCorrect == Spec => []TypeOK
<1>1. RolesKept /\ RequestsKept /\ FieldsTyped => TypeOK
  <2> SUFFICES ASSUME RolesKept, RequestsKept, FieldsTyped PROVE TypeOK
    OBVIOUS
  <2>1. hurt \in [Requests -> 0..MaxGlitches] /\ glitches \in 0..MaxGlitches
    BY TimesNatural DEF RequestsKept, Counted
  <2>2. ChainTypeOK
    BY <2>1 DEF ChainTypeOK, RolesKept, RolesTyped, FieldsTyped
  <2>3. QED
    BY <2>2 DEF TypeOK, RequestsKept, HandlersTyped
<1>2. Init => FieldsTyped
  BY DEF Init, ChainInit, FieldsTyped
<1>3. QED
  BY <1>1, <1>2, FieldsTypedStep, AlwaysRolesKept, AlwaysRequestsKept, PTL DEF Spec

-----------------------------------------------------------------------------
\* What a refused request leaves behind: nothing, whoever refused it and wherever the
\* gateway dies; but for a reservation whose return, or making, failed.
THEOREM NothingLeftByRefused == Spec => []RefusedLeavesNothing
<1>1. RequestsKept => RefusedLeavesNothing
  <2> SUFFICES ASSUME RequestsKept, NEW r \in Requests, at[r] = "done",
                      reply[r] \in {"401", "403", "410", "429", "503", "denied", "refused"}
               PROVE  /\ machine[r] = "none" /\ row[r] = "none" /\ store[r] = {}
                      /\ portal[r] = "none"
                      /\ charge[r] \in {"none", "returned"} \/ hurt[r] > 0
    BY DEF RefusedLeavesNothing
  <2>1. RequestInv(r) /\ hurt[r] \in Nat
    BY DEF RequestsKept, Counted
  <2>2. charge[r] \in {"none", "held", "stray", "returned", "overdrawn"}
    BY DEF RequestsKept, HandlersTyped
  <2>3. Untouched(r)
    BY <2>1 DEF RequestInv, Finished
  <2>4. QED
    BY <2>1, <2>2, <2>3 DEF RequestInv, Finished, Tracked, Untouched
<1>2. QED
  BY <1>1, AlwaysRequestsKept, PTL

\* What success promises: the job is on the machine, its payload stored, its user's
\* portal told, and it is tracked unless the database failed.
THEOREM SuccessTracked == Spec => []SuccessIsTracked
<1>1. RequestsKept => SuccessIsTracked
  <2> SUFFICES ASSUME RequestsKept, NEW r \in Requests, at[r] = "done", reply[r] = "ok",
                      Captures(r)
               PROVE  /\ machine[r] # "none"
                      /\ named[r] => /\ "submitted" \in store[r]
                                     /\ IsNamed(r) => portal[r] # "none"
                      /\ row[r] # "none" \/ hurt[r] > 0
    BY DEF SuccessIsTracked
  <2>1. RequestInv(r) /\ hurt[r] \in Nat /\ named[r] \in BOOLEAN
    BY DEF RequestsKept, Counted, HandlersTyped
  <2>2. QED
    BY <2>1 DEF RequestInv, Finished
<1>2. QED
  BY <1>1, AlwaysRequestsKept, PTL

\* An error answered for a job that the machine runs cost a failure: a 502 one at least,
\* a 500 as many as the payload has tries to be stored.
THEOREM ErrorsEarned == Spec => []ErrorsAreEarned
<1>1. RequestsKept => ErrorsAreEarned
  <2> SUFFICES ASSUME RequestsKept, NEW r \in Requests, at[r] = "done", machine[r] # "none"
               PROVE  /\ reply[r] = "502" => hurt[r] >= 1
                      /\ reply[r] = "500" => hurt[r] >= Tries(r)
    BY DEF ErrorsAreEarned
  <2>1. RequestInv(r)
    BY DEF RequestsKept
  <2>2. QED
    BY <2>1 DEF RequestInv, Finished, Untouched
<1>2. QED
  BY <1>1, AlwaysRequestsKept, PTL

\* The reporter never finds a row whose job the machine does not know, whose payload is
\* missing, or whose reservation was not made although every call for it worked.
THEOREM RowsBacked == Spec => []RowsAreBacked
<1>1. RequestsKept => RowsAreBacked
  <2> SUFFICES ASSUME RequestsKept, NEW r \in Requests, row[r] # "none"
               PROVE  /\ machine[r] # "none" /\ "submitted" \in store[r]
                      /\ Limited(r) /\ IsNamed(r) =>
                           charge[r] \notin {"none", "overdrawn"} \/ hurt[r] > 0
    BY DEF RowsAreBacked
  <2>1. RequestInv(r) /\ hurt[r] \in Nat
    BY DEF RequestsKept, Counted
  <2>2. QED
    BY <2>1 DEF RequestInv, Tracked, Backed
<1>2. QED
  BY <1>1, AlwaysRequestsKept, PTL

\* A reservation outlives its request, or is given back before its job ends, only where
\* a call failed for it.
THEOREM ReservationsFollow == Spec => []ReservationsFollowJobs
<1>1. RequestsKept => ReservationsFollowJobs
  <2> SUFFICES ASSUME RequestsKept, NEW r \in Requests, Left(r)
               PROVE  /\ charge[r] \in {"held", "stray"} /\ row[r] = "none" =>
                           hurt[r] >= IF reply[r] = "502" /\ machine[r] = "none" THEN 2 ELSE 1
                      /\ charge[r] = "returned" /\ machine[r] = "running" => hurt[r] >= 1
    BY DEF ReservationsFollowJobs
  <2>1. RequestInv(r)
    BY DEF RequestsKept
  <2>2. QED
    BY <2>1 DEF RequestInv, Finished, Tracked, Left
<1>2. QED
  BY <1>1, AlwaysRequestsKept, PTL

\* A token of the scheduler's is called invalid only when its scheduler knows of no job
\* for it, never because the token backend cannot be asked.
THEOREM OutagesAreNotRefusals == Spec => OutageIsNot401
<1>1. ASSUME RolesTyped, [Next]_vars, NEW r \in Requests, Claimed(r), auth'[r] = "401",
             auth[r] # "401"
      PROVE  fields[token[r].user] = {}
  <2>1. CASE UNCHANGED auth
    BY <1>1, <2>1
  <2>2. ASSUME NEW q \in Requests, auth' = [auth EXCEPT ![q] = "due"]
        PROVE  FALSE
    BY <1>1, <2>2 DEF RolesTyped
  <2>3. ASSUME NEW q \in Requests, PortalAnswers(q) \/ RolesArrive(q)
        PROVE  FALSE
    BY <1>1, <2>3 DEF PortalAnswers, RolesArrive, Cached, RolesTyped
  <2>4. ASSUME NEW q \in Requests, Authenticate(q)
        PROVE  fields[token[r].user] = {}
    <3>1. q = r
      BY <1>1, <2>4, ValidateSteps DEF RolesTyped
    <3>2. SqedValidate(r)
      BY <1>1, <2>4, <3>1 DEF Authenticate, Claimed
    <3>3. CASE Raise(r, "503")
      BY <1>1, <3>3 DEF Raise, RolesTyped
    <3>4. CASE \E roles : \/ Recognise(r, "in", ByScheduler(token[r].user, roles))
                           \/ Recognise(r, "asking", ByScheduler(token[r].user, roles))
      BY <1>1, <3>4 DEF Recognise, RolesTyped
    <3>5. QED
      BY <3>2, <3>3, <3>4 DEF SqedValidate
  <2>5. CASE World
    BY <2>1, <2>5 DEF World, Tick, Prolog, Epilog, Grant, Withdraw, authVars
  <2>6. QED
    BY <1>1, <2>1, <2>2, <2>3, <2>4, <2>5, ChainSteps DEF chain, authVars
<1>2. RolesKept /\ [Next]_vars =>
        [\A r \in Requests :
           Claimed(r) /\ auth'[r] = "401" /\ auth[r] # "401" =>
             fields[token[r].user] = {}]_chainVars
  BY <1>1 DEF RolesKept
<1>3. QED
  BY <1>2, AlwaysRolesKept, PTL DEF Spec, OutageIsNot401
=============================================================================
