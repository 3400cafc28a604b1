-------------------------------- MODULE Access ------------------------------
(***************************************************************************)
(* Who gets in: authz.rs and the token operations of space.rs under the    *)
(* handlers and tools of Routes.  Requests of both channels run side by    *)
(* side; each is checked synchronously, waits for its space to load, is    *)
(* resolved to a caller and served, while managers mint and revoke tokens, *)
(* publish the space, and remote MCP clients create it.                    *)
(***************************************************************************)
EXTENDS Naturals, FiniteSets, Routes

CONSTANTS
  Managers, Visitors,   \* slots for requests: token management, and the rest
  TokenIds,             \* the random values of space tokens
  Labels,               \* wiki ACL labels
  TokenCap,             \* the hundred tokens a space may have
  LlmBudget,            \* llm_semaphore
  LastMoment,           \* bound: ticks of the clock
  MaxUses,              \* bound: verifications counted
  Rosters               \* bound: which slots, ids and mint inputs a behaviour uses,
                        \* and the situations it starts in

ASSUME AccessAssumption ==
  /\ {TokenCap, LlmBudget, LastMoment, MaxUses} \subseteq Nat /\ "free" \notin Managers
  /\ \A r \in Rosters :
       /\ r.slots \subseteq Managers \cup Visitors /\ r.ids \subseteq TokenIds
       /\ \A w \in r.rows :
            /\ w = [name |-> w.name, scope |-> w.scope, labels |-> w.labels, exp |-> w.exp,
                    usage |-> 0]
            /\ w.scope \in {"Read", "Write", "All"}
            /\ w.labels \subseteq Labels \cup {"unrestricted"}

VARIABLES
  time,       \* now_ms
  keys,       \* ED25519_PUBKEYS are configured
  autoCreate, \* auto_create_space
  space,      \* whether it exists, who owns it, and how often it was made
  public,     \* the "public" extension
  tokens,     \* the "ST" extensions
  minted,     \* history: the random values ever drawn
  token_lock, \* its holder
  permits,    \* free permits of llm_semaphore
  request,    \* the requests under way
  uses,       \* history: requests resolved to each token
  roster      \* one of the Rosters

accessVars == <<time, keys, autoCreate, space, public, tokens, minted,
                token_lock, permits, request, uses, roster>>

Everything == Labels \cup {"unrestricted"}
Idle == [pc |-> "idle"]
NoToken == [scope |-> "none"]
Slots == Managers \cup Visitors

AccessInit ==
  /\ roster \in Rosters
  /\ \E start \in roster.starts :
       /\ keys = start.keys /\ autoCreate = start.autoCreate
       /\ space = [there |-> start.there, owner |-> "host", made |-> 0]
  /\ time = 0
  /\ public = FALSE
  /\ tokens = [t \in TokenIds |-> NoToken] /\ minted = {}
  /\ token_lock = "free" /\ permits = LlmBudget
  /\ request = [s \in Slots |-> Idle]
  /\ uses = [t \in TokenIds |-> 0]

live == {t \in TokenIds : tokens[t] # NoToken}

-----------------------------------------------------------------------------
(* Credentials                                                             *)

\* Presented: nothing or something short; something long that is no CWT, or none
\* for this space; a CWT for it or for every space, maybe a manager's; a space
\* token, known or not.
Cwts == [kind : {"cwt"}, scope : {"Read", "Write", "All"}, reach : {"this", "*", "manager"},
         exp : {0, LastMoment}]
Credentials == {[kind |-> "none"], [kind |-> "junk"]} \cup Cwts \cup [kind : {"st"}, id : TokenIds]

\* TokenScope::allows: Write does not include Read.
Allows(have, need) == have = "All" \/ have = need

\* check_auth; without configured keys everybody is the space's own user.
CheckAuth(c, need, at) ==
  \/ ~keys
  \/ c.kind = "cwt" /\ c.exp >= at /\ Allows(c.scope, need)

\* check_auth_if: what is shorter than a CWT is left to the token check.
CheckAuthIf(c, need, at) ==
  CASE ~keys -> "cwt"
    [] keys /\ c.kind \in {"none", "st"} -> "none"
    [] OTHER -> IF CheckAuth(c, need, at) THEN "cwt" ELSE "refused"

check_admin(c, at) ==
  ~keys \/ (c.kind = "cwt" /\ c.exp >= at /\ c.reach = "manager" /\ Allows(c.scope, "Write"))

\* The synchronous part of authorize.
PassesFirst(route, c, at) ==
  CASE route.mode = "CwtOnly" -> CheckAuth(c, route.need, at)
    [] route.mode = "Admin" -> check_admin(c, at)
    [] OTHER -> CheckAuthIf(c, route.need, at) # "refused"

HoldsCwt(route, c, at) ==
  route.mode \in {"CwtOnly", "Admin"} \/ CheckAuthIf(c, route.need, at) = "cwt"

\* verify_space_token: labeled tokens read, whatever their row says.
Verifies(t, need, at) ==
  /\ t \in live
  /\ tokens[t].exp > at /\ Allows(tokens[t].scope, need)
  /\ tokens[t].labels = Everything \/ need = "Read"

Refused == [kind |-> "refused"]
Nobody == [kind |-> "nobody"]   \* not resolved yet
Anonymous == [kind |-> "anonymous", labels |-> {}]
TokenCaller(t) == [kind |-> "st", id |-> t, labels |-> tokens[t].labels]
CwtCaller == [kind |-> "cwt", labels |-> Everything]

\* The rest of authorize, once the space is loaded.
Caller(route, cwt, t, at) ==
  LET verified == Verifies(t, route.need, at)
  IN  CASE cwt -> CwtCaller
        [] ~cwt /\ route.mode = "Credentialed" -> IF verified THEN TokenCaller(t) ELSE Refused
        [] ~cwt /\ route.mode = "PublicRead" ->
             IF verified THEN TokenCaller(t) ELSE IF public THEN Anonymous ELSE Refused
        [] OTHER ->
             IF public THEN Anonymous ELSE IF verified THEN TokenCaller(t) ELSE Refused

\* Only a token that was looked at is counted.
Counted(route, cwt, t, at) ==
  ~cwt /\ Verifies(t, route.need, at) /\ ~(route.mode = "PublicReadLenient" /\ public)

label_restricted(who) == who.kind = "st" /\ who.labels # Everything
\* Mutant: only recalls are withheld, and only from anonymous callers.
OnlyRecallsForbidden(who, recalled) == recalled /\ who.kind = "anonymous"

conversation_read_forbidden(who, recalled) ==
  label_restricted(who) \/ (recalled /\ who.kind = "anonymous")

\* wiki_read_access
WikiView(who) == who.labels

\* The guards that handlers add to authorize.
Forbidden(route, who, recalled, busy) ==
  CASE route.guard = "recall" -> label_restricted(who)
    [] route.guard = "conversation" -> conversation_read_forbidden(who, recalled)
    [] route.guard = "events" -> WikiView(who) # Everything
    [] route.guard = "idle" -> busy
    [] OTHER -> FALSE

-----------------------------------------------------------------------------
(* A request                                                               *)

Tick == /\ time < LastMoment
        /\ time' = time + 1
        /\ UNCHANGED <<keys, autoCreate, space, public, tokens, minted, token_lock, permits, request, uses>>

IdOf(c) == IF c.kind = "st" THEN c.id ELSE "none"

\* The sharding, the body and a CWT are checked at once; a request that fails
\* here leaves nothing behind, and is not modelled.  The llm_router has taken
\* its permit before.
Pending(route, c, channel, recalled) ==
  LET cwt == HoldsCwt(route, c, time) IN
  [pc |-> IF route.act = "create" THEN "create" ELSE "load",
   route |-> route, channel |-> channel, at |-> time, recalled |-> recalled,
   cwt |-> cwt, id |-> IF ~cwt /\ c.kind = "st" THEN c.id ELSE "none",
   \* what the CWT is good for besides
   write |-> channel # "http" /\ autoCreate /\ CheckAuth(c, "Write", time),
   scope |-> IF route.act = "mint" /\ keys THEN c.scope ELSE "All",
   holds |-> channel = "http" /\ route.paid, who |-> Nobody]

Arrive(s, channel) ==
  /\ request[s] = Idle
  /\ \E route \in {e \in (IF channel = "http" THEN HttpRoutes ELSE McpRoutes) :
                      (e.act \in {"mint", "revoke", "update"}) = (s \in Managers)},
        c \in Credentials :
       /\ PassesFirst(route, c, time)
       /\ channel = "http" /\ route.paid => permits > 0
       /\ permits' = IF channel = "http" /\ route.paid THEN permits - 1 ELSE permits
       /\ \E recalled \in (IF route.guard = "conversation" THEN BOOLEAN ELSE {FALSE}) :
            request' = [request EXCEPT ![s] = Pending(route, c, channel, recalled)]
  /\ UNCHANGED <<time, keys, autoCreate, space, public, tokens, minted, token_lock, uses>>

Goto(s, pc) == request' = [request EXCEPT ![s].pc = pc]

\* Every way out drops the permit.
Returned(r) == IF r.holds THEN permits + 1 ELSE permits
Leave(s) ==
  /\ request' = [request EXCEPT ![s] = Idle]
  /\ permits' = Returned(request[s])

\* What follows the load has no await before the operation itself: the token is
\* verified and counted, the guards are asked, a tool takes its permit.
Admit(s, busy) ==
  LET r    == request[s]
      who  == Caller(r.route, r.cwt, r.id, r.at)
      pays == r.channel # "http" /\ r.route.paid
      counts == Counted(r.route, r.cwt, r.id, r.at)
  IN  /\ r.pc = "load" /\ space.there
      /\ busy => r.route.guard = "idle"
      /\ who.kind = "st" => uses[r.id] < MaxUses
      /\ uses' = IF who.kind = "st" THEN [uses EXCEPT ![r.id] = @ + 1] ELSE uses
      /\ tokens' = IF counts THEN [tokens EXCEPT ![r.id].usage = @ + 1] ELSE tokens
      /\ IF who = Refused \/ Forbidden(r.route, who, r.recalled, busy) \/ (pays /\ permits = 0)
           THEN Leave(s)
         ELSE /\ request' = [request EXCEPT ![s].pc = "serve", ![s].holds = @ \/ pays,
                                            ![s].who = who]
              /\ permits' = IF pays THEN permits - 1 ELSE permits
      /\ UNCHANGED <<time, keys, autoCreate, space, public, minted, token_lock>>

\* A space that is not there or does not load ends the request, unless MCP may
\* create it: a remote one only with keys and a CWT that may write.
LoadFails(s) ==
  LET r == request[s]
      mayCreate == /\ r.channel # "http" /\ autoCreate
                   /\ r.channel = "mcp" => keys
                   /\ r.write         \* once only
  IN  /\ r.pc = "load"
      /\ IF mayCreate THEN Goto(s, "create") /\ UNCHANGED permits ELSE Leave(s)
      /\ UNCHANGED <<time, keys, autoCreate, space, public, tokens, minted, token_lock, uses>>

\* admin_create_space.  load_configured_space loads once more before, and
\* takes "already exists" for success; either way authorize starts again.
Create(s) ==
  LET r == request[s] IN
  /\ r.pc = "create"
  /\ space' = IF space.there THEN space
              ELSE [there |-> TRUE, made |-> space.made + 1,
                    owner |-> IF r.channel = "http" THEN "chosen" ELSE IF keys THEN "user" ELSE "self"]
  /\ IF r.channel = "http" THEN Leave(s)
     ELSE request' = [request EXCEPT ![s].pc = "load", ![s].write = FALSE] /\ UNCHANGED permits
  /\ UNCHANGED <<time, keys, autoCreate, public, tokens, minted, token_lock, uses>>

CreateFails(s) ==
  /\ request[s].pc = "create"
  /\ Leave(s)
  /\ UNCHANGED <<time, keys, autoCreate, space, public, tokens, minted, token_lock, uses>>

Serve(s) ==
  /\ request[s].pc = "serve" /\ request[s].route.act = "none"
  /\ Leave(s)
  /\ UNCHANGED <<time, keys, autoCreate, space, public, tokens, minted, token_lock, uses>>

-----------------------------------------------------------------------------
(* Token management                                                        *)

\* add_space_token: an unrestricted token asks for an unrestricted CWT.
MintScopeAllowed(r, scope) == Allows(r.scope, IF scope = "All" THEN "All" ELSE "Write")

\* Mutant: the lock is dropped before the row is saved.
BeginMintUnlocked(s, row) ==
  LET r == request[s] IN
  /\ r.pc = "serve" /\ r.route.act = "mint" /\ token_lock = "free"
  /\ MintScopeAllowed(r, row.scope)
  /\ Cardinality(live) < TokenCap
  /\ \A t \in live : tokens[t].name # row.name
  /\ row.labels # Everything => row.scope = "Read"
  /\ request' = [request EXCEPT ![s] = [pc |-> "save", scope |-> r.scope, holds |-> FALSE,
                                             row |-> row]]
  /\ UNCHANGED <<time, keys, autoCreate, space, public, tokens, minted, token_lock, permits, uses>>

\* The checks run under the lock, which is held until the row is saved.
BeginMint(s, row) ==
  LET r == request[s] IN
  /\ r.pc = "serve" /\ r.route.act = "mint" /\ token_lock = "free"
  /\ MintScopeAllowed(r, row.scope)
  /\ Cardinality(live) < TokenCap
  /\ \A t \in live : tokens[t].name # row.name
  /\ row.labels # Everything => row.scope = "Read"
  /\ token_lock' = s
  /\ request' = [request EXCEPT ![s] = [pc |-> "save", scope |-> r.scope, holds |-> FALSE,
                                             row |-> row]]
  /\ UNCHANGED <<time, keys, autoCreate, space, public, tokens, minted, permits, uses>>

MintRefused(s) ==
  /\ request[s].pc = "serve" /\ request[s].route.act = "mint" /\ token_lock = "free"
  /\ Leave(s)
  /\ UNCHANGED <<time, keys, autoCreate, space, public, tokens, minted, token_lock, uses>>

\* The row may be there although the save reports an error.
SaveToken(s, t, stored) ==
  /\ request[s].pc = "save" /\ t \notin minted
  /\ minted' = minted \cup {t}
  /\ tokens' = IF stored THEN [tokens EXCEPT ![t] = request[s].row] ELSE tokens
  /\ token_lock' = "free"
  /\ Leave(s)
  /\ UNCHANGED <<time, keys, autoCreate, space, public, uses>>

Removed(t) == [tokens EXCEPT ![t] = NoToken]

RevokeByValue(s, t) ==
  /\ request[s].pc = "serve" /\ request[s].route.act = "revoke"
  /\ tokens' = Removed(t)
  /\ Leave(s)
  /\ UNCHANGED <<time, keys, autoCreate, space, public, minted, token_lock, uses>>

\* By name the key is looked up first; the removal is a step of its own.
FindByName(s, name) ==
  /\ request[s].pc = "serve" /\ request[s].route.act = "revoke"
  /\ \E t \in live : /\ tokens[t].name = name
                     /\ request' = [request EXCEPT ![s] = [pc |-> "remove", id |-> t, holds |-> FALSE]]
  /\ UNCHANGED <<time, keys, autoCreate, space, public, tokens, minted, token_lock, permits, uses>>

RemoveFound(s) ==
  /\ request[s].pc = "remove"
  /\ tokens' = Removed(request[s].id)
  /\ Leave(s)
  /\ UNCHANGED <<time, keys, autoCreate, space, public, minted, token_lock, uses>>

\* update_space, of which only "public" matters here.
UpdatePublic(s) ==
  /\ request[s].pc = "serve" /\ request[s].route.act = "update"
  /\ public' \in BOOLEAN
  /\ Leave(s)
  /\ UNCHANGED <<time, keys, autoCreate, space, tokens, minted, token_lock, uses>>

AccessStep ==
  \/ Tick
  \/ \E s \in roster.slots :
       \/ \E channel \in {"http", "mcp", "stdio"} : Arrive(s, channel)
       \/ \E busy \in BOOLEAN : Admit(s, busy)
       \/ LoadFails(s) \/ Create(s) \/ CreateFails(s) \/ Serve(s)
       \/ \E row \in roster.rows : BeginMint(s, row)
       \/ MintRefused(s)
       \/ \E t \in roster.ids, stored \in BOOLEAN : SaveToken(s, t, stored)
       \/ \E t \in roster.ids : RevokeByValue(s, t)
       \/ \E row \in roster.rows : FindByName(s, row.name)
       \/ RemoveFound(s) \/ UpdatePublic(s)

AccessNext == AccessStep /\ UNCHANGED roster

AccessSpec == AccessInit /\ [][AccessNext]_accessVars

-----------------------------------------------------------------------------
(* Properties                                                              *)

AccessTypeOK ==
  /\ time \in 0..LastMoment /\ permits \in 0..LlmBudget
  /\ token_lock \in Managers \cup {"free"}
  /\ live \subseteq minted /\ Cardinality(live) <= TokenCap

Served == {s \in Slots : request[s].pc = "serve"}

\* The channels admit the same callers to the same operation and show them the
\* same documents, whatever the credential and the state of the space.
ChannelsAgree ==
  (\A s \in Slots : request[s] = Idle) => \A pair \in SameOperation, c \in Credentials, recalled \in BOOLEAN :
    LET Seen(route) ==
          IF ~PassesFirst(route, c, time) THEN Refused
          ELSE LET who == Caller(route, HoldsCwt(route, c, time), IdOf(c), time)
               IN  IF who = Refused \/ Forbidden(route, who, recalled, FALSE) THEN Refused ELSE who
    IN  Seen(pair[1]) = Seen(pair[2])

\* A labeled token is a viewer: it changes nothing and sees nothing that spans
\* all labels.  Nobody anonymous changes anything or sees a recall of the time
\* when the space was private, however often it is published.
RestrictedCallersOnlyView ==
  \A s \in Served :
    LET r == request[s] IN
    /\ label_restricted(r.who) =>
         r.route.need = "Read" /\ r.route.shows \in {"status", "graph", "wiki"}
    /\ r.who.kind = "anonymous" =>
         /\ r.route.need = "Read" /\ r.route.shows # "audit"
         /\ ~r.recalled /\ WikiView(r.who) = {}

\* handler.rs:1198: what a token opens beyond a Write CWT, only an
\* unrestricted CWT can give away.
MintingDoesNotEscalate ==
  \A s \in Managers :
    keys /\ request[s].pc = "save" /\ request[s].row.scope = "All" => request[s].scope = "All"

\* However mints, failed saves and revocations fall, the audit log can tell the
\* tokens apart, and no labeled token can write.
TokensAreTellable ==
  \A t \in live :
    /\ \A u \in live : tokens[t].name = tokens[u].name => t = u
    /\ tokens[t].labels # Everything => tokens[t].scope = "Read"

\* The usage counter of a token counts the requests that were resolved to it, and
\* no others, also when the space is published or the row removed meanwhile.
UsageIsExact == \A t \in live : tokens[t].usage = uses[t]

\* A space is made once, and never for a remote caller without a write CWT.
SpacesHaveTheirMaker ==
  /\ space.made <= 1
  /\ space.there /\ space.made = 1 => space.owner \in {"chosen", IF keys THEN "user" ELSE "self"}
  /\ \A s \in Slots : request[s].pc = "create" /\ request[s].channel = "mcp" => keys /\ request[s].write

\* Every exit returns its permit: what is missing from the budget is held by a
\* request, and an operation that is billed is one of them.
PermitsAreAccountedFor ==
  LET holders == {s \in Slots : request[s] # Idle /\ request[s].holds}
  IN  /\ permits + Cardinality(holders) = LlmBudget
      /\ \A s \in Served : request[s].route.paid => s \in holders

\* No sequence of publishing, minting and creating gives a caller more than
\* his credential opens.
AccessIsNotWidened ==
  RestrictedCallersOnlyView /\ MintingDoesNotEscalate /\ SpacesHaveTheirMaker

\* Whatever requests race, tokens, their counters and the permits add up.
AccountsAddUp ==
  AccessTypeOK /\ TokensAreTellable /\ UsageIsExact /\ PermitsAreAccountedFor
=============================================================================
