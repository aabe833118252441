------------------------------ MODULE AgentAccess ------------------------------
(***************************************************************************)
(* The API routes that let owners administer their agents and operators    *)
(* use them: signed owner challenges with one-time nonces, owner sessions, *)
(* agent connections and sessions, over the account on chain               *)
(* (AgentAccount) and agent-db's rows of one agent.  A request is a        *)
(* process; each of its awaits is one action, and it may fail or be lost   *)
(* at any of them.  Whoever holds a token may send it again, at any time   *)
(* and several times at once.  Kept of a token is who and what it is for   *)
(* and when it expires; signatures are valid, scopes and origins agree.    *)
(***************************************************************************)
EXTENDS AgentAccount

CONSTANTS
    Requests,           \* bound: the requests of a behaviour
    Challenges,         \* bound: the owner challenges of a behaviour
    ChallengeTtl,       \* exp of a challenge, of an owner or of an agent (300 s)
    RequestTtl,         \* how long a request lasts until it consumes its nonce
    NonceTtl,           \* how long agent-db remembers a nonce (a day)
    ConnectionTtl,      \* issueAgentConnection (600 s)
    SessionTtl,         \* issueAgentSession (900 s)
    OwnerSessionTtl     \* OWNER_SESSION_TTL_SECONDS (12 h)

\* No request lasts for a day less five minutes: the platform ends it before.
ASSUME AccessAssumption ==
    /\ Requests \subseteq Int /\ None \notin Challenges
    /\ ChallengeTtl \in Nat /\ RequestTtl \in Nat /\ NonceTtl \in Nat
    /\ ChallengeTtl + RequestTtl <= NonceTtl
    /\ ConnectionTtl \in Nat /\ SessionTtl \in Nat /\ OwnerSessionTtl \in Nat

VARIABLES
    challenge,          \* owner challenges issued (and signed by their owner)
    nonces,             \* centry_owner_auth_nonces
    row,                \* centry_agents.owner of the account
    keys,               \* centry_agent_keys
    cookies,            \* owner sessions
    tokens,             \* agent challenges, connections and sessions
    request,
    seen                \* history: what held at a moment of the request

rowVars == <<nonces, row, keys>>
tokenVars == <<challenge, cookies, tokens>>
routeVars == <<rowVars, tokenVars, request>>
vars == <<accountVars, routeVars, seen>>

NoChallenge == [action |-> "none"]
Actions == {"create-api-key", "agent-session"}
TokenKinds == {"connect", "activate", "open", "session", "prepare"}
Facts == {"session owner", "owner", "operator", "active"}

\* The agent is registered, and its owners are logged in for other agents.
Init ==
    /\ AccountInit
    /\ challenge = [c \in Challenges |-> NoChallenge]
    /\ nonces = {} /\ keys = {} /\ tokens = {}
    /\ row = owner
    /\ cookies = {[request |-> None, challenge |-> None, owner |-> who,
                   exp |-> OwnerSessionTtl] : who \in Owners}
    /\ request = [r \in Requests |-> [step |-> "new"]]
    /\ seen = [r \in Requests |-> {}]

Step(r) == request[r].step
Running(r) == Step(r) \notin {"new", "ok", "failed"}
Goto(r, step) == request' = [request EXCEPT ![r].step = step]
End(r, step) == request' = [request EXCEPT ![r] = [step |-> step, kind |-> @.kind]]

\* Requests in the order of their numbers, since they are all alike.
Begin(r, state) ==
    /\ Step(r) = "new"
    /\ \A q \in Requests : q < r => Step(q) # "new"
    /\ request' = [request EXCEPT ![r] = state]
    /\ Event

-----------------------------------------------------------------------------
(* Reads of the account: one call of the RPC each, in any order *)

Holds(q, fact) ==
    CASE fact = "owner" -> owner = q.owner
      [] fact = "session owner" -> owner = q.session
      [] fact = "operator" -> q.operator \in operators
      [] fact = "active" -> active
      [] fact = "permitted" ->
            CanExecute(q.operator) /\ permission[q.operator].expiresAt # 0

\* A read whose value the route accepts; at any other the request fails.
Read(r, fact) ==
    /\ Step(r) = "read" /\ fact \in request[r].reads
    /\ Holds(request[r], fact)
    /\ request' = [request EXCEPT ![r].reads = @ \ {fact}]
    /\ UNCHANGED <<rowVars, tokenVars>>

AllRead(r) == Step(r) = "read" /\ request[r].reads = {}

\* An error answer, or none: the caller only knows that it failed.
Fail(r) ==
    /\ Running(r)
    /\ End(r, "failed")
    /\ UNCHANGED <<rowVars, tokenVars>>

-----------------------------------------------------------------------------
(* agent-admin/challenge, agents/[agentId]/keys, agent-admin/session *)

IssueOwnerChallenge(c, action, who) ==
    /\ Event /\ challenge[c] = NoChallenge
    /\ challenge' = [challenge EXCEPT ![c] =
            [owner |-> who, action |-> action, exp |-> now + ChallengeTtl]]
    /\ UNCHANGED <<rowVars, cookies, tokens, request>>

\* The key route works for the owner in the agent's row.
BeginAdmin(r, c) ==
    /\ challenge[c] # NoChallenge /\ challenge[c].exp >= now
    /\ challenge[c].action = "create-api-key" => row = challenge[c].owner
    /\ Begin(r, [step |-> "read", kind |-> challenge[c].action, reads |-> {"owner"},
                 challenge |-> c, owner |-> challenge[c].owner, began |-> now])
    /\ UNCHANGED <<rowVars, tokenVars>>

\* Mistake: the nonces of a moment ago are deleted.
Remembered_Short == {n \in nonces : n.at >= now}

Remembered == {n \in nonces : n.at + NonceTtl >= now}

\* consume_owner_auth_nonce: old ones are deleted first; INSERT OR IGNORE.
ConsumeNonce(r) ==
    /\ AllRead(r) /\ request[r].kind \in Actions
    /\ now <= request[r].began + RequestTtl
    /\ LET c == request[r].challenge
       IN  IF \E n \in Remembered : n.challenge = c
           THEN nonces' = Remembered /\ End(r, "failed")
           ELSE nonces' = Remembered \union {[challenge |-> c, at |-> now]} /\ Goto(r, "effect")
    /\ UNCHANGED <<row, keys, tokenVars>>

\* createAgentKey, whose answer may be lost (step "failed").
CreateKey(r, step) ==
    /\ Step(r) = "effect" /\ request[r].kind = "create-api-key"
    /\ keys' = keys \union {[request |-> r, challenge |-> request[r].challenge,
                             owner |-> request[r].owner]}
    /\ End(r, step)
    /\ UNCHANGED <<nonces, row, tokenVars>>

IssueOwnerSession(r) ==
    /\ Step(r) = "effect" /\ request[r].kind = "agent-session"
    /\ cookies' = cookies \union {[request |-> r, challenge |-> request[r].challenge,
                                   owner |-> request[r].owner, exp |-> now + OwnerSessionTtl]}
    /\ End(r, "ok")
    /\ UNCHANGED <<rowVars, challenge, tokens>>

-----------------------------------------------------------------------------
(* agents/register, under an owner session *)

\* verifyOwnerSession, for the owner of the session; who: the owner in the body.
BeginRegister(r, cookie, who) ==
    /\ cookie.exp >= now
    /\ Begin(r, [step |-> "read", kind |-> "session check", reads |-> {"session owner"},
                 session |-> cookie.owner, owner |-> who])
    /\ UNCHANGED <<rowVars, tokenVars>>

\* The route reads the owner again, for the owner in the body.
SessionChecked(r) ==
    /\ AllRead(r) /\ request[r].kind = "session check"
    /\ request' = [request EXCEPT ![r].kind = "register", ![r].reads = {"owner"}]
    /\ UNCHANGED <<rowVars, tokenVars>>

UpsertAgent(r) ==
    /\ AllRead(r) /\ request[r].kind = "register"
    /\ row' = request[r].owner
    /\ End(r, "ok")
    /\ UNCHANGED <<nonces, keys, tokenVars>>

-----------------------------------------------------------------------------
(* agent-connections *)

Token(kind, who, o, ttl) == [kind |-> kind, owner |-> who, operator |-> o, exp |-> now + ttl]

IssueAgentChallenge(who) ==
    /\ Event
    /\ tokens' = tokens \union {Token("challenge", who, None, ChallengeTtl)}
    /\ UNCHANGED <<rowVars, challenge, cookies, request>>

Valid(token, kind) == token.kind = kind /\ token.exp >= now

\* Mistake: a session is taken to say that its operator is one.
Reads_Session(kind) ==
    CASE kind = "connect" -> {"owner", "operator"}
      [] kind = "activate" -> {"owner", "operator", "active"}
      [] kind = "open" -> {"operator"}
      [] OTHER -> {}

\* The reads of each route that takes a token.
Reads(kind) ==
    CASE kind = "connect" -> {"owner", "operator"}
      [] kind = "activate" -> {"owner", "operator", "active"}
      [] kind = "open" -> {"operator"}
      [] kind \in {"session", "prepare"} -> {"operator", "active"}

\* One of the routes, with the token it takes; the operator is the caller's
\* with a challenge, and the token's otherwise.
BeginToken(r, token, kind, o) ==
    /\ \/ kind \in {"connect", "activate"} /\ Valid(token, "challenge")
       \/ kind = "open" /\ Valid(token, "connection") /\ o = token.operator
       \/ kind \in {"session", "prepare"} /\ Valid(token, "session") /\ o = token.operator
    /\ Begin(r, [step |-> "read", kind |-> kind, reads |-> Reads(kind),
                 owner |-> token.owner, operator |-> o])
    /\ UNCHANGED <<rowVars, tokenVars>>

\* The connection of a challenge; the session of a connection or of a challenge.
IssueToken(r) ==
    /\ AllRead(r) /\ request[r].kind \in {"connect", "activate", "open"}
    /\ tokens' = tokens \union
            {IF request[r].kind = "connect"
             THEN Token("connection", request[r].owner, request[r].operator, ConnectionTtl)
             ELSE Token("session", request[r].owner, request[r].operator, SessionTtl)}
    /\ End(r, "ok")
    /\ UNCHANGED <<rowVars, challenge, cookies>>

\* checkActionPermissions goes on to the permission; the operator's wallet may
\* broadcast the prepared transaction at any time (Execute).
LiveOperator(r) ==
    /\ AllRead(r) /\ request[r].kind = "prepare"
    /\ request' = [request EXCEPT ![r].kind = "permission", ![r].reads = {"permitted"}]
    /\ UNCHANGED <<rowVars, tokenVars>>

\* A session route (authenticateAgent) has no more to check; what it answers
\* is read on chain or is a task for another agent (TaskQueue).
Served(r) ==
    /\ AllRead(r) /\ request[r].kind \in {"session", "permission"}
    /\ End(r, "ok")
    /\ UNCHANGED <<rowVars, tokenVars>>

-----------------------------------------------------------------------------

Begins ==
    \/ \E c \in Challenges, action \in Actions, who \in Owners : IssueOwnerChallenge(c, action, who)
    \/ \E who \in Owners : IssueAgentChallenge(who)
    \/ \E r \in Requests, c \in Challenges : BeginAdmin(r, c)
    \/ \E r \in Requests, cookie \in cookies, who \in Owners : BeginRegister(r, cookie, who)
    \/ \E r \in Requests, token \in tokens, o \in Operators, kind \in TokenKinds :
            BeginToken(r, token, kind, o)

Goes(r) ==
    \/ \E fact \in Facts \union {"permitted"} : Read(r, fact)
    \/ ConsumeNonce(r) \/ IssueOwnerSession(r)
    \/ \E step \in {"ok", "failed"} : CreateKey(r, step)
    \/ SessionChecked(r) \/ UpsertAgent(r)
    \/ IssueToken(r) \/ LiveOperator(r) \/ Served(r)
    \/ Fail(r)

\* What makes each request legitimate.
Needs(kind) ==
    CASE kind \in Actions -> {"owner"}
      [] kind = "session check" -> {"session owner"}
      [] kind = "register" -> {"session owner", "owner"}
      [] kind = "connect" -> {"owner", "operator"}
      [] kind = "activate" -> {"owner", "operator", "active"}
      [] kind = "open" -> {"operator"}
      [] kind \in {"session", "prepare", "permission"} -> {"operator", "active"}

\* What now holds of it.
Watch ==
    seen' = [r \in Requests |->
        IF Step(r)' \in {"new", "failed"} THEN {}
        ELSE seen[r] \union {fact \in Needs(request'[r].kind) :
                Running(r)' /\ Holds(request[r], fact)'}]

Next ==
    /\ \/ AccountNext /\ UNCHANGED routeVars
       \/ Begins /\ UNCHANGED chainVars
       \/ (\E r \in Requests : Goes(r)) /\ UNCHANGED accountVars
    /\ Watch

Spec == Init /\ [][Next]_vars

-----------------------------------------------------------------------------
(* Properties *)

(* A signed challenge takes effect once at most: one key or one session,   *)
(* however often and however concurrently it is sent, whichever answers    *)
(* are lost, and although agent-db forgets its nonce in the end.           *)
ChallengeOnce ==
    \A c \in Challenges :
        Cardinality({k \in keys : k.challenge = c})
            + Cardinality({s \in cookies : s.challenge = c}) <= 1

(* A request only succeeds for one who was entitled while it ran: no       *)
(* token, row or read from before it stands for the owner, the operator    *)
(* or the account's being active; and a key belongs to the owner who has   *)
(* signed for it, whatever the agent's row says by then.                   *)
ServedWhileEntitled ==
    /\ \A r \in Requests : Step(r) = "ok" => Needs(request[r].kind) \subseteq seen[r]
    /\ \A k \in keys : k.owner = challenge[k.challenge].owner
=============================================================================
