----------------------------- MODULE AgentAccount -----------------------------
(***************************************************************************)
(* CentryOnchainAgentAccount: an account on chain whose owner lets         *)
(* operators act for it.  A transaction is one action; one that reverts is *)
(* disabled.  Kept: one target, one asset, one spender and the selector    *)
(* approve, the one whose calls need all three authorizations (permission, *)
(* financial limit, approved spender).  AgentAccess adds the API routes.   *)
(***************************************************************************)
EXTENDS Integers, Sequences, FiniteSets, Functions

CONSTANTS
    Owners, Operators, None,
    Expiries,           \* values of expiresAt (0: never)
    Limits,             \* values of a financial limit
    Batches,            \* amounts of the calls of one operator transaction
    MaxTime,            \* bound: block.timestamp
    MaxEpoch,           \* bound: changes of ownership
    MaxEvents           \* bound: transactions, ticks, and AgentAccess's requests and challenges

ASSUME AccountAssumption ==
    /\ Owners # {} /\ None \notin Owners
    /\ Expiries \subseteq Nat
    /\ Limits \subseteq [perCall : Nat \ {0}, perWindow : Nat \ {0}, duration : Nat \ {0}]
    /\ \A l \in Limits : l.perCall <= l.perWindow
    /\ Batches \subseteq Seq(Nat) \ {<<>>}
    /\ MaxTime \in Nat /\ MaxEpoch \in Nat /\ MaxEvents \in Nat

VARIABLES
    now,
    owner, pendingOwner, active,
    operators,          \* agentOperators
    epoch,              \* authorizationEpoch
    permission,         \* permissions[o], permissionEpochs[o]
    limit,              \* financialLimits[o], financialLimitEpochs[o]
    spender,            \* approvalSpenders[o], approvalSpenderEpochs[o]
    (* history *)
    events,             \* how many so far
    granted,            \* what the present owner has written, by operator
    spentAt             \* spent under the limit by operator and time, since it was set

grantVars == <<permission, limit, spender, granted, spentAt>>
chainVars == <<now, owner, pendingOwner, active, operators, epoch, grantVars>>
accountVars == <<chainVars, events>>

NoPermission == [allowed |-> FALSE, expiresAt |-> 0, epoch |-> 0]
NoLimit == [perCall |-> 0, perWindow |-> 0, duration |-> 0, spent |-> 0, start |-> 0, epoch |-> 0]
NoSpender == [allowed |-> FALSE, epoch |-> 0]
All == {"permission", "limit", "spender"}
Permission(allowed, expiresAt, e) == [allowed |-> allowed, expiresAt |-> expiresAt, epoch |-> e]
Fresh(l, start, e) == [perCall |-> l.perCall, perWindow |-> l.perWindow,
                       duration |-> l.duration, spent |-> 0, start |-> start, epoch |-> e]
Unspent == [t \in 0 .. MaxTime |-> 0]

\* The factory creates it for its owner, with an operator or without, and with
\* the writes of initializeWithAuthorization for him or without.
AccountInit ==
    /\ now = 0
    /\ owner \in Owners /\ pendingOwner = None
    /\ active = FALSE /\ epoch = 0
    /\ operators \in {{}} \union {{o} : o \in Operators}
    /\ \/ /\ permission = [o \in Operators |-> NoPermission]
          /\ limit = [o \in Operators |-> NoLimit]
          /\ spender = [o \in Operators |-> NoSpender]
          /\ granted = [o \in Operators |-> {}]
       \/ \E e \in Expiries, l \in Limits :
          /\ e = 0 \/ e > now
          /\ permission = [o \in Operators |->
                IF o \in operators THEN Permission(TRUE, e, 0) ELSE NoPermission]
          /\ limit = [o \in Operators |-> IF o \in operators THEN Fresh(l, 0, 0) ELSE NoLimit]
          /\ spender = [o \in Operators |->
                IF o \in operators THEN [allowed |-> TRUE, epoch |-> 0] ELSE NoSpender]
          /\ granted = [o \in Operators |-> IF o \in operators THEN All ELSE {}]
    /\ events = 0
    /\ spentAt = [o \in Operators |-> Unspent]

Event == events < MaxEvents /\ events' = events + 1

Tick ==
    /\ Event /\ now < MaxTime
    /\ now' = now + 1
    /\ UNCHANGED <<owner, pendingOwner, active, operators, epoch, grantVars>>

-----------------------------------------------------------------------------
(* The owner's transactions *)

TransferOwnership(to) ==
    /\ Event /\ epoch < MaxEpoch
    /\ pendingOwner' = to
    /\ UNCHANGED <<now, owner, active, operators, epoch, grantVars>>

\* Mistake: the authorizations keep their epoch.
AcceptOwnership_SameEpoch ==
    /\ Event /\ pendingOwner # None
    /\ owner' = pendingOwner /\ pendingOwner' = None
    /\ active' = FALSE
    /\ granted' = [o \in Operators |-> {}]
    /\ UNCHANGED <<now, operators, epoch, permission, limit, spender, spentAt>>

\* Operators stay; what they were allowed belongs to the epoch before.
AcceptOwnership ==
    /\ Event /\ pendingOwner # None /\ epoch < MaxEpoch
    /\ owner' = pendingOwner /\ pendingOwner' = None
    /\ epoch' = epoch + 1
    /\ active' = FALSE
    /\ granted' = [o \in Operators |-> {}]
    /\ UNCHANGED <<now, operators, permission, limit, spender, spentAt>>

SetActive(on) ==
    /\ Event /\ active' = on
    /\ UNCHANGED <<now, owner, pendingOwner, operators, epoch, grantVars>>

SetAgentOperator(o, on) ==
    /\ Event
    /\ operators' = IF on THEN operators \union {o} ELSE operators \ {o}
    /\ UNCHANGED <<now, owner, pendingOwner, active, epoch, grantVars>>

\* What the three kinds of write do, alone or in one configureAuthorization.
WritePermission(o, allowed, expiresAt) ==
    /\ expiresAt = 0 \/ expiresAt > now
    /\ permission' = [permission EXCEPT ![o] = Permission(allowed, expiresAt, epoch)]

WriteLimit(o, l) ==
    /\ limit' = [limit EXCEPT ![o] = Fresh(l, now, epoch)]
    /\ spentAt' = [spentAt EXCEPT ![o] = Unspent]

WriteSpender(o, allowed) ==
    spender' = [spender EXCEPT ![o] = [allowed |-> allowed, epoch |-> epoch]]

Granting(o, what) == granted' = [granted EXCEPT ![o] = @ \union what]

SetPermission(o, allowed, expiresAt) ==
    /\ Event
    /\ WritePermission(o, allowed, expiresAt) /\ Granting(o, {"permission"})
    /\ UNCHANGED <<now, owner, pendingOwner, active, operators, epoch, limit, spender, spentAt>>

SetFinancialLimit(o, l) ==
    /\ Event
    /\ WriteLimit(o, l) /\ Granting(o, {"limit"})
    /\ UNCHANGED <<now, owner, pendingOwner, active, operators, epoch, permission, spender>>

\* Two zero amounts delete the limit and leave its epoch.
DeleteFinancialLimit(o) ==
    /\ Event
    /\ limit' = [limit EXCEPT ![o] = [NoLimit EXCEPT !.epoch = limit[o].epoch]]
    /\ UNCHANGED <<now, owner, pendingOwner, active, operators, epoch, permission, spender,
                   granted, spentAt>>

SetApprovalSpender(o, allowed) ==
    /\ Event
    /\ WriteSpender(o, allowed) /\ Granting(o, {"spender"})
    /\ UNCHANGED <<now, owner, pendingOwner, active, operators, epoch, permission, limit, spentAt>>

ConfigureAuthorization(o, expiresAt, l) ==
    /\ Event
    /\ WritePermission(o, TRUE, expiresAt) /\ WriteLimit(o, l) /\ WriteSpender(o, TRUE)
    /\ Granting(o, All)
    /\ UNCHANGED <<now, owner, pendingOwner, active, operators, epoch>>

-----------------------------------------------------------------------------
(* The operators' transactions *)

CanExecute(o) ==
    /\ active /\ o \in operators
    /\ permission[o].allowed /\ permission[o].epoch = epoch
    /\ permission[o].expiresAt = 0 \/ now <= permission[o].expiresAt

Total(amounts) == SumFunction(amounts)

\* The limit once a window that is over has been replaced.
Window(l) == IF now >= l.start + l.duration THEN [l EXCEPT !.start = now, !.spent = 0] ELSE l

\* Mistake: every call of a batch is compared with the window on its own.
WithinLimit_Each(l, amounts) ==
    \A i \in DOMAIN amounts : amounts[i] <= l.perCall /\ amounts[i] <= l.perWindow - l.spent

WithinLimit(l, amounts) ==
    /\ \A i \in DOMAIN amounts : amounts[i] <= l.perCall
    /\ Total(amounts) <= l.perWindow - l.spent

\* execute, and executeBatch with several calls.
Execute(o, amounts) ==
    /\ Event /\ CanExecute(o)
    /\ spender[o].allowed /\ spender[o].epoch = epoch
    /\ limit[o].epoch = epoch /\ limit[o].duration > 0
    /\ LET l == Window(limit[o])
       IN  /\ WithinLimit(l, amounts)
           /\ limit' = [limit EXCEPT ![o] = [l EXCEPT !.spent = @ + Total(amounts)]]
    /\ spentAt' = [spentAt EXCEPT ![o][now] = @ + Total(amounts)]
    /\ UNCHANGED <<now, owner, pendingOwner, active, operators, epoch, permission, spender,
                   granted>>

OwnerNext ==
    \/ \E to \in Owners : TransferOwnership(to)
    \/ AcceptOwnership
    \/ \E on \in BOOLEAN : SetActive(on)
    \/ \E o \in Operators, on \in BOOLEAN : SetAgentOperator(o, on) \/ SetApprovalSpender(o, on)
    \/ \E o \in Operators, on \in BOOLEAN, e \in Expiries : SetPermission(o, on, e)
    \/ \E o \in Operators, l \in Limits : SetFinancialLimit(o, l)
    \/ \E o \in Operators : DeleteFinancialLimit(o)
    \/ \E o \in Operators, e \in Expiries, l \in Limits : ConfigureAuthorization(o, e, l)

AccountNext ==
    \/ Tick
    \/ OwnerNext
    \/ \E o \in Operators, amounts \in Batches : Execute(o, amounts)

-----------------------------------------------------------------------------
(* Properties *)

(* No operator acts on the word of a former owner: an executed call's      *)
(* permission, limit and spender were all written by the present owner     *)
(* since he accepted the account, even if he had owned it before.          *)
PresentOwnerGranted ==
    [][\A o \in Operators, amounts \in Batches :
            Execute(o, amounts) => granted[o] = All]_accountVars

(* The amounts of any period as long as the window, wherever it begins,    *)
(* add up to at most twice the limit per window: a window begins with the  *)
(* first call after the one before, so that a period may meet two of them. *)
SpentWithinWindow ==
    \A o \in Operators, from \in 0 .. MaxTime :
        SumFunctionOnSet(spentAt[o],
                         {t \in 0 .. MaxTime : from <= t /\ t < from + limit[o].duration})
            <= 2 * limit[o].perWindow
=============================================================================
