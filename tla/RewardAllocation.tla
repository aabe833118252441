--------------------------- MODULE RewardAllocation ---------------------------
(***************************************************************************)
(* The pure part of the reward keeper: how scripts/generate-reward-        *)
(* allocations.js divides a budget between veCENT positions, and the       *)
(* Merkle tree of scripts/generate-reward-manifest.js over the result,     *)
(* which scripts/validate-reward-manifest.js and the rewards contract      *)
(* verify.  A hash is a term: a leaf is told from a pair, and a pair does  *)
(* not keep the order of its two sides (pairHash sorts them).              *)
(***************************************************************************)
EXTENDS Integers, Sequences, FiniteSets, FiniteSetsExt, Functions

\* The sum of f over a finite set of tokens.
SumOver(f, S) == SumFunctionOnSet(f, S)

-----------------------------------------------------------------------------
(* The allocation: largest remainders *)

\* The order in which the positions get one more unit each.
Before(budget, power, total, t, u) ==
    LET rem(x) == (budget * power[x]) % total
    IN  \/ rem(t) > rem(u)
        \/ rem(t) = rem(u) /\ power[t] > power[u]
        \/ rem(t) = rem(u) /\ power[t] = power[u] /\ t < u

\* Mistake: what the divisions leave is given to nobody.
AllocateFloor(budget, power) ==
    LET total == SumOver(power, DOMAIN power)
    IN  [t \in DOMAIN power |-> (budget * power[t]) \div total]

\* Mistake: all that the divisions leave goes to the first position.
AllocateRestToFirst(budget, power) ==
    LET positions == DOMAIN power
        base == AllocateFloor(budget, power)
        rest == budget - SumOver(base, positions)
    IN  [t \in positions |-> base[t] + IF t = Min(positions) THEN rest ELSE 0]

\* What each position gets of the budget, for its voting power: the loop gives
\* one unit of the rest at a time, starting again after the last position.
Allocate(budget, power) ==
    LET positions == DOMAIN power
        total == SumOver(power, positions)
        base == [t \in positions |-> (budget * power[t]) \div total]
        rest == budget - SumOver(base, positions)
        count == Cardinality(positions)
        rank(t) == Cardinality({u \in positions : Before(budget, power, total, u, t)})
    IN  [t \in positions |->
            base[t] + rest \div count + IF rank(t) < rest % count THEN 1 ELSE 0]

-----------------------------------------------------------------------------
(* The Merkle tree *)

LeafHash(tokenId, amount) == <<"leaf", tokenId, amount>>
PairHash(left, right) == <<"pair", {left, right}>>
\* bytes32(0), which is no hash
ZeroHash == <<"zero">>

\* The level above: neighbours in pairs, a last one without neighbour as it is.
NextLevel(level) ==
    [i \in 1 .. (Len(level) + 1) \div 2 |->
        IF 2 * i <= Len(level) THEN PairHash(level[2 * i - 1], level[2 * i])
        ELSE level[2 * i - 1]]

\* levels[k] for k = 0 .. Len(leaves); the levels after the root repeat it.
Levels(leaves) ==
    LET levels[k \in 0 .. Len(leaves)] ==
            IF k = 0 THEN leaves ELSE NextLevel(levels[k - 1])
    IN  levels

\* The token ids in increasing order, and their leaves.
Order(amounts) ==
    LET tokens == DOMAIN amounts
    IN  [i \in 1 .. Cardinality(tokens) |->
            CHOOSE t \in tokens : Cardinality({u \in tokens : u < t}) = i - 1]
Leaves(amounts) ==
    [i \in 1 .. Cardinality(DOMAIN amounts) |->
        LeafHash(Order(amounts)[i], amounts[Order(amounts)[i]])]

MerkleRoot(amounts) ==
    LET leaves == Leaves(amounts) IN Levels(leaves)[Len(leaves)][1]

\* The place of a leaf's ancestor in each level.
Places(first, height) ==
    LET place[k \in 0 .. height] == IF k = 0 THEN first ELSE (place[k - 1] + 1) \div 2
    IN  place

\* Mistake: a node without neighbour is its own neighbour in a proof.
NeighbourOrItself(level, i) ==
    LET s == IF i % 2 = 1 THEN i + 1 ELSE i - 1
    IN  IF Len(level) = 1 THEN <<>> ELSE <<level[IF s <= Len(level) THEN s ELSE i]>>

\* What is hashed with the node at place i.
Neighbour(level, i) ==
    LET s == IF i % 2 = 1 THEN i + 1 ELSE i - 1
    IN  IF s <= Len(level) THEN <<level[s]>> ELSE <<>>

\* The neighbours up to each level, of the leaf at place first.
ProofParts(leaves, first) ==
    LET part[k \in 0 .. Len(leaves)] ==
            IF k = 0 THEN <<>>
            ELSE part[k - 1] \o Neighbour(Levels(leaves)[k - 1], Places(first, Len(leaves))[k - 1])
    IN  part

MerkleProof(amounts, tokenId) ==
    LET leaves == Leaves(amounts)
        first == CHOOSE i \in DOMAIN leaves : Order(amounts)[i] = tokenId
    IN  ProofParts(leaves, first)[Len(leaves)]

\* A leaf hashed with the members of a proof, one after the other.
Computed(leaf, proof) ==
    LET hash[i \in 0 .. Len(proof)] ==
            IF i = 0 THEN leaf ELSE PairHash(hash[i - 1], proof[i])
    IN  hash

\* verifyProof of the script, MerkleProof.verify of the contract
Verifies(proof, root, leaf) == Computed(leaf, proof)[Len(proof)] = root

\* The structural checks of a manifest before it is committed.
ValidManifest(m) ==
    /\ DOMAIN m.amounts # {}
    /\ \A t \in DOMAIN m.amounts :
        m.amounts[t] \in Nat \ {0} /\ Verifies(m.proofs[t], m.root, LeafHash(t, m.amounts[t]))
=============================================================================
