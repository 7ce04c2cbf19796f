------------------------------- MODULE Merkle -------------------------------
(***************************************************************************)
(* batcher/merkle.py: the three loops that anchor a batch and later check  *)
(* one of its leaves.  flush() runs compute_root over the leaf hashes of   *)
(* the batch and compute_proof for each index; /api/verify runs            *)
(* verify_proof with the leaf hash and proof stored in the database and    *)
(* the root on chain.  One iteration of a loop is one step.                *)
(*                                                                         *)
(* SHA-256 is taken as free of collisions, so a hash is what it is made    *)
(* of: a record, or the set of two siblings, which are sorted first.  The  *)
(* JSON text of a record is not the 64 bytes of two hashes.  Two leaves of *)
(* a list may have the same record.  Positions count from 1.               *)
(***************************************************************************)
EXTENDS Integers, Sequences

CONSTANTS
  Records,         \* audit records
  MaxLeaves        \* bound: leaves in a batch

ASSUME LeavesAssumption == MaxLeaves \in Nat

VARIABLES
  leaves,          \* the batch, in the order of flush()
  index,           \* the leaf compute_proof is asked about
  candidate,       \* the leaf hash verify_proof is asked about
  phase,           \* the loop that is running
  level,           \* compute_root, compute_proof: the current level of the tree
  root,            \* what compute_root returned
  pos,             \* compute_proof: position of the node on the way up
  proof,           \* compute_proof: the siblings so far
  current, step,   \* verify_proof: hash so far, next sibling
  verdict,         \* what verify_proof returned
  levels, path     \* history: compute_root's levels, compute_proof's nodes

vars == <<leaves, index, candidate, phase, level, root, pos, proof,
          current, step, verdict, levels, path>>

-----------------------------------------------------------------------------

\* leaf_hash, and _hash_pair, which sorts its arguments.
LeafHash(record) == [kind |-> "leaf", of |-> record]
HashPairMutant(left, right) == [kind |-> "node", of |-> <<left, right>>]
HashPair(left, right) == [kind |-> "node", of |-> {left, right}]

Leaf == {LeafHash(record) : record \in Records}

\* An odd level is extended by its last node.
Padded(nodes) ==
  IF Len(nodes) % 2 = 1 THEN Append(nodes, nodes[Len(nodes)]) ELSE nodes

NextLevelMutant(nodes) ==
  [i \in 1..(Len(nodes) \div 2) |-> HashPair(nodes[2*i - 1], nodes[2*i])]

NextLevel(nodes) ==
  [i \in 1..((Len(nodes) + 1) \div 2) |-> HashPair(Padded(nodes)[2*i - 1], Padded(nodes)[2*i])]

\* pos ^ 1 and pos // 2.
Sibling(p) == IF p % 2 = 1 THEN p + 1 ELSE p - 1
ParentMutant(p) == p \div 2
Parent(p)  == (p + 1) \div 2

-----------------------------------------------------------------------------

RootStep ==
  /\ phase = "root" /\ Len(level) > 1
  /\ level' = NextLevel(level)
  /\ levels' = Append(levels, NextLevel(level))
  /\ UNCHANGED <<leaves, index, candidate, phase, root, pos, proof, current, step, verdict, path>>

RootDone ==
  /\ phase = "root" /\ Len(level) <= 1
  /\ root' = level[1]
  /\ phase' = "proof"
  /\ level' = leaves
  /\ UNCHANGED <<leaves, index, candidate, pos, proof, current, step, verdict, levels, path>>

ProofStep ==
  /\ phase = "proof" /\ Len(level) > 1
  /\ LET sibling == Padded(level)[Sibling(pos)]
     IN /\ proof' = Append(proof, sibling)
        /\ path' = Append(path, HashPair(level[pos], sibling))
  /\ level' = NextLevel(Padded(level))
  /\ pos' = Parent(pos)
  /\ UNCHANGED <<leaves, index, candidate, phase, root, current, step, verdict, levels>>

ProofDone ==
  /\ phase = "proof" /\ Len(level) <= 1
  /\ phase' = "verify"
  /\ current' = candidate
  /\ UNCHANGED <<leaves, index, candidate, level, root, pos, proof, step, verdict, levels, path>>

VerifyStep ==
  /\ phase = "verify" /\ step <= Len(proof)
  /\ current' = HashPair(current, proof[step])
  /\ step' = step + 1
  /\ UNCHANGED <<leaves, index, candidate, phase, level, root, pos, proof, verdict, levels, path>>

VerifyDone ==
  /\ phase = "verify" /\ step > Len(proof)
  /\ verdict' = (current = root)
  /\ phase' = "end"
  /\ UNCHANGED <<leaves, index, candidate, level, root, pos, proof, current, step, levels, path>>

-----------------------------------------------------------------------------

Lists == UNION {[1..n -> Leaf] : n \in 1..MaxLeaves}

Init ==
  /\ leaves \in Lists
  /\ index \in 1..Len(leaves)
  /\ candidate \in Leaf
  /\ phase = "root"
  /\ level = leaves
  /\ root = candidate
  /\ pos = index
  /\ proof = << >>
  /\ current = candidate
  /\ step = 1
  /\ verdict = FALSE
  /\ levels = <<leaves>>
  /\ path = <<leaves[index]>>

Next == RootStep \/ RootDone \/ ProofStep \/ ProofDone \/ VerifyStep \/ VerifyDone

Spec == Init /\ [][Next]_vars

-----------------------------------------------------------------------------
(* Properties *)

\* A stored proof verifies against the root exactly the leaf hash it was made
\* for, wherever the leaf is in a batch of any size: odd levels, repeated leaves
\* and sorted siblings neither refuse the true leaf nor let another one through.
ProofsVerifyTheirLeaf ==
  phase = "end" => (verdict <=> candidate = leaves[index])

\* compute_root as a function of its list: the levels above it, and the first of
\* them that is a single node.
LevelsOf(list) ==
  LET Level[n \in Nat] == IF n = 0 THEN list ELSE NextLevel(Level[n - 1]) IN Level

Height(list) ==
  CHOOSE n \in 0..Len(list) : /\ Len(LevelsOf(list)[n]) = 1
                              /\ \A m \in 0..n - 1 : Len(LevelsOf(list)[m]) > 1

RootOf(list) == LevelsOf(list)[Height(list)][1]

\* The leaf hashes, or nodes, that are in a list.
Nodes(list) == {list[i] : i \in DOMAIN list}

\* The root commits to the records of the batch: another list of leaves with the
\* same root, of whatever length, holds the same leaves.
RootCommits ==
  phase = "proof" /\ level = leaves =>
    \A other \in Lists : RootOf(other) = root => Nodes(other) = Nodes(leaves)

-----------------------------------------------------------------------------
(* The inductive invariant *)

IsList(s) == s \in Seq(Nodes(s))

\* Every variable has its type; a node is a set of nodes of the level below.
TypeOK ==
  /\ leaves \in Lists /\ IsList(leaves)
  /\ index \in 1..Len(leaves)
  /\ phase \in {"root", "proof", "verify", "end"}
  /\ IsList(level) /\ Len(level) > 0
  /\ pos \in Nat
  /\ IsList(proof)
  /\ step \in 1..Len(proof) + 1
  /\ verdict \in BOOLEAN
  /\ IsList(levels) /\ Len(levels) > 0
  /\ IsList(path) /\ Len(path) = Len(proof) + 1

\* compute_root's levels start with the leaves, and each is hashed into the next.
LevelsChain ==
  /\ levels[1] = leaves
  /\ \A i \in 1..Len(levels) - 1 :
       Len(levels[i]) > 1 /\ levels[i + 1] = NextLevel(levels[i])
  /\ IF phase = "root"
     THEN level = levels[Len(levels)]
     ELSE /\ Len(levels[Len(levels)]) = 1
          /\ root = levels[Len(levels)][1]

\* compute_proof climbs the same levels; hashing its nodes with its siblings, in
\* order, leads from the leaf to the node it stands on, in the end to the root.
PathClimbs ==
  /\ path[1] = leaves[index]
  /\ \A i \in 1..Len(proof) : path[i + 1] = HashPair(path[i], proof[i])
  /\ phase = "root" => proof = << >> /\ pos = index
  /\ phase = "proof" => /\ Len(proof) < Len(levels)
                        /\ level = levels[Len(proof) + 1]
                        /\ pos \in 1..Len(level)
                        /\ path[Len(path)] = level[pos]
  /\ phase \in {"verify", "end"} => path[Len(path)] = root

\* verify_proof is on that path exactly when it began with the true leaf.
VerifierFollows ==
  /\ phase \in {"root", "proof"} => step = 1
  /\ phase \in {"verify", "end"} => (current = path[step] <=> candidate = leaves[index])
  /\ phase = "end" => /\ step = Len(proof) + 1
                      /\ verdict <=> current = root

\* The parts above together are inductive.
MerkleInv == TypeOK /\ LevelsChain /\ PathClimbs /\ VerifierFollows
=============================================================================
