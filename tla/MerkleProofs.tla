---------------------------- MODULE MerkleProofs ----------------------------
(***************************************************************************)
(* For batches of any size: a proof of compute_proof verifies exactly the  *)
(* leaf it was made for, a root determines the leaves under it, and the    *)
(* loops end.  MerkleInv is inductive (lemmas Start and Step).             *)
(***************************************************************************)
EXTENDS Merkle, WellFoundedInduction, TLAPS

\* A set of numbers that is not empty has a least one.
LEMMA LeastNumber ==
  ASSUME NEW T \in SUBSET Nat, T # {}
  PROVE  \E n \in T : \A m \in T : n <= m
<1>1. PICK n \in T : \A m \in T : ~(<<m, n>> \in OpToRel(<, Nat))
  BY NatLessThanWellFounded, WFMin
<1>2. \A m \in T : ~(m < n)
  BY <1>1 DEF OpToRel
<1> QED
  BY <1>2

\* Induction: a set of numbers with 0 that is closed under successor is all of them.
LEMMA Induction ==
  ASSUME NEW T \in SUBSET Nat, 0 \in T, \A n \in T : n + 1 \in T
  PROVE  T = Nat
<1> SUFFICES ASSUME Nat \ T # {} PROVE FALSE
  OBVIOUS
<1>1. PICK n \in Nat \ T : \A m \in Nat \ T : n <= m
  BY LeastNumber
<1>2. n - 1 \in Nat /\ n - 1 \in T
  BY <1>1
<1> QED
  BY <1>1, <1>2

\* A sequence over any set is a list of its own elements.
LEMMA SeqIsList ==
  ASSUME NEW S, NEW s \in Seq(S)
  PROVE  IsList(s)
<1>1. s \in [1..Len(s) -> Nodes(s)] /\ Len(s) \in Nat
  BY DEF Nodes
<1> QED
  BY <1>1 DEF IsList

\* Appending to a list makes a list, one longer, that keeps its elements.
LEMMA AppendList ==
  ASSUME NEW s, NEW e, IsList(s)
  PROVE  /\ IsList(Append(s, e))
         /\ Len(Append(s, e)) = Len(s) + 1
         /\ Len(s) \in Nat
         /\ Append(s, e)[Len(s) + 1] = e
         /\ \A i \in 1..Len(s) : Append(s, e)[i] = s[i]
<1> DEFINE S == Nodes(s) \cup {e}
<1>1. s \in Seq(S) /\ e \in S
  BY DEF IsList
<1> HIDE DEF S
<1>2. Append(s, e) \in Seq(S)
  BY <1>1
<1>3. IsList(Append(s, e))
  BY <1>2, SeqIsList
<1>4. /\ Len(Append(s, e)) = Len(s) + 1
      /\ Len(s) \in Nat
      /\ Append(s, e)[Len(s) + 1] = e
      /\ \A i \in 1..Len(s) : Append(s, e)[i] = s[i]
  BY <1>1
<1> QED
  BY <1>3, <1>4

\* What _next_level returns: a shorter list, at least one node, in which the
\* parent of each node is the hash of the node and its sibling.
LEMMA NextLevelFacts ==
  ASSUME NEW nodes, IsList(nodes), Len(nodes) > 0
  PROVE  /\ IsList(NextLevel(nodes))
         /\ Len(NextLevel(nodes)) = (Len(nodes) + 1) \div 2
         /\ Len(NextLevel(nodes)) > 0
         /\ NextLevel(Padded(nodes)) = NextLevel(nodes)
         /\ \A p \in 1..Len(nodes) :
              /\ Parent(p) \in 1..Len(NextLevel(nodes))
              /\ NextLevel(nodes)[Parent(p)] = HashPair(nodes[p], Padded(nodes)[Sibling(p)])
<1> DEFINE n == Len(nodes)
           m == (n + 1) \div 2
           P == Padded(nodes)
           S == {NextLevel(nodes)[i] : i \in 1..m}
<1>1. n \in Nat /\ n > 0 /\ m \in Nat /\ m > 0
  BY DEF IsList
<1>2. DOMAIN NextLevel(nodes) = 1..m
  BY DEF NextLevel
<1>3. NextLevel(nodes) \in [1..m -> S]
  BY <1>2 DEF NextLevel
<1>4. NextLevel(nodes) \in Seq(S) /\ Len(NextLevel(nodes)) = m
  BY <1>1, <1>3
<1>5. IsList(P) /\ Len(P) = 2 * m /\ \A i \in 1..n : P[i] = nodes[i]
  BY <1>1, AppendList DEF Padded
<1>6. Padded(P) = P
  <2>1. Len(P) % 2 # 1
    BY <1>1, <1>5
  <2> HIDE DEF P
  <2> QED
    BY <2>1 DEF Padded
<1>7. (Len(P) + 1) \div 2 = m
  BY <1>1, <1>5
<1>8. NextLevel(P) = NextLevel(nodes)
  BY <1>6, <1>7 DEF NextLevel
<1>9. ASSUME NEW p \in 1..n
      PROVE  /\ Parent(p) \in 1..m
             /\ NextLevel(nodes)[Parent(p)] = HashPair(nodes[p], P[Sibling(p)])
  <2>1. Parent(p) \in 1..m
    BY <1>1 DEF Parent
  <2>2. NextLevel(nodes)[Parent(p)] = HashPair(P[2*Parent(p) - 1], P[2*Parent(p)])
    BY <2>1 DEF NextLevel
  <2>3. CASE p % 2 = 1
    <3>1. 2*Parent(p) - 1 = p /\ 2*Parent(p) = Sibling(p)
      BY <1>1, <2>3 DEF Parent, Sibling
    <3> QED
      BY <2>1, <2>2, <3>1, <1>5
  <2>4. CASE p % 2 # 1
    <3>1. 2*Parent(p) = p /\ 2*Parent(p) - 1 = Sibling(p)
      BY <1>1, <2>4 DEF Parent, Sibling
    <3> QED
      BY <2>1, <2>2, <3>1, <1>5 DEF HashPair
  <2> QED
    BY <2>1, <2>3, <2>4
<1> QED
  BY <1>1, <1>4, <1>8, <1>9, SeqIsList

\* Hashes of pairs that share a sibling are equal only for equal nodes.
LEMMA HashPairCancels ==
  ASSUME NEW a, NEW b, NEW s
  PROVE  HashPair(a, s) = HashPair(b, s) <=> a = b
BY DEF HashPair

\* The loops start on an initial state of the invariant.
LEMMA Start == Init => MerkleInv
<1> SUFFICES ASSUME Init PROVE MerkleInv
  OBVIOUS
<1>1. PICK n \in 1..MaxLeaves : leaves \in [1..n -> Leaf]
  BY DEF Init, Lists
<1>2. n \in Nat /\ n > 0 /\ leaves \in Seq(Leaf) /\ Len(leaves) = n
  BY <1>1, LeavesAssumption
<1>3. IsList(leaves) /\ leaves[index] \in Leaf
  BY <1>2, SeqIsList DEF Init
<1>4. <<leaves>> \in Seq({leaves}) /\ <<leaves[index]>> \in Seq(Leaf) /\ << >> \in Seq(Leaf)
  BY <1>3
<1>5. IsList(levels) /\ IsList(path) /\ IsList(proof)
  <2>1. levels = <<leaves>> /\ path = <<leaves[index]>> /\ proof = << >>
    BY DEF Init
  <2> QED
    BY <2>1, <1>4, SeqIsList
<1>6. TypeOK
  <2>1. Len(levels) = 1 /\ Len(path) = 1 /\ Len(proof) = 0
    BY DEF Init
  <2>2. IsList(level) /\ Len(level) > 0 /\ pos \in Nat /\ index \in 1..Len(leaves)
    BY <1>2, <1>3 DEF Init
  <2>3. /\ phase \in {"root", "proof", "verify", "end"}
        /\ step \in 1..Len(proof) + 1
    BY <2>1 DEF Init
  <2>4. verdict \in BOOLEAN
    BY Zenon DEF Init
  <2> QED
    BY <1>3, <1>5, <2>1, <2>2, <2>3, <2>4 DEF TypeOK, Init
<1>7. LevelsChain /\ PathClimbs /\ VerifierFollows
  <2>1. /\ levels = <<leaves>> /\ path = <<leaves[index]>> /\ proof = << >>
        /\ Len(levels) = 1 /\ Len(path) = 1 /\ Len(proof) = 0
    BY DEF Init
  <2>2. phase = "root" /\ level = leaves /\ pos = index /\ step = 1
    BY DEF Init
  <2>3. LevelsChain
    BY <2>1, <2>2 DEF LevelsChain
  <2>4. PathClimbs
    BY <2>1, <2>2 DEF PathClimbs
  <2> QED
    BY <2>2, <2>3, <2>4 DEF VerifierFollows
<1> QED
  BY <1>6, <1>7 DEF MerkleInv

\* Every step of the three loops preserves the invariant.
LEMMA Step == MerkleInv /\ [Next]_vars => MerkleInv'
<1> SUFFICES ASSUME MerkleInv, [Next]_vars PROVE MerkleInv'
  OBVIOUS
<1> USE DEF MerkleInv
<1>0. /\ Len(leaves) \in Nat /\ Len(level) \in Nat /\ Len(levels) \in Nat
      /\ Len(proof) \in Nat /\ Len(path) \in Nat /\ Len(leaves) > 0 /\ Len(level) > 0
  BY DEF TypeOK, IsList
<1>1. CASE RootStep
  <2> USE <1>1 DEF RootStep
  <2>1. /\ IsList(level') /\ Len(level') > 0
        /\ IsList(levels') /\ Len(levels') = Len(levels) + 1
        /\ levels'[Len(levels) + 1] = NextLevel(level)
        /\ \A i \in 1..Len(levels) : levels'[i] = levels[i]
    BY NextLevelFacts, AppendList DEF TypeOK
  <2>2. TypeOK'
    BY <2>1, <1>0 DEF TypeOK
  <2>3. LevelsChain'
    <3>1. levels'[1] = leaves' /\ phase' = "root" /\ level' = levels'[Len(levels')]
      BY <2>1, <1>0 DEF LevelsChain, TypeOK
    <3>2. ASSUME NEW i \in 1..Len(levels') - 1
          PROVE  Len(levels'[i]) > 1 /\ levels'[i + 1] = NextLevel(levels'[i])
      <4>1. CASE i < Len(levels)
        BY <4>1, <2>1, <1>0 DEF LevelsChain
      <4>2. CASE i = Len(levels)
        BY <4>2, <2>1, <1>0 DEF LevelsChain
      <4> QED
        BY <4>1, <4>2, <2>1, <1>0
    <3> QED
      BY <3>1, <3>2 DEF LevelsChain
  <2>4. PathClimbs' /\ VerifierFollows'
    BY DEF PathClimbs, VerifierFollows
  <2> QED
    BY <2>2, <2>3, <2>4
<1>2. CASE RootDone
  <2> USE <1>2 DEF RootDone
  <2>1. TypeOK'
    BY <1>0 DEF TypeOK
  <2>2. LevelsChain'
    <3>1. level = levels[Len(levels)] /\ Len(level) = 1
      <4>1. Len(level) = 1
        <5>1. Len(level) \in Nat /\ Len(level) > 0 /\ Len(level) <= 1
          BY <1>0
        <5>2. \A n \in Nat : n > 0 /\ n <= 1 => n = 1
          OBVIOUS
        <5> QED
          BY <5>1, <5>2
      <4>2. level = levels[Len(levels)]
        BY DEF LevelsChain
      <4> QED
        BY <4>1, <4>2
    <3>2. phase' # "root" /\ root' = level[1] /\ levels' = levels /\ leaves' = leaves
      OBVIOUS
    <3> QED
      BY <3>1, <3>2 DEF LevelsChain
  <2>3. PathClimbs'
    <3>1. /\ phase' = "proof" /\ level' = leaves
          /\ UNCHANGED <<leaves, index, pos, proof, levels, path>>
      OBVIOUS
    <3>2. proof = << >> /\ pos = index /\ levels[1] = leaves /\ path[1] = leaves[index]
      BY DEF PathClimbs, LevelsChain
    <3>3. Len(proof) = 0 /\ Len(path) = 1 /\ 0 < Len(levels) /\ index \in 1..Len(leaves)
      BY <3>2 DEF TypeOK
    <3> QED
      BY <3>1, <3>2, <3>3 DEF PathClimbs
  <2>4. VerifierFollows'
    BY DEF VerifierFollows
  <2> QED
    BY <2>1, <2>2, <2>3, <2>4
<1>3. CASE ProofStep
  <2> DEFINE sibling == Padded(level)[Sibling(pos)]
             node == HashPair(level[pos], sibling)
  <2>1. /\ phase = "proof" /\ phase' = "proof" /\ Len(level) > 1
        /\ proof' = Append(proof, sibling) /\ path' = Append(path, node)
        /\ level' = NextLevel(Padded(level)) /\ pos' = Parent(pos)
        /\ UNCHANGED <<leaves, index, candidate, root, current, step, verdict, levels>>
    BY <1>3 DEF ProofStep
  <2> HIDE DEF sibling
  <2> HIDE DEF node
  <2>2. /\ IsList(proof') /\ Len(proof') = Len(proof) + 1
        /\ proof'[Len(proof) + 1] = sibling
        /\ \A i \in 1..Len(proof) : proof'[i] = proof[i]
    BY <2>1, AppendList DEF TypeOK
  <2>3. /\ IsList(path') /\ Len(path') = Len(path) + 1
        /\ path'[Len(path) + 1] = node
        /\ \A i \in 1..Len(path) : path'[i] = path[i]
    BY <2>1, AppendList DEF TypeOK
  <2>4. pos \in 1..Len(level) /\ path[Len(path)] = level[pos] /\ Len(proof) < Len(levels)
    BY <2>1 DEF PathClimbs
  <2>5. /\ IsList(level') /\ Len(level') > 0 /\ level' = NextLevel(level)
        /\ pos' \in 1..Len(level') /\ level'[pos'] = node
    BY <2>1, <2>4, NextLevelFacts DEF TypeOK, sibling, node
  <2>6. Len(level') \in Nat
    BY <2>5 DEF IsList
  <2>7. TypeOK'
    BY <2>1, <2>2, <2>3, <2>5, <2>6, <1>0 DEF TypeOK
  <2>8. LevelsChain'
    BY <2>1 DEF LevelsChain
  <2>9. level = levels[Len(proof) + 1] /\ Len(proof) + 1 # Len(levels)
    <3>1. level = levels[Len(proof) + 1]
      BY <2>1 DEF PathClimbs
    <3>2. Len(levels[Len(levels)]) = 1
      BY <2>1 DEF LevelsChain
    <3>3. Len(proof) + 1 # Len(levels)
      <4> SUFFICES ASSUME Len(proof) + 1 = Len(levels) PROVE FALSE
        OBVIOUS
      <4>1. Len(level) = 1
        BY <3>1, <3>2
      <4> QED
        BY <4>1, <2>1
    <3> QED
      BY <3>1, <3>3
  <2>10. level' = levels'[Len(proof') + 1] /\ Len(proof') < Len(levels')
    <3>1. Len(proof) + 1 \in 1..Len(levels) - 1
      BY <2>4, <2>9, <1>0
    <3>2. levels[Len(proof) + 1 + 1] = NextLevel(levels[Len(proof) + 1])
      BY <3>1 DEF LevelsChain
    <3> QED
      BY <3>1, <3>2, <2>1, <2>2, <2>5, <2>9, <1>0
  <2>11. PathClimbs'
    <3>1. path'[1] = leaves'[index']
      BY <2>1, <2>3, <1>0 DEF PathClimbs, TypeOK
    <3>2. ASSUME NEW i \in 1..Len(proof')
          PROVE  path'[i + 1] = HashPair(path'[i], proof'[i])
      <4>1. CASE i <= Len(proof)
        BY <4>1, <2>2, <2>3, <1>0 DEF PathClimbs, TypeOK
      <4>2. CASE i = Len(proof) + 1
        BY <4>2, <2>2, <2>3, <2>4, <1>0 DEF TypeOK, node
      <4> QED
        BY <4>1, <4>2, <2>2, <1>0
    <3>3. path'[Len(path')] = level'[pos']
      BY <2>3, <2>5
    <3> QED
      BY <3>1, <3>2, <3>3, <2>1, <2>5, <2>10 DEF PathClimbs
  <2>12. VerifierFollows'
    BY <2>1 DEF VerifierFollows
  <2> QED
    BY <2>7, <2>8, <2>11, <2>12
<1>4. CASE ProofDone
  <2> USE <1>4 DEF ProofDone
  <2>1. TypeOK'
    BY <1>0 DEF TypeOK
  <2>2. LevelsChain'
    BY DEF LevelsChain
  <2>3. PathClimbs'
    <3>1. Len(proof) + 1 = Len(levels)
      <4>1. CASE Len(proof) + 1 < Len(levels)
        BY <4>1, <1>0 DEF PathClimbs, LevelsChain
      <4> QED
        BY <4>1, <1>0 DEF PathClimbs
    <3>2. path[Len(path)] = root
      BY <3>1, <1>0 DEF PathClimbs, LevelsChain
    <3> QED
      BY <3>2 DEF PathClimbs
  <2>4. VerifierFollows'
    BY DEF VerifierFollows, PathClimbs
  <2> QED
    BY <2>1, <2>2, <2>3, <2>4
<1>5. CASE VerifyStep
  <2> USE <1>5 DEF VerifyStep
  <2>1. TypeOK'
    BY <1>0 DEF TypeOK
  <2>2. LevelsChain' /\ PathClimbs'
    BY DEF LevelsChain, PathClimbs
  <2>3. current' = path'[step'] <=> candidate = leaves[index]
    <3>1. path[step + 1] = HashPair(path[step], proof[step])
      BY <1>0 DEF PathClimbs, TypeOK
    <3>2. current' = path'[step'] <=> current = path[step]
      BY <3>1, HashPairCancels
    <3> QED
      BY <3>2 DEF VerifierFollows
  <2>4. VerifierFollows'
    BY <2>3 DEF VerifierFollows
  <2> QED
    BY <2>1, <2>2, <2>4
<1>6. CASE VerifyDone
  <2> USE <1>6 DEF VerifyDone
  <2>1. TypeOK'
    BY <1>0 DEF TypeOK
  <2>2. LevelsChain' /\ PathClimbs'
    BY DEF LevelsChain, PathClimbs
  <2>3. VerifierFollows'
    <3>1. /\ phase = "verify" /\ phase' = "end" /\ verdict' = (current = root)
          /\ UNCHANGED <<leaves, index, candidate, root, proof, current, step, path>>
      OBVIOUS
    <3>2. step = Len(proof) + 1
      BY <1>0 DEF TypeOK
    <3>3. verdict' <=> current' = root'
      BY <3>1, Zenon
    <3>4. current' = path'[step'] <=> candidate' = leaves'[index']
      BY <3>1 DEF VerifierFollows
    <3> QED
      BY <3>1, <3>2, <3>3, <3>4 DEF VerifierFollows
  <2> QED
    BY <2>1, <2>2, <2>3
<1>7. CASE UNCHANGED vars
  <2>1. TypeOK' /\ LevelsChain' /\ PathClimbs' /\ VerifierFollows'
    BY <1>7 DEF vars, TypeOK, IsList, LevelsChain, PathClimbs, VerifierFollows
  <2> QED
    BY <2>1
<1> QED
  BY <1>1, <1>2, <1>3, <1>4, <1>5, <1>6, <1>7 DEF Next

\* The invariant holds of every reachable state.
THEOREM Invariance == Spec => []MerkleInv
BY Start, Step, PTL DEF Spec

\* /api/verify of a leaf with the proof stored for it says TRUE exactly when the
\* leaf is the one the proof was made for, for batches of any size.
THEOREM StoredProofsVerify == Spec => []ProofsVerifyTheirLeaf
<1>1. MerkleInv => ProofsVerifyTheirLeaf
  BY DEF MerkleInv, TypeOK, IsList, PathClimbs, VerifierFollows, ProofsVerifyTheirLeaf
<1> QED
  BY <1>1, Invariance, PTL

-----------------------------------------------------------------------------
(* A root determines its leaves *)

\* The levels above a list: the list, and each level's next.  (That the recursion defines
\* a function is itself an induction: there is one up to each level, and they agree.)
LEMMA LevelsAreDefined ==
  ASSUME NEW list
  PROVE  LevelsOf(list) = [n \in Nat |-> IF n = 0 THEN list ELSE NextLevel(LevelsOf(list)[n - 1])]
<1> DEFINE Body(f, n) == IF n = 0 THEN list ELSE NextLevel(f[n - 1])
           Upto(f, n) == f = [i \in 0..n |-> Body(f, i)]
           Reached    == {n \in Nat : \E f : Upto(f, n)}
           Some(n)    == CHOOSE f : Upto(f, n)
           All        == [n \in Nat |-> Some(n)[n]]
<1>1. Reached = Nat
  <2>1. Upto([i \in 0..0 |-> list], 0)
    OBVIOUS
  <2>2. 0 \in Reached
    BY <2>1
  <2>3. ASSUME NEW n \in Reached PROVE n + 1 \in Reached
    <3>1. PICK f : Upto(f, n)
      OBVIOUS
    <3> DEFINE g == [i \in 0..n + 1 |-> IF i = n + 1 THEN NextLevel(f[n]) ELSE f[i]]
    <3>2. ASSUME NEW i \in 0..n + 1 PROVE g[i] = Body(g, i)
      <4>1. CASE i = n + 1
        BY <4>1
      <4>2. CASE i # n + 1
        <5>1. i \in 0..n /\ f[i] = Body(f, i)
          BY <4>2, <3>1
        <5>2. g[i] = f[i] /\ (i # 0 => g[i - 1] = f[i - 1])
          BY <5>1
        <5> QED
          BY <5>1, <5>2
      <4> QED
        BY <4>1, <4>2
    <3>3. Upto(g, n + 1)
      BY <3>2
    <3> HIDE DEF g
    <3>4. n + 1 \in Nat
      OBVIOUS
    <3> HIDE DEF Upto
    <3> QED
      BY <3>3, <3>4
  <2> HIDE DEF Reached
  <2>4. Reached \in SUBSET Nat
    BY DEF Reached
  <2> QED
    BY <2>2, <2>3, <2>4, Induction
<1>2. \A n \in Nat : Upto(Some(n), n)
  BY <1>1
<1> HIDE DEF Some
<1>3. ASSUME NEW n \in Nat, NEW m \in n..n + 1
      PROVE  Some(m)[n] = Some(n)[n]
  <2> DEFINE Same == {i \in Nat : i <= n => Some(m)[i] = Some(n)[i]}
  <2>1. ASSUME NEW i \in 0..n
        PROVE  Some(m)[i] = Body(Some(m), i) /\ Some(n)[i] = Body(Some(n), i)
    <3>1. Upto(Some(m), m) /\ Upto(Some(n), n)
      <4> HIDE DEF Upto
      <4> QED
        BY <1>2
    <3>2. i \in 0..m
      OBVIOUS
    <3> QED
      BY <3>1, <3>2
  <2>2. 0 \in Same
    BY <2>1
  <2>3. ASSUME NEW i \in Same PROVE i + 1 \in Same
    <3> SUFFICES ASSUME i + 1 <= n PROVE Some(m)[i + 1] = Some(n)[i + 1]
      OBVIOUS
    <3>1. Some(m)[i] = Some(n)[i]
      OBVIOUS
    <3>2. i + 1 \in 0..n /\ i + 1 # 0 /\ i + 1 - 1 = i
      OBVIOUS
    <3> QED
      BY <3>1, <3>2, <2>1
  <2> HIDE DEF Same
  <2>4. Same \in SUBSET Nat
    BY DEF Same
  <2>5. Same = Nat
    BY <2>2, <2>3, <2>4, Induction
  <2> QED
    BY <2>5 DEF Same
<1>4. ASSUME NEW n \in Nat PROVE All[n] = Body(All, n)
  <2>1. Some(n)[n] = Body(Some(n), n)
    BY <1>2
  <2>2. CASE n = 0
    BY <2>1, <2>2
  <2>3. CASE n # 0
    <3>1. n - 1 \in Nat /\ n \in n - 1..n - 1 + 1
      BY <2>3
    <3>2. Some(n)[n - 1] = Some(n - 1)[n - 1]
      BY <3>1, <1>3
    <3> QED
      BY <2>1, <2>3, <3>1, <3>2
  <2> QED
    BY <2>2, <2>3
<1>5. All = [n \in Nat |-> Body(All, n)]
  <2> HIDE DEF Body
  <2> QED
    BY <1>4
<1> QED
  BY <1>5 DEF LevelsOf

\* Every level above a list is a list with a node in it, the next of the one below.
LEMMA LevelFacts ==
  ASSUME NEW list, IsList(list), Len(list) > 0
  PROVE  LET L == LevelsOf(list)
         IN  /\ L[0] = list
             /\ \A n \in Nat : L[n + 1] = NextLevel(L[n]) /\ IsList(L[n]) /\ Len(L[n]) > 0
<1> DEFINE L == LevelsOf(list)
           Fine == {n \in Nat : IsList(L[n]) /\ Len(L[n]) > 0}
<1>1. L[0] = list /\ \A n \in Nat : L[n + 1] = NextLevel(L[n])
  <2> DEFINE R == [n \in Nat |-> IF n = 0 THEN list ELSE NextLevel(L[n - 1])]
  <2>1. L = R
    BY LevelsAreDefined
  <2>2. R[0] = list /\ \A n \in Nat : R[n + 1] = NextLevel(L[n])
    OBVIOUS
  <2> HIDE DEF L, R
  <2> QED
    BY <2>1, <2>2
<1> HIDE DEF L
<1>2. 0 \in Fine
  BY <1>1
<1>3. ASSUME NEW n \in Fine PROVE n + 1 \in Fine
  <2>1. n \in Nat /\ IsList(L[n]) /\ Len(L[n]) > 0
    OBVIOUS
  <2>2. L[n + 1] = NextLevel(L[n]) /\ n + 1 \in Nat
    BY <1>1, <2>1
  <2>3. IsList(L[n + 1]) /\ Len(L[n + 1]) > 0
    BY <2>1, <2>2, NextLevelFacts
  <2> QED
    BY <2>2, <2>3
<1>4. Fine = Nat
  <2> HIDE DEF Fine
  <2>1. Fine \in SUBSET Nat
    BY DEF Fine
  <2> QED
    BY <1>2, <1>3, <2>1, Induction
<1> QED
  BY <1>1, <1>4 DEF L

\* A level that is not a single node is longer than the next: some level is one, and the
\* lowest such level is what compute_root ends on.
LEMMA HeightFacts ==
  ASSUME NEW list, IsList(list), Len(list) > 0
  PROVE  /\ Height(list) \in 0..Len(list)
         /\ Len(LevelsOf(list)[Height(list)]) = 1
         /\ \A m \in 0..Height(list) - 1 : Len(LevelsOf(list)[m]) > 1
<1> DEFINE L == LevelsOf(list)
           Single == {m \in Nat : Len(L[m]) = 1}
           Short  == {n \in Nat : (\E m \in 0..n : m \in Single) \/ Len(L[n]) + n <= Len(list)}
<1>0. L[0] = list /\ \A n \in Nat : L[n + 1] = NextLevel(L[n]) /\ IsList(L[n]) /\ Len(L[n]) > 0
  BY LevelFacts
<1> HIDE DEF L
<1>1. L[0] = list /\ Len(list) \in Nat
  BY <1>0 DEF IsList
<1>2. \A n \in Nat : /\ Len(L[n]) \in Nat /\ Len(L[n]) > 0
                     /\ Len(L[n + 1]) = (Len(L[n]) + 1) \div 2
  <2> TAKE n \in Nat
  <2>1. IsList(L[n]) /\ Len(L[n]) > 0 /\ L[n + 1] = NextLevel(L[n])
    BY <1>0
  <2>2. Len(L[n]) \in Nat
    BY <2>1 DEF IsList
  <2>3. Len(NextLevel(L[n])) = (Len(L[n]) + 1) \div 2
    BY <2>1, NextLevelFacts
  <2> QED
    BY <2>1, <2>2, <2>3
<1>3. 0 \in Short
  BY <1>1
<1>4. ASSUME NEW n \in Short PROVE n + 1 \in Short
  <2>1. CASE \E m \in 0..n : m \in Single
    BY <2>1
  <2>2. CASE ~\E m \in 0..n : m \in Single
    <3>1. Len(L[n]) + n <= Len(list) /\ Len(L[n]) # 1
      BY <2>2
    <3>2. Len(L[n]) \in Nat /\ Len(L[n]) > 0 /\ Len(L[n + 1]) = (Len(L[n]) + 1) \div 2
      BY <1>2
    <3>3. \A k \in Nat : k > 0 /\ k # 1 => (k + 1) \div 2 + 1 <= k
      OBVIOUS
    <3>4. Len(L[n + 1]) + 1 <= Len(L[n]) /\ Len(L[n + 1]) \in Nat /\ n + 1 \in Nat
      <4>1. Len(L[n]) > 0 /\ Len(L[n]) # 1
        BY <3>1, <3>2
      <4>2. (Len(L[n]) + 1) \div 2 + 1 <= Len(L[n])
        BY <3>2, <3>3, <4>1
      <4>3. n + 1 \in Nat /\ Len(L[n + 1]) \in Nat
        <5>1. n + 1 \in Nat
          OBVIOUS
        <5> QED
          BY <1>2, <5>1
      <4> QED
        BY <3>2, <4>2, <4>3
    <3>5. Len(L[n + 1]) + (n + 1) <= Len(list)
      <4>1. \A a, b, c, k \in Nat : a + k <= c /\ b + 1 <= a => b + (k + 1) <= c
        OBVIOUS
      <4>2. Len(L[n]) \in Nat /\ Len(L[n + 1]) \in Nat /\ n \in Nat
        BY <3>2, <3>4
      <4> QED
        BY <1>1, <3>1, <3>4, <4>1, <4>2
    <3> HIDE DEF Single
    <3> QED
      BY <3>4, <3>5
  <2> QED
    BY <2>1, <2>2
<1> HIDE DEF Short
<1>5. Short = Nat
  <2>1. Short \in SUBSET Nat
    BY DEF Short
  <2> QED
    BY <1>3, <1>4, <2>1, Induction
<1>6. \E m \in 0..Len(list) : m \in Single
  <2>1. Len(list) \in Short
    BY <1>1, <1>5
  <2>2. ~(Len(L[Len(list)]) + Len(list) <= Len(list))
    <3>1. \A a, b \in Nat : a > 0 => ~(a + b <= b)
      OBVIOUS
    <3>2. Len(L[Len(list)]) \in Nat /\ Len(L[Len(list)]) > 0
      BY <1>1, <1>2
    <3> QED
      BY <1>1, <3>1, <3>2
  <2> HIDE DEF Single
  <2> QED
    BY <2>1, <2>2 DEF Short
<1>7. PICK h \in Single : \A m \in Single : h <= m
  <2>1. Single # {} /\ Single \in SUBSET Nat
    BY <1>6
  <2> HIDE DEF Single
  <2> QED
    BY <2>1, LeastNumber
<1>8. h \in 0..Len(list)
  BY <1>1, <1>6, <1>7
<1>9. \A m \in 0..h - 1 : Len(L[m]) > 1
  <2> TAKE m \in 0..h - 1
  <2>1. m \in Nat /\ ~(h <= m)
    BY <1>8
  <2>2. Len(L[m]) # 1
    BY <1>7, <2>1
  <2>3. Len(L[m]) \in Nat /\ Len(L[m]) > 0
    BY <1>2, <2>1
  <2>4. \A k \in Nat : k > 0 /\ k # 1 => k > 1
    OBVIOUS
  <2> QED
    BY <2>2, <2>3, <2>4
<1>10. /\ Height(list) \in 0..Len(list)
       /\ Len(L[Height(list)]) = 1 /\ \A m \in 0..Height(list) - 1 : Len(L[m]) > 1
  BY <1>7, <1>8, <1>9 DEF Height, L
<1> QED
  BY <1>10 DEF L

\* A node of the next level is the hash of nodes of this one, and of all of them.
LEMMA NodesBelow ==
  ASSUME NEW list, IsList(list), Len(list) > 0
  PROVE  /\ Nodes(list) = UNION {node.of : node \in Nodes(NextLevel(list))}
         /\ \A node \in Nodes(NextLevel(list)) : node.kind = "node"
<1> DEFINE n == Len(list)
           m == (n + 1) \div 2
           P == Padded(list)
<1>1. n \in Nat /\ n > 0 /\ DOMAIN list = 1..n /\ m \in Nat
  BY DEF IsList
<1>2. Nodes(NextLevel(list)) = {HashPair(P[2*i - 1], P[2*i]) : i \in 1..m}
  BY DEF Nodes, NextLevel
<1>3. \A i \in 1..2*m : P[i] \in Nodes(list)
  <2> TAKE i \in 1..2*m
  <2>1. CASE i <= n
    <3>1. P[i] = list[i] /\ i \in DOMAIN list
      BY <1>1, <2>1, AppendList DEF Padded
    <3> QED
      BY <3>1 DEF Nodes
  <2>2. CASE i > n
    <3>1. n % 2 = 1 /\ i = n + 1
      BY <1>1, <2>2
    <3>2. P[i] = list[n]
      BY <1>1, <3>1, AppendList DEF Padded
    <3> QED
      BY <1>1, <3>2 DEF Nodes
  <2> QED
    BY <1>1, <2>1, <2>2
<1>4. ASSUME NEW node \in Nodes(NextLevel(list))
      PROVE  node.kind = "node" /\ node.of \subseteq Nodes(list)
  <2>1. PICK i \in 1..m : node = HashPair(P[2*i - 1], P[2*i])
    BY <1>2
  <2>2. 2*i - 1 \in 1..2*m /\ 2*i \in 1..2*m
    BY <1>1
  <2>3. P[2*i - 1] \in Nodes(list) /\ P[2*i] \in Nodes(list)
    BY <1>3, <2>2
  <2> HIDE DEF P
  <2> QED
    BY <2>1, <2>3 DEF HashPair
<1>5. ASSUME NEW i \in 1..n
      PROVE  \E node \in Nodes(NextLevel(list)) : list[i] \in node.of
  <2>1. /\ Parent(i) \in 1..Len(NextLevel(list)) /\ IsList(NextLevel(list))
        /\ NextLevel(list)[Parent(i)] = HashPair(list[i], P[Sibling(i)])
    BY NextLevelFacts
  <2>2. NextLevel(list)[Parent(i)] \in Nodes(NextLevel(list))
    BY <2>1 DEF Nodes, IsList
  <2>3. list[i] \in HashPair(list[i], P[Sibling(i)]).of
    BY DEF HashPair
  <2> QED
    BY <2>1, <2>2, <2>3
<1> QED
  BY <1>1, <1>4, <1>5 DEF Nodes

\* The two ways a level compares with a single node exclude each other.
LEMMA OneIsNotMore ==
  ASSUME NEW k, k = 1, k > 1
  PROVE  FALSE
  OBVIOUS

\* compute_root ends on the first level that is a single node.
LEMMA HeightIsFirst ==
  ASSUME NEW list, IsList(list), Len(list) > 0, NEW n \in Nat,
         Len(LevelsOf(list)[n]) = 1, \A m \in 0..n - 1 : Len(LevelsOf(list)[m]) > 1
  PROVE  n = Height(list)
<1>1. /\ Height(list) \in Nat /\ Len(LevelsOf(list)[Height(list)]) = 1
      /\ \A m \in 0..Height(list) - 1 : Len(LevelsOf(list)[m]) > 1
  BY HeightFacts DEF IsList
<1>2. ASSUME n < Height(list) PROVE FALSE
  <2>1. n \in 0..Height(list) - 1
    BY <1>1, <1>2
  <2>2. Len(LevelsOf(list)[n]) > 1
    BY <1>1, <2>1
  <2> QED
    BY <2>2, OneIsNotMore
<1>3. ASSUME Height(list) < n PROVE FALSE
  <2>1. Height(list) \in 0..n - 1
    BY <1>1, <1>3
  <2>2. Len(LevelsOf(list)[Height(list)]) > 1
    BY <2>1
  <2> QED
    BY <1>1, <2>2, OneIsNotMore
<1> QED
  BY <1>1, <1>2, <1>3

\* A batch is a list of leaf hashes.
LEMMA BatchIsList ==
  ASSUME NEW list \in Lists
  PROVE  /\ IsList(list) /\ Len(list) > 0 /\ Nodes(list) # {}
         /\ \A leaf \in Nodes(list) : leaf.kind = "leaf"
<1>1. PICK n \in 1..MaxLeaves : list \in [1..n -> Leaf]
  BY DEF Lists
<1>2. n \in Nat /\ n > 0 /\ list \in Seq(Leaf) /\ Len(list) = n /\ DOMAIN list = 1..n
  BY <1>1, LeavesAssumption
<1>3. Nodes(list) \subseteq Leaf /\ list[1] \in Nodes(list)
  BY <1>1, <1>2 DEF Nodes
<1> QED
  BY <1>2, <1>3, SeqIsList DEF Leaf, LeafHash

\* The levels above a batch, up to its root.
LEMMA BatchLevels ==
  ASSUME NEW list \in Lists
  PROVE  /\ Height(list) \in Nat
         /\ IsList(LevelsOf(list)[Height(list)]) /\ Len(LevelsOf(list)[Height(list)]) = 1
         /\ LevelsOf(list)[0] = list
         /\ \A n \in Nat : /\ LevelsOf(list)[n + 1] = NextLevel(LevelsOf(list)[n])
                           /\ IsList(LevelsOf(list)[n]) /\ Len(LevelsOf(list)[n]) > 0
<1>1. IsList(list) /\ Len(list) > 0 /\ Len(list) \in Nat
  BY BatchIsList DEF IsList
<1>2. Height(list) \in Nat /\ Len(LevelsOf(list)[Height(list)]) = 1
  BY <1>1, HeightFacts
<1>3. /\ LevelsOf(list)[0] = list
      /\ \A n \in Nat : /\ LevelsOf(list)[n + 1] = NextLevel(LevelsOf(list)[n])
                        /\ IsList(LevelsOf(list)[n]) /\ Len(LevelsOf(list)[n]) > 0
  BY <1>1, LevelFacts
<1> QED
  BY <1>2, <1>3

\* Two lists with one root have, counted down from it, the same nodes on each level.
LEMMA SameNodes ==
  ASSUME NEW a \in Lists, NEW b \in Lists, RootOf(a) = RootOf(b),
         NEW j \in Nat, j <= Height(a), j <= Height(b)
  PROVE  Nodes(LevelsOf(a)[Height(a) - j]) = Nodes(LevelsOf(b)[Height(b) - j])
<1> DEFINE A == LevelsOf(a)
           B == LevelsOf(b)
           h == Height(a)
           k == Height(b)
           Same == {i \in Nat : i <= h /\ i <= k => Nodes(A[h - i]) = Nodes(B[k - i])}
<1>1. /\ h \in Nat /\ IsList(A[h]) /\ Len(A[h]) = 1
      /\ \A n \in Nat : A[n + 1] = NextLevel(A[n]) /\ IsList(A[n]) /\ Len(A[n]) > 0
  BY BatchLevels
<1>2. /\ k \in Nat /\ IsList(B[k]) /\ Len(B[k]) = 1
      /\ \A n \in Nat : B[n + 1] = NextLevel(B[n]) /\ IsList(B[n]) /\ Len(B[n]) > 0
  BY BatchLevels
<1>3. A[h][1] = B[k][1]
  BY DEF RootOf
<1> HIDE DEF A, B, h, k
<1>4. 0 \in Same
  <2>1. Nodes(A[h]) = {A[h][1]} /\ Nodes(B[k]) = {B[k][1]}
    BY <1>1, <1>2 DEF IsList, Nodes
  <2>2. h - 0 = h /\ k - 0 = k
    BY <1>1, <1>2
  <2> QED
    BY <1>3, <2>1, <2>2
<1>5. ASSUME NEW i \in Same PROVE i + 1 \in Same
  <2> SUFFICES ASSUME i + 1 <= h, i + 1 <= k
               PROVE  Nodes(A[h - (i + 1)]) = Nodes(B[k - (i + 1)])
    OBVIOUS
  <2>1. Nodes(A[h - i]) = Nodes(B[k - i])
    BY <1>1, <1>2
  <2>2. /\ h - (i + 1) \in Nat /\ h - (i + 1) + 1 = h - i
        /\ k - (i + 1) \in Nat /\ k - (i + 1) + 1 = k - i
    BY <1>1, <1>2
  <2>3. /\ A[h - i] = NextLevel(A[h - (i + 1)])
        /\ IsList(A[h - (i + 1)]) /\ Len(A[h - (i + 1)]) > 0
    BY <1>1, <2>2
  <2>4. /\ B[k - i] = NextLevel(B[k - (i + 1)])
        /\ IsList(B[k - (i + 1)]) /\ Len(B[k - (i + 1)]) > 0
    BY <1>2, <2>2
  <2> QED
    BY <2>1, <2>3, <2>4, NodesBelow
<1>6. j \in Same
  <2>1. Same \in SUBSET Nat
    OBVIOUS
  <2> HIDE DEF Same
  <2> QED
    BY <1>4, <1>5, <2>1, Induction
<1> QED
  BY <1>6 DEF A, B, h, k

\* They have the same height, too: a leaf hash is not the hash of a pair.
LEMMA NotLower ==
  ASSUME NEW a \in Lists, NEW b \in Lists, RootOf(a) = RootOf(b), Height(a) < Height(b)
  PROVE  FALSE
<1> DEFINE n == Height(b) - Height(a) - 1
<1>1. Height(a) \in Nat /\ Height(b) \in Nat /\ n \in Nat
  BY BatchIsList, HeightFacts DEF IsList
<1>2. Nodes(LevelsOf(a)[Height(a) - Height(a)]) = Nodes(LevelsOf(b)[Height(b) - Height(a)])
  BY <1>1, SameNodes
<1>3. Height(a) - Height(a) = 0 /\ Height(b) - Height(a) = n + 1
  BY <1>1
<1>4. LevelsOf(a)[0] = a
  BY BatchIsList, LevelFacts
<1>5. /\ LevelsOf(b)[n + 1] = NextLevel(LevelsOf(b)[n])
      /\ IsList(LevelsOf(b)[n]) /\ Len(LevelsOf(b)[n]) > 0
  BY <1>1, BatchIsList, LevelFacts
<1>6. Nodes(a) = Nodes(NextLevel(LevelsOf(b)[n]))
  BY <1>2, <1>3, <1>4, <1>5
<1>7. PICK leaf \in Nodes(a) : leaf.kind = "leaf"
  BY BatchIsList
<1>8. leaf.kind = "node"
  BY <1>5, <1>6, NodesBelow
<1> QED
  BY <1>7, <1>8

\* A root is the root of one set of leaves.
LEMMA RootsCommit ==
  ASSUME NEW a \in Lists, NEW b \in Lists, RootOf(a) = RootOf(b)
  PROVE  Nodes(a) = Nodes(b)
<1>1. Height(a) \in Nat /\ Height(b) \in Nat
  BY BatchIsList, HeightFacts DEF IsList
<1>2. Height(a) = Height(b)
  BY <1>1, NotLower
<1>3. Nodes(LevelsOf(a)[Height(a) - Height(a)]) = Nodes(LevelsOf(b)[Height(b) - Height(a)])
  BY <1>1, <1>2, SameNodes
<1>4. Height(a) - Height(a) = 0 /\ Height(b) - Height(a) = 0
  BY <1>1, <1>2
<1>5. LevelsOf(a)[0] = a /\ LevelsOf(b)[0] = b
  BY BatchIsList, LevelFacts
<1> QED
  BY <1>3, <1>4, <1>5

\* The loop of compute_root computes RootOf.
LEMMA LoopComputesRoot ==
  ASSUME MerkleInv, phase # "root"
  PROVE  leaves \in Lists /\ root = RootOf(leaves)
<1> DEFINE L == LevelsOf(leaves)
           top == Len(levels) - 1
           Equal == {n \in Nat : n <= top => levels[n + 1] = L[n]}
<1>1. leaves \in Lists /\ IsList(leaves) /\ Len(leaves) > 0 /\ top \in Nat /\ Len(levels) = top + 1
  BY BatchIsList DEF MerkleInv, TypeOK, IsList
<1>2. /\ levels[1] = leaves
      /\ \A i \in 1..top : Len(levels[i]) > 1 /\ levels[i + 1] = NextLevel(levels[i])
      /\ Len(levels[top + 1]) = 1 /\ root = levels[top + 1][1]
  BY <1>1 DEF MerkleInv, LevelsChain
<1>3. L[0] = leaves /\ \A n \in Nat : L[n + 1] = NextLevel(L[n])
  BY <1>1, LevelFacts
<1> HIDE DEF L, top
<1>4. 0 \in Equal
  BY <1>2, <1>3
<1>5. ASSUME NEW n \in Equal PROVE n + 1 \in Equal
  <2> SUFFICES ASSUME n + 1 <= top PROVE levels[n + 1 + 1] = L[n + 1]
    OBVIOUS
  <2>1. n \in Nat /\ n + 1 \in 1..top /\ levels[n + 1] = L[n]
    BY <1>1
  <2> QED
    BY <1>2, <1>3, <2>1
<1>6. \A n \in 0..top : levels[n + 1] = L[n]
  <2>1. Equal \in SUBSET Nat
    OBVIOUS
  <2>2. Equal = Nat
    <3> HIDE DEF Equal
    <3> QED
      BY <1>4, <1>5, <2>1, Induction
  <2> QED
    BY <1>1, <2>2
<1>7. Len(L[top]) = 1 /\ root = L[top][1]
  BY <1>1, <1>2, <1>6
<1>8. \A m \in 0..top - 1 : Len(L[m]) > 1
  <2> TAKE m \in 0..top - 1
  <2>1. m + 1 \in 1..top /\ m \in 0..top
    BY <1>1
  <2> QED
    BY <1>2, <1>6, <2>1
<1>9. top = Height(leaves)
  BY <1>1, <1>7, <1>8, HeightIsFirst DEF L
<1> QED
  BY <1>1, <1>7, <1>9 DEF RootOf, L

\* The root in a batch row commits to the leaves of the batch, for batches of any size:
\* no other list of leaves, longer or shorter, has it.
THEOREM RootsAreCommitments == Spec => []RootCommits
<1>1. MerkleInv => RootCommits
  <2> SUFFICES ASSUME MerkleInv, phase = "proof", NEW other \in Lists, RootOf(other) = root
               PROVE  Nodes(other) = Nodes(leaves)
    BY DEF RootCommits
  <2>1. leaves \in Lists /\ root = RootOf(leaves)
    BY LoopComputesRoot
  <2> QED
    BY <2>1, RootsCommit
<1> QED
  BY <1>1, Invariance, PTL

-----------------------------------------------------------------------------
(* What an auditor can be shown *)

\* Whatever siblings a run of verify_proof is given: read backwards from the root it ended
\* on, its hashes are nodes of the levels of the batch.
LEMMA RunGoesDown ==
  ASSUME NEW list \in Lists, NEW n \in Nat, NEW running, NEW hashes,
         \A i \in 1..n : running[i] = HashPair(running[i - 1], hashes[i]),
         running[n] = RootOf(list),
         NEW j \in Nat, j <= n, j <= Height(list)
  PROVE  running[n - j] \in Nodes(LevelsOf(list)[Height(list) - j])
<1> DEFINE L == LevelsOf(list)
           h == Height(list)
           Below == {i \in Nat : i <= n /\ i <= h => running[n - i] \in Nodes(L[h - i])}
<1>1. /\ h \in Nat /\ IsList(L[h]) /\ Len(L[h]) = 1
      /\ \A m \in Nat : L[m + 1] = NextLevel(L[m]) /\ IsList(L[m]) /\ Len(L[m]) > 0
  BY BatchLevels
<1>2. running[n] = L[h][1]
  BY DEF RootOf
<1> HIDE DEF L, h
<1>3. 0 \in Below
  <2>1. L[h][1] \in Nodes(L[h])
    BY <1>1 DEF IsList, Nodes
  <2>2. n - 0 = n /\ h - 0 = h
    BY <1>1
  <2> QED
    BY <1>2, <2>1, <2>2
<1>4. ASSUME NEW i \in Below PROVE i + 1 \in Below
  <2> SUFFICES ASSUME i + 1 <= n, i + 1 <= h
               PROVE  running[n - (i + 1)] \in Nodes(L[h - (i + 1)])
    OBVIOUS
  <2>1. running[n - i] \in Nodes(L[h - i])
    BY <1>1
  <2>2. /\ h - (i + 1) \in Nat /\ h - (i + 1) + 1 = h - i
        /\ n - i \in 1..n /\ n - i - 1 = n - (i + 1)
    BY <1>1
  <2>3. /\ L[h - i] = NextLevel(L[h - (i + 1)])
        /\ IsList(L[h - (i + 1)]) /\ Len(L[h - (i + 1)]) > 0
    BY <1>1, <2>2
  <2>4. running[n - i] = HashPair(running[n - (i + 1)], hashes[n - i])
    BY <2>2
  <2>5. running[n - (i + 1)] \in running[n - i].of
    BY <2>4 DEF HashPair
  <2>6. running[n - i].of \subseteq Nodes(L[h - (i + 1)])
    BY <2>1, <2>3, NodesBelow
  <2> QED
    BY <2>5, <2>6
<1>5. j \in Below
  <2>1. Below \in SUBSET Nat
    OBVIOUS
  <2> HIDE DEF Below
  <2> QED
    BY <1>3, <1>4, <2>1, Induction
<1> QED
  BY <1>5 DEF L, h

\* A run that starts from a leaf hash is as long as the tree is high, because a leaf hash
\* is no hash of a pair; so it started from a leaf of the batch.
LEMMA RunStartsInBatch ==
  ASSUME NEW list \in Lists, NEW n \in Nat, NEW running, NEW hashes,
         \A i \in 1..n : running[i] = HashPair(running[i - 1], hashes[i]),
         running[n] = RootOf(list), running[0] \in Leaf
  PROVE  running[0] \in Nodes(list)
<1> DEFINE h == Height(list)
<1>1. /\ h \in Nat /\ LevelsOf(list)[0] = list
      /\ \A m \in Nat : /\ LevelsOf(list)[m + 1] = NextLevel(LevelsOf(list)[m])
                        /\ IsList(LevelsOf(list)[m]) /\ Len(LevelsOf(list)[m]) > 0
  BY BatchLevels
<1>2. running[0].kind = "leaf" /\ \A i \in 1..n : running[i].kind = "node"
  <2>1. \A left, right : HashPair(left, right).kind = "node"
    BY DEF HashPair
  <2>2. \A leaf \in Leaf : leaf.kind = "leaf"
    BY DEF Leaf, LeafHash
  <2> QED
    BY <2>1, <2>2
<1>3. \A j \in Nat : j <= n /\ j <= h => running[n - j] \in Nodes(LevelsOf(list)[h - j])
  BY RunGoesDown
<1> HIDE DEF h
<1>4. CASE h < n
  <2>1. running[n - h] \in Nodes(LevelsOf(list)[h - h])
    BY <1>1, <1>3, <1>4
  <2>2. h - h = 0 /\ n - h \in 1..n
    BY <1>1, <1>4
  <2>3. running[n - h].kind = "leaf"
    BY <1>1, <2>1, <2>2, BatchIsList
  <2>4. running[n - h].kind = "node"
    BY <1>2, <2>2
  <2> QED
    BY <2>3, <2>4
<1>5. CASE n < h
  <2> DEFINE below == LevelsOf(list)[h - n - 1]
  <2>1. running[n - n] \in Nodes(LevelsOf(list)[h - n])
    BY <1>1, <1>3, <1>5
  <2>2. n - n = 0 /\ h - n - 1 \in Nat /\ h - n - 1 + 1 = h - n
    BY <1>1, <1>5
  <2>3. IsList(below) /\ Len(below) > 0 /\ LevelsOf(list)[h - n] = NextLevel(below)
    BY <1>1, <2>2
  <2> HIDE DEF below
  <2>4. running[0].kind = "node"
    BY <2>1, <2>2, <2>3, NodesBelow
  <2> QED
    BY <1>2, <2>4
<1>6. CASE n = h
  <2>1. running[n - n] \in Nodes(LevelsOf(list)[h - n])
    <3>1. n <= n /\ n <= h
      BY <1>6
    <3> QED
      BY <1>3, <3>1
  <2>2. n - n = 0 /\ h - n = 0
    BY <1>1, <1>6
  <2> QED
    BY <1>1, <2>1, <2>2
<1> QED
  BY <1>1, <1>4, <1>5, <1>6

\* No run of verify_proof, whatever siblings it is handed, leads from the leaf hash of a
\* record that is not in the batch to the root that compute_root returned for it.
THEOREM OnlyLeavesVerify ==
  ASSUME NEW n \in Nat, NEW running, NEW hashes, running[0] \in Leaf,
         \A i \in 1..n : running[i] = HashPair(running[i - 1], hashes[i])
  PROVE  Spec => [](phase # "root" /\ running[n] = root => running[0] \in Nodes(leaves))
<1>1. MerkleInv => (phase # "root" /\ running[n] = root => running[0] \in Nodes(leaves))
  BY LoopComputesRoot, RunStartsInBatch
<1> QED
  BY <1>1, Invariance, PTL

-----------------------------------------------------------------------------
(* The loops end *)

\* The loops in the order they run, and what is left to do in each.
Rank == [root |-> 3, proof |-> 2, verify |-> 1, end |-> 0]

Left == IF phase \in {"root", "proof"} THEN Len(level) ELSE Len(proof) + 1 - step

StepsRunOut ==
  [][\/ Rank[phase'] < Rank[phase]
     \/ phase' = phase /\ Left \in Nat /\ Left' \in Nat /\ Left' < Left]_vars

\* Each loop of merkle.py ends, on a list of any length: an iteration makes the level
\* shorter or uses up a sibling, and a loop that has ended does not start again.
THEOREM LoopsEnd == Spec => StepsRunOut
<1>1. ASSUME MerkleInv, Next
      PROVE  \/ Rank[phase'] < Rank[phase]
             \/ phase' = phase /\ Left \in Nat /\ Left' \in Nat /\ Left' < Left
  <2>0. /\ Rank["root"] = 3 /\ Rank["proof"] = 2 /\ Rank["verify"] = 1 /\ Rank["end"] = 0
    BY DEF Rank
  <2>1. /\ IsList(level) /\ Len(level) \in Nat /\ Len(level) > 0
        /\ Len(proof) \in Nat /\ step \in 1..Len(proof) + 1
    BY <1>1 DEF MerkleInv, TypeOK, IsList
  <2>2. /\ Len(NextLevel(level)) = (Len(level) + 1) \div 2
        /\ NextLevel(Padded(level)) = NextLevel(level)
    BY <2>1, NextLevelFacts
  <2>3. CASE RootStep \/ ProofStep
    <3>1. /\ phase' = phase /\ phase \in {"root", "proof"}
          /\ Len(level) > 1 /\ level' = NextLevel(level)
      BY <2>2, <2>3 DEF RootStep, ProofStep
    <3>2. Left = Len(level) /\ Left' = Len(level')
      BY <3>1 DEF Left
    <3>3. \A n \in Nat : n > 1 => (n + 1) \div 2 \in Nat /\ (n + 1) \div 2 < n
      OBVIOUS
    <3> QED
      BY <2>1, <2>2, <3>1, <3>2, <3>3
  <2>4. CASE VerifyStep
    <3>1. /\ phase = "verify" /\ phase' = phase /\ proof' = proof
          /\ step <= Len(proof) /\ step' = step + 1
      BY <2>4 DEF VerifyStep
    <3>2. Left = Len(proof) + 1 - step /\ Left' = Len(proof) + 1 - step'
      BY <3>1 DEF Left
    <3> QED
      BY <2>1, <3>1, <3>2
  <2>5. CASE RootDone \/ ProofDone \/ VerifyDone
    BY <2>0, <2>5 DEF RootDone, ProofDone, VerifyDone
  <2> QED
    BY <1>1, <2>3, <2>4, <2>5 DEF Next
<1>2. MerkleInv /\ [Next]_vars =>
        [\/ Rank[phase'] < Rank[phase]
         \/ phase' = phase /\ Left \in Nat /\ Left' \in Nat /\ Left' < Left]_vars
  BY <1>1
<1> QED
  BY <1>2, Invariance, PTL DEF Spec, StepsRunOut
=============================================================================
