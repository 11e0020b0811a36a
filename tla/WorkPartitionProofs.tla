------------------------- MODULE WorkPartitionProofs -------------------------
(* Proofs about the partition of blocks into engine entries.               *)
EXTENDS WorkPartition, FiniteSetTheorems, WellFoundedInduction, TLAPS

(* Division by n leaves a rest below n.                                    *)
LEMMA Rest ==
  ASSUME NEW n \in Nat \ {0}, NEW delta \in Nat
  PROVE  /\ delta \div n \in Nat /\ delta % n \in Nat
         /\ delta % n < n
         /\ delta = (delta \div n) * n + (delta % n)
OBVIOUS

(* The ends grow by delta \div n or one more, and the last is delta.       *)
LEMMA Ends ==
  ASSUME NEW n \in Nat \ {0}, NEW delta \in Nat
  PROVE  /\ \A i \in Nat : BlkEnd(n, delta, i) \in Nat
         /\ BlkEnd(n, delta, 0)
              = delta \div n + (IF 0 < delta % n THEN 1 ELSE 0)
         /\ \A i \in Nat :
              BlkEnd(n, delta, i + 1) = BlkEnd(n, delta, i) + delta \div n
                                        + (IF i + 1 < delta % n THEN 1 ELSE 0)
         /\ BlkEnd(n, delta, n - 1) = delta
<1> DEFINE a == delta \div n
           b == delta % n
<1>1. a \in Nat /\ b \in Nat /\ b < n /\ delta = a * n + b
  BY Rest
<1> HIDE DEF a, b
<1>2. \A i \in Nat : BlkEnd(n, delta, i) = a * (i + 1) + Least(i + 1, b)
  BY DEF BlkEnd, a, b
<1>3. \A i \in Nat : a * (i + 1) \in Nat /\ a * (i + 2) = a * (i + 1) + a
  BY <1>1
<1>4. \A i \in Nat : BlkEnd(n, delta, i) \in Nat
  BY <1>1, <1>2, <1>3 DEF Least
<1>5. BlkEnd(n, delta, 0) = a + (IF 0 < b THEN 1 ELSE 0)
  BY <1>1, <1>2 DEF Least
<1>6. \A i \in Nat : BlkEnd(n, delta, i + 1)
                       = BlkEnd(n, delta, i) + a + (IF i + 1 < b THEN 1 ELSE 0)
  <2> TAKE i \in Nat
  <2>1. i + 1 \in Nat /\ i + 1 + 1 = i + 2
    OBVIOUS
  <2>2. BlkEnd(n, delta, i + 1) = a * (i + 2) + Least(i + 2, b)
    BY <1>2, <2>1
  <2>3. BlkEnd(n, delta, i) = a * (i + 1) + Least(i + 1, b)
    BY <1>2
  <2> QED BY <1>1, <1>3, <2>2, <2>3 DEF Least
<1>7. BlkEnd(n, delta, n - 1) = delta
  <2>1. n - 1 \in Nat /\ (n - 1) + 1 = n
    OBVIOUS
  <2>2. BlkEnd(n, delta, n - 1) = a * n + Least(n, b)
    BY <1>2, <2>1
  <2> QED BY <1>1, <2>2 DEF Least
<1> QED BY <1>4, <1>5, <1>6, <1>7 DEF a, b

(* A set of naturals that is not empty has a least element.                *)
LEMMA LeastNatural ==
  ASSUME NEW S \in SUBSET Nat, S # {}
  PROVE  \E m \in S : \A k \in S : m <= k
<1>1. PICK m \in S : \A k \in S : ~(<<k, m>> \in OpToRel(<, Nat))
  BY NatLessThanWellFounded, WFMin, Zenon
<1>2. \A k \in S : ~(k < m)
  BY <1>1 DEF OpToRel
<1>3. \A k \in S : m <= k
  <2> TAKE k \in S
  <2>1. k \in Nat /\ m \in Nat /\ ~(k < m)
    BY <1>2
  <2> QED BY <2>1
<1> QED BY <1>3, Zenon

(* The ends never decrease and never pass delta.                           *)
LEMMA EndsGrow ==
  ASSUME NEW n \in Nat \ {0}, NEW delta \in Nat
  PROVE  \A i, j \in 0 .. n - 1 :
           i <= j => /\ BlkEnd(n, delta, i) <= BlkEnd(n, delta, j)
                     /\ BlkEnd(n, delta, j) <= delta
<1> DEFINE a == delta \div n
           b == delta % n
<1>1. a \in Nat /\ b \in Nat /\ b < n /\ delta = a * n + b
  BY Rest
<1> HIDE DEF a, b
<1>2. \A i \in Nat : BlkEnd(n, delta, i) = a * (i + 1) + Least(i + 1, b)
  BY DEF BlkEnd, a, b
<1>3. \A i, j \in Nat : i <= j => a * i <= a * j
  BY <1>1
<1>4. ASSUME NEW i \in 0 .. n - 1, NEW j \in 0 .. n - 1, i <= j
      PROVE  /\ a * (i + 1) <= a * (j + 1) /\ a * (j + 1) <= a * n
             /\ a * (i + 1) \in Nat /\ a * (j + 1) \in Nat /\ a * n \in Nat
             /\ Least(i + 1, b) <= Least(j + 1, b) /\ Least(j + 1, b) <= b
             /\ Least(i + 1, b) \in Nat /\ Least(j + 1, b) \in Nat
  <2>1. i + 1 \in Nat /\ j + 1 \in Nat /\ i + 1 <= j + 1 /\ j + 1 <= n
    BY <1>4
  <2>2. a * (i + 1) <= a * (j + 1) /\ a * (j + 1) <= a * n
    BY <2>1, <1>3
  <2>3. a * (i + 1) \in Nat /\ a * (j + 1) \in Nat /\ a * n \in Nat
    BY <2>1, <1>1
  <2> QED BY <1>1, <2>1, <2>2, <2>3 DEF Least
<1>5. ASSUME NEW i \in 0 .. n - 1, NEW j \in 0 .. n - 1, i <= j
      PROVE  /\ BlkEnd(n, delta, i) <= BlkEnd(n, delta, j)
             /\ BlkEnd(n, delta, j) <= delta
  <2>1. /\ BlkEnd(n, delta, i) = a * (i + 1) + Least(i + 1, b)
        /\ BlkEnd(n, delta, j) = a * (j + 1) + Least(j + 1, b)
    BY <1>2
  <2> HIDE DEF Least
  <2> QED BY <1>1, <1>4, <1>5, <2>1
<1> QED BY <1>5

-----------------------------------------------------------------------------
(* What the loop has built so far: entry i runs from the end of the one    *)
(* before it to BlkEnd.                                                    *)
D == Blocks(req, 1)

Filled ==
  \A i \in 1 .. Len(part) :
    /\ part[i].end = BlkEnd(nve, D, i - 1)
    /\ part[i].first = IF i = 1 THEN 0 ELSE part[i - 1].end

IInv == TypeOK /\ Filled /\ (done => used = Used(nve, D))

(* What is known of a request: its engines and dimensions are positive.    *)
LEMMA RequestType ==
  ASSUME NEW r \in Requests
  PROVE  Blocks(r, 1) \in Nat
<1>1. /\ r.gsz \in Seq(Nat) /\ r.lsz \in Seq(Nat)
      /\ Len(r.gsz) \in 1..3 /\ Len(r.lsz) = Len(r.gsz)
  BY RequestsAreRanges, Zenon
<1>2. r.gsz[1] \in Nat /\ r.lsz[1] \in Nat
  BY <1>1
<1>3. CASE r.lsz[1] = 0
  BY <1>3 DEF Blocks
<1>4. CASE r.lsz[1] # 0
  <2>1. r.gsz[1] \div r.lsz[1] \in Nat
    BY <1>2, <1>4, Rest
  <2> QED BY <1>4, <2>1 DEF Blocks
<1> QED BY <1>3, <1>4

(* An element of a sequence over S is in S.                                *)
LEMMA ElementType ==
  ASSUME NEW S, NEW s \in Seq(S), NEW i \in 1 .. Len(s)
  PROVE  s[i] \in S
OBVIOUS

(* Every step of the loop of workp_divide keeps its invariant.             *)
LEMMA StepPreserves == IInv /\ [Next]_vars => IInv'
<1> SUFFICES ASSUME IInv, [Next]_vars
             PROVE  IInv'
  OBVIOUS
<1>0. /\ nve \in Engines /\ req \in Requests /\ done \in BOOLEAN
      /\ part \in Seq([first : Nat, end : Nat])
      /\ Len(part) \in Nat /\ Len(part) <= nve /\ used \in 0 .. nve
      /\ done => Len(part) = nve /\ used = Used(nve, D)
      /\ Filled
  BY DEF IInv, TypeOK
<1>1. nve \in Nat \ {0} /\ D \in Nat
  BY <1>0, EnginesArePositive, RequestType DEF D
<1>2. CASE Fill
  <2> DEFINE e == [first |-> BlkFirst(part),
                   end   |-> BlkEnd(nve, D, Len(part))]
  <2>1. /\ part' = Append(part, e) /\ D' = D
        /\ UNCHANGED <<nve, req, done, used>> /\ ~done /\ Len(part) < nve
    BY <1>2 DEF Fill, D, Blocks
  <2> HIDE DEF e
  <2>2. BlkFirst(part) = IF Len(part) = 0 THEN 0 ELSE part[Len(part)].end
    BY <1>0 DEF BlkFirst
  <2>3. BlkFirst(part) \in Nat
    <3>1. Len(part) # 0 => Len(part) \in 1 .. Len(part)
      BY <1>0
    <3>2. Len(part) # 0 => part[Len(part)] \in [first : Nat, end : Nat]
      BY <1>0, <3>1, ElementType
    <3> QED BY <2>2, <3>2
  <2>4. e \in [first : Nat, end : Nat]
    <3>1. BlkEnd(nve, D, Len(part)) \in Nat
      BY <1>0, <1>1, Ends
    <3> QED BY <2>3, <3>1 DEF e
  <2>5. TypeOK'
    BY <1>0, <1>1, <2>1, <2>4 DEF TypeOK
  <2>6. Filled'
    <3>1. /\ Len(part') = Len(part) + 1 /\ part'[Len(part) + 1] = e
          /\ \A i \in 1 .. Len(part) : part'[i] = part[i]
      BY <1>0, <2>1, <2>4
    <3>2. ASSUME NEW i \in 1 .. Len(part')
          PROVE  /\ part'[i].end = BlkEnd(nve', D', i - 1)
                 /\ part'[i].first = IF i = 1 THEN 0 ELSE part'[i - 1].end
      <4>1. CASE i \in 1 .. Len(part)
        <5>1. /\ part[i].end = BlkEnd(nve, D, i - 1)
              /\ part[i].first = IF i = 1 THEN 0 ELSE part[i - 1].end
          BY <1>0, <4>1 DEF Filled
        <5>2. i # 1 => i - 1 \in 1 .. Len(part)
          BY <1>0, <4>1
        <5>3. part'[i] = part[i] /\ (i # 1 => part'[i - 1] = part[i - 1])
          BY <3>1, <4>1, <5>2
        <5>4. nve' = nve /\ D' = D
          BY <2>1
        <5> QED BY <5>1, <5>3, <5>4, Zenon
      <4>2. CASE i = Len(part) + 1
        <5>1. e.end = BlkEnd(nve, D, i - 1)
          BY <1>0, <4>2 DEF e
        <5>2. e.first = IF i = 1 THEN 0 ELSE part[i - 1].end
          BY <1>0, <2>2, <4>2 DEF e
        <5> QED BY <1>0, <2>1, <3>1, <4>2, <5>1, <5>2
      <4> QED BY <1>0, <3>1, <4>1, <4>2
    <3> QED BY <3>2 DEF Filled
  <2> QED BY <1>0, <2>1, <2>5, <2>6 DEF IInv
<1>3. CASE Return
  <2>1. /\ UNCHANGED <<nve, req, part>> /\ D' = D /\ ~done /\ done'
        /\ Len(part) = nve /\ used' = Used(nve, D)
    BY <1>3 DEF Return, D, Blocks
  <2>2. Used(nve, D) \in 0 .. nve
    BY <1>1, Rest DEF Used
  <2>3. TypeOK'
    BY <1>0, <2>1, <2>2 DEF TypeOK
  <2>4. Filled'
    BY <1>0, <2>1 DEF Filled
  <2> QED BY <2>1, <2>3, <2>4 DEF IInv
<1>4. CASE UNCHANGED vars
  BY <1>4 DEF vars, IInv, TypeOK, Filled, D, Blocks, Used
<1> QED BY <1>2, <1>3, <1>4 DEF Next

(* The loop invariant holds for every number of engines and every request. *)
THEOREM Inductive == Spec => []IInv
<1>1. Init => IInv
  <2> SUFFICES ASSUME Init PROVE IInv
    OBVIOUS
  <2>1. nve \in Nat \ {0} /\ part = <<>> /\ Len(part) = 0 /\ done = FALSE
    BY EnginesArePositive DEF Init
  <2>2. TypeOK
    <3>1. part \in Seq([first : Nat, end : Nat]) /\ used \in 0 .. nve
      BY <2>1 DEF Init
    <3>2. nve \in Engines /\ req \in Requests /\ done = FALSE /\ Len(part) <= nve
      BY <2>1 DEF Init
    <3> QED BY <3>1, <3>2 DEF TypeOK
  <2>3. Filled
    BY <2>1 DEF Filled
  <2> QED BY <2>1, <2>2, <2>3 DEF IInv
<1> QED BY <1>1, StepPreserves, PTL DEF Spec

(* TypeOK holds for every number of engines and every request.             *)
THEOREM TypeCorrect == Spec => []TypeOK
<1>1. IInv => TypeOK
  BY DEF IInv
<1> QED BY <1>1, Inductive, PTL

-----------------------------------------------------------------------------
(* What the loop invariant says of a finished partition.                   *)
LEMMA Finished ==
  ASSUME IInv, done
  PROVE  /\ nve \in Nat \ {0} /\ D \in Nat /\ Len(part) = nve
         /\ used = Used(nve, D)
         /\ \A e \in 1 .. nve :
              /\ part[e].end = BlkEnd(nve, D, e - 1)
              /\ part[e].first = IF e = 1 THEN 0 ELSE BlkEnd(nve, D, e - 2)
<1>1. /\ nve \in Nat \ {0} /\ D \in Nat /\ Len(part) = nve
      /\ used = Used(nve, D)
  BY EnginesArePositive, RequestType DEF IInv, TypeOK, D
<1>2. ASSUME NEW e \in 1 .. nve
      PROVE  /\ part[e].end = BlkEnd(nve, D, e - 1)
             /\ part[e].first = IF e = 1 THEN 0 ELSE BlkEnd(nve, D, e - 2)
  <2>1. /\ part[e].end = BlkEnd(nve, D, e - 1)
        /\ part[e].first = IF e = 1 THEN 0 ELSE part[e - 1].end
    BY <1>1 DEF IInv, Filled
  <2>2. e # 1 => e - 1 \in 1 .. Len(part) /\ e - 1 - 1 = e - 2
    BY <1>1
  <2>3. e # 1 => part[e - 1].end = BlkEnd(nve, D, e - 1 - 1)
    BY <2>2 DEF IInv, Filled
  <2> QED BY <2>1, <2>2, <2>3
<1> QED BY <1>1, <1>2

(* Tiles for every number of engines and every request: the owner of block *)
(* b is the first entry whose end is beyond b.                             *)
THEOREM EveryBlockHasOneEngine == Spec => []Tiles
<1>1. ASSUME IInv
      PROVE  Tiles
  <2> SUFFICES ASSUME done, NEW b \in 0 .. D - 1
               PROVE  \E e \in 1 .. nve :
                        /\ part[e].first <= b /\ b < part[e].end
                        /\ \A f \in 1 .. nve :
                             part[f].first <= b /\ b < part[f].end => f = e
    BY DEF Tiles, D
  <2> DEFINE End(e) == BlkEnd(nve, D, e - 1)
             Beyond == {e \in 1 .. nve : b < End(e)}
  <2>1. /\ nve \in Nat \ {0} /\ D \in Nat
        /\ \A e \in 1 .. nve :
             /\ part[e].end = End(e)
             /\ part[e].first = IF e = 1 THEN 0 ELSE BlkEnd(nve, D, e - 2)
    BY <1>1, Finished
  <2>2. \A e \in 1 .. nve : e # 1 => e - 1 \in 1 .. nve /\ e - 2 = e - 1 - 1
    BY <2>1
  <2>3. \A e \in 1 .. nve : part[e].first = IF e = 1 THEN 0 ELSE End(e - 1)
    BY <2>1, <2>2
  <2>4. \A e, f \in 1 .. nve : e <= f => End(e) <= End(f)
    BY <2>1, EndsGrow
  <2>5. \A e \in 1 .. nve : End(e) \in Nat
    <3>1. \A i \in Nat : BlkEnd(nve, D, i) \in Nat
      BY <2>1, Ends
    <3>2. \A e \in 1 .. nve : e - 1 \in Nat
      BY <2>1
    <3> QED BY <3>1, <3>2
  <2>6. End(nve) = D /\ nve \in 1 .. nve
    BY <2>1, Ends
  <2> HIDE DEF End
  <2>7. nve \in Beyond /\ Beyond \in SUBSET Nat
    BY <2>1, <2>6
  <2>8. PICK e \in Beyond : \A f \in Beyond : e <= f
    BY <2>7, LeastNatural
  <2>9. e \in 1 .. nve /\ b < End(e)
    BY <2>8
  <2>10. part[e].first <= b
    <3>1. CASE e = 1
      BY <2>3, <2>9, <3>1
    <3>2. CASE e # 1
      <4>1. e - 1 \in 1 .. nve /\ ~(e <= e - 1)
        BY <2>2, <2>9, <3>2
      <4>2. e - 1 \notin Beyond
        BY <2>8, <4>1
      <4>3. End(e - 1) <= b
        BY <2>5, <4>1, <4>2
      <4> QED BY <2>3, <2>9, <3>2, <4>3
    <3> QED BY <3>1, <3>2
  <2>11. ASSUME NEW f \in 1 .. nve, part[f].first <= b, b < part[f].end
         PROVE  f = e
    <3>1. f \in Beyond
      BY <2>1, <2>11
    <3>2. e <= f
      BY <2>8, <3>1
    <3>3. ASSUME e < f
          PROVE  FALSE
      <4>1. f # 1 /\ f - 1 \in 1 .. nve /\ e <= f - 1
        BY <2>1, <2>9, <3>3
      <4>2. End(e) <= End(f - 1) /\ End(f - 1) <= b
        BY <2>3, <2>4, <2>9, <2>11, <4>1
      <4> QED BY <2>5, <2>9, <4>1, <4>2
    <3> QED BY <2>9, <3>2, <3>3
  <2> QED BY <2>1, <2>9, <2>10, <2>11
<1> QED BY <1>1, Inductive, PTL

(* The size of every entry.                                                *)
LEMMA Sizes ==
  ASSUME IInv, done
  PROVE  \A g \in 1 .. nve :
           /\ part[g].end \in Nat /\ part[g].first \in Nat
           /\ part[g].end = part[g].first + (D \div nve)
                            + (IF g - 1 < D % nve THEN 1 ELSE 0)
<1>1. nve \in Nat \ {0} /\ D \in Nat
  BY Finished
<1> DEFINE a == D \div nve
<1>2. a \in Nat
  BY <1>1, Rest
<1>3. /\ \A i \in Nat : BlkEnd(nve, D, i) \in Nat
      /\ BlkEnd(nve, D, 0) = a + (IF 0 < D % nve THEN 1 ELSE 0)
      /\ \A i \in Nat :
           BlkEnd(nve, D, i + 1) = BlkEnd(nve, D, i) + a
                                   + (IF i + 1 < D % nve THEN 1 ELSE 0)
  BY <1>1, Ends
<1> HIDE DEF a
<1>4. ASSUME NEW g \in 1 .. nve
      PROVE  /\ part[g].end \in Nat /\ part[g].first \in Nat
             /\ part[g].end = part[g].first + a
                              + (IF g - 1 < D % nve THEN 1 ELSE 0)
  <2>1. /\ part[g].end = BlkEnd(nve, D, g - 1)
        /\ part[g].first = IF g = 1 THEN 0 ELSE BlkEnd(nve, D, g - 2)
    BY Finished
  <2>2. CASE g = 1
    <3>1. /\ part[g].end = a + (IF 0 < D % nve THEN 1 ELSE 0)
          /\ part[g].first = 0
      BY <1>1, <1>3, <2>1, <2>2
    <3> QED BY <1>2, <2>2, <3>1
  <2>3. CASE g # 1
    <3>1. g - 2 \in Nat /\ g - 1 = (g - 2) + 1
      BY <2>3
    <3>2. /\ part[g].first = BlkEnd(nve, D, g - 2) /\ part[g].first \in Nat
          /\ part[g].end = part[g].first + a
                           + (IF g - 1 < D % nve THEN 1 ELSE 0)
      BY <1>1, <1>3, <2>1, <2>3, <3>1
    <3> QED BY <1>2, <3>2
  <2> QED BY <2>2, <2>3
<1> QED BY <1>4 DEF a

(* Balanced for every number of engines and every request.                 *)
THEOREM EnginesShareEvenly == Spec => []Balanced
<1>1. ASSUME IInv
      PROVE  Balanced
  <2> SUFFICES ASSUME done, NEW e \in 1 .. nve, NEW f \in 1 .. nve
               PROVE  /\ part[e].end <= D
                      /\ part[e].end - part[e].first
                           <= part[f].end - part[f].first + 1
    BY DEF Balanced, D
  <2> DEFINE a == D \div nve
  <2>1. nve \in Nat \ {0} /\ D \in Nat /\ a \in Nat
    BY <1>1, Finished, Rest
  <2>2. \A g \in {e, f} : /\ part[g].end \in Nat /\ part[g].first \in Nat
                          /\ \/ part[g].end = part[g].first + a
                             \/ part[g].end = part[g].first + a + 1
    BY <1>1, <2>1, Sizes
  <2>3. part[e].end <= D
    <3>1. e - 1 \in 0 .. nve - 1 /\ part[e].end = BlkEnd(nve, D, e - 1)
      BY <1>1, <2>1, Finished
    <3> QED BY <2>1, <3>1, EndsGrow
  <2> HIDE DEF a
  <2> QED BY <2>1, <2>2, <2>3
<1> QED BY <1>1, Inductive, PTL

(* UsedCountsBusy for every number of engines and every request.           *)
THEOREM ResultCountsBusyEngines == Spec => []UsedCountsBusy
<1>1. ASSUME IInv
      PROVE  UsedCountsBusy
  <2> SUFFICES ASSUME done, NEW e \in 1 .. nve
               PROVE  e <= used <=> part[e].first < part[e].end
    BY DEF UsedCountsBusy
  <2> DEFINE a == D \div nve
             b == D % nve
  <2>1. /\ nve \in Nat \ {0} /\ a \in Nat /\ b \in Nat /\ b < nve
        /\ used = IF a = 0 THEN b ELSE nve
    BY <1>1, Finished, Rest DEF Used
  <2>2. /\ part[e].end \in Nat /\ part[e].first \in Nat
        /\ part[e].end = part[e].first + a + (IF e - 1 < b THEN 1 ELSE 0)
    BY <1>1, Sizes
  <2> HIDE DEF a, b
  <2> QED BY <2>1, <2>2
<1> QED BY <1>1, Inductive, PTL

-----------------------------------------------------------------------------
(* Numbers.                                                                *)

(* A number has one quotient and one rest.                                 *)
LEMMA Quotient ==
  ASSUME NEW n \in Nat \ {0}, NEW k \in Nat, NEW r \in 0 .. n - 1
  PROVE  k * n + r \in Nat /\ (k * n + r) \div n = k /\ (k * n + r) % n = r
<1>1. PICK x \in Nat : x = k * n + r
  OBVIOUS
<1>2. PICK a \in Nat, b \in Nat : a = x \div n /\ b = x % n /\ b < n /\ x = a * n + b
  BY <1>1, Rest
<1>3. \A i, j \in Nat : i < j => i * n + n <= j * n
  <2>1. ASSUME NEW i \in Nat, NEW j \in Nat, i < j PROVE i * n + n <= j * n
    <3>1. PICK m \in Nat : j = i + 1 + m
      <4>1. j - i - 1 \in Nat /\ j = i + 1 + (j - i - 1)
        BY <2>1
      <4> QED BY <4>1
    <3>2. j * n = i * n + n + m * n /\ m * n \in Nat
      BY <3>1
    <3> QED BY <3>2
  <2> QED BY <2>1
<1>4. ~(a < k) /\ ~(k < a)
  <2>1. k * n \in Nat /\ a * n \in Nat /\ r < n /\ r \in Nat
    OBVIOUS
  <2>2. (a < k => a * n + n <= k * n) /\ (k < a => k * n + n <= a * n)
    BY <1>3
  <2> QED BY <1>1, <1>2, <2>1, <2>2
<1>5. a = k
  BY <1>4
<1> QED BY <1>1, <1>2, <1>5

(* Dividing twice is dividing by the product. *)
LEMMA QuotientTwice ==
  ASSUME NEW t \in Nat, NEW a \in Nat \ {0}, NEW b \in Nat \ {0}
  PROVE  (t \div a) \div b = t \div (b * a)
<1>1. PICK q \in Nat, r \in 0 .. a - 1 : q = t \div a /\ t = q * a + r
  BY Rest
<1>2. PICK p \in Nat, s \in 0 .. b - 1 : p = q \div b /\ q = p * b + s
  BY Rest
<1>3. b * a \in Nat \ {0} /\ s * a + r \in 0 .. b * a - 1
  <2>1. b * a \in Nat /\ b * a # 0
    OBVIOUS
  <2>2. PICK m \in Nat : b = s + 1 + m
    <3>1. b - s - 1 \in Nat /\ b = s + 1 + (b - s - 1)
      OBVIOUS
    <3> QED BY <3>1
  <2>3. b * a = s * a + a + m * a /\ m * a \in Nat /\ s * a \in Nat
    BY <2>2
  <2> QED BY <2>1, <2>3
<1>4. t = p * (b * a) + (s * a + r)
  <2>1. (p * b + s) * a = p * (b * a) + s * a
    OBVIOUS
  <2>2. p * (b * a) \in Nat /\ s * a \in Nat
    OBVIOUS
  <2>3. t = (p * b + s) * a + r
    BY <1>1, <1>2, Zenon
  <2>4. PICK i \in Nat, j \in Nat : i = p * (b * a) /\ j = s * a
    BY <2>2
  <2>5. t = (i + j) + r
    BY <2>1, <2>3, <2>4, Zenon
  <2>6. t = i + (j + r)
    BY <2>5
  <2> QED BY <2>4, <2>6, Zenon
<1>5. t \div (b * a) = p
  BY <1>3, <1>4, Quotient
<1> QED BY <1>1, <1>2, <1>5

-----------------------------------------------------------------------------
(* Products. ProductOver multiplies over a set with a fold that takes the  *)
(* elements in no particular order.                                        *)
First(s) == CHOOSE x \in s : TRUE
Prods(f, g, U) ==
  g = [s \in U |-> IF s = {} THEN 1 ELSE f[First(s)] * g[s \ {First(s)}]]
ProdsIn(f, g, S) == Prods(f, g, SUBSET S)
UpTo(S, k) == {s \in SUBSET S : Cardinality(s) <= k}

(* Taking an element out of a set leaves a smaller one. *)
LEMMA Smaller ==
  ASSUME NEW S, IsFiniteSet(S), NEW k \in Nat, NEW s \in UpTo(S, k), s # {}
  PROVE  /\ First(s) \in s /\ k - 1 \in Nat /\ k # 0
         /\ \A x \in s : s \ {x} \in UpTo(S, k - 1)
<1>1. First(s) \in s
  BY DEF First
<1>2. IsFiniteSet(s) /\ Cardinality(s) \in Nat
  BY FS_Subset, FS_CardinalityType DEF UpTo
<1>3. Cardinality(s) # 0
  BY <1>2, FS_EmptySet
<1>4. \A x \in s : Cardinality(s \ {x}) = Cardinality(s) - 1
  BY <1>2, FS_RemoveElement
<1> QED BY <1>1, <1>2, <1>3, <1>4 DEF UpTo

(* Sets of every size, up to that of the whole. *)
LEMMA AllSizes ==
  ASSUME NEW S, IsFiniteSet(S)
  PROVE  Cardinality(S) \in Nat /\ UpTo(S, Cardinality(S)) = SUBSET S
<1>1. Cardinality(S) \in Nat /\ \A s \in SUBSET S : Cardinality(s) <= Cardinality(S)
  BY FS_Subset, FS_CardinalityType
<1> QED BY <1>1 DEF UpTo

(* The recursion that defines the fold has a solution on a finite set.     *)
LEMMA ProdsExist ==
  ASSUME NEW S, IsFiniteSet(S), NEW f
  PROVE  \E g : Prods(f, g, SUBSET S)
<1> DEFINE Bad == {k \in Nat : ~ \E g : Prods(f, g, UpTo(S, k))}
<1>1. ASSUME Bad # {} PROVE FALSE
  <2>1. PICK k \in Bad : \A i \in Bad : k <= i
    BY <1>1, LeastNatural
  <2>2. CASE k = 0
    <3> DEFINE g == [s \in UpTo(S, 0) |-> 1]
    <3>1. \A s \in UpTo(S, 0) : s = {}
      BY Smaller
    <3>2. g = [s \in UpTo(S, 0) |-> IF s = {} THEN 1 ELSE f[First(s)] * g[s \ {First(s)}]]
      BY <3>1
    <3> QED BY <2>2, <3>2 DEF Prods
  <2>3. CASE k # 0
    <3>1. k \in Nat /\ k - 1 \in Nat /\ k - 1 \notin Bad
      BY <2>1, <2>3
    <3>2. PICK g : Prods(f, g, UpTo(S, k - 1))
      BY <3>1
    <3> DEFINE h == [s \in UpTo(S, k) |->
                       IF s = {} THEN 1 ELSE f[First(s)] * g[s \ {First(s)}]]
    <3>3. \A s \in UpTo(S, k - 1) : s \in UpTo(S, k) /\ h[s] = g[s]
      <4>1. \A s \in UpTo(S, k - 1) : s \in UpTo(S, k)
        <5> SUFFICES ASSUME NEW s \in UpTo(S, k - 1) PROVE Cardinality(s) <= k /\ s \subseteq S
          BY DEF UpTo
        <5>1. Cardinality(s) \in Nat /\ Cardinality(s) <= k - 1 /\ s \subseteq S
          BY FS_Subset, FS_CardinalityType DEF UpTo
        <5> QED BY <3>1, <5>1
      <4>2. \A s \in UpTo(S, k - 1) :
              g[s] = IF s = {} THEN 1 ELSE f[First(s)] * g[s \ {First(s)}]
        BY <3>2, Zenon DEF Prods
      <4> QED BY <4>1, <4>2
    <3>4. \A s \in UpTo(S, k) : s # {} => h[s \ {First(s)}] = g[s \ {First(s)}]
      BY <3>1, <3>3, Smaller
    <3>5. h = [s \in UpTo(S, k) |-> IF s = {} THEN 1 ELSE f[First(s)] * h[s \ {First(s)}]]
      <4> DEFINE h2 == [s \in UpTo(S, k) |-> IF s = {} THEN 1 ELSE f[First(s)] * h[s \ {First(s)}]]
      <4>1. \A s \in UpTo(S, k) : h[s] = h2[s]
        BY <3>4
      <4> QED BY <4>1
    <3> HIDE DEF h
    <3>6. Prods(f, h, UpTo(S, k))
      BY <3>5 DEF Prods
    <3> QED BY <2>1, <3>6
  <2> QED BY <2>2, <2>3
<1>2. \E g : Prods(f, g, UpTo(S, Cardinality(S)))
  BY <1>1, AllSizes
<1> QED BY <1>2, AllSizes

(* The order does not matter: any element may be taken first.              *)
LEMMA ProdsAnyFirst ==
  ASSUME NEW S, IsFiniteSet(S), NEW f, \A x \in S : f[x] \in Nat,
         NEW g, Prods(f, g, SUBSET S)
  PROVE  /\ g[{}] = 1
         /\ \A s \in SUBSET S : g[s] \in Nat /\ \A x \in s : g[s] = f[x] * g[s \ {x}]
<1> DEFINE Good(s) == g[s] \in Nat /\ \A x \in s : g[s] = f[x] * g[s \ {x}]
           Bad == {k \in Nat : \E s \in UpTo(S, k) : ~ Good(s)}
<1>0. \A s \in SUBSET S : g[s] = IF s = {} THEN 1 ELSE f[First(s)] * g[s \ {First(s)}]
  BY Zenon DEF Prods
<1>1. ASSUME Bad # {} PROVE FALSE
  <2>1. PICK k \in Bad : \A i \in Bad : k <= i
    BY <1>1, LeastNatural
  <2>2. k \in Nat
    BY <2>1
  <2>3. PICK s \in UpTo(S, k) : ~ Good(s)
    BY <2>1
  <2>4. s \in SUBSET S /\ s # {}
    BY <1>0, <2>3 DEF UpTo
  <2>5. PICK z : z = First(s)
    OBVIOUS
  <2>6. z \in s /\ k - 1 \in Nat /\ \A x \in s : s \ {x} \in UpTo(S, k - 1)
    BY <2>2, <2>4, <2>5, Smaller
  <2>7. \A x \in s : Good(s \ {x})
    <3>1. k - 1 \notin Bad
      BY <2>1, <2>2, <2>6
    <3> QED BY <2>6, <3>1
  <2>8. g[s] = f[z] * g[s \ {z}]
    BY <1>0, <2>4, <2>5
  <2>9. ASSUME NEW x \in s, x # z PROVE g[s] = f[x] * g[s \ {x}]
    <3>1. (s \ {z}) \ {x} = (s \ {x}) \ {z} /\ x \in s \ {z} /\ z \in s \ {x}
      BY <2>6, <2>9
    <3>2. PICK y : y = g[(s \ {z}) \ {x}]
      OBVIOUS
    <3>3. g[s \ {z}] = f[x] * y /\ g[s \ {x}] = f[z] * y
      BY <2>6, <2>7, <3>1, <3>2
    <3>4. y \in Nat /\ f[x] \in Nat /\ f[z] \in Nat
      <4>1. k - 1 \notin Bad
        BY <2>1, <2>2, <2>6
      <4>2. s \ {z} \in UpTo(S, k - 1) /\ s \ {z} # {}
        BY <2>6, <3>1
      <4>3. k - 1 # 0 /\ (s \ {z}) \ {x} \in UpTo(S, k - 2) /\ k - 2 \in Nat
        <5>1. (k - 1) - 1 = k - 2
          BY <2>2
        <5> QED BY <2>6, <3>1, <4>2, <5>1, Smaller
      <4>4. k - 2 \notin Bad
        BY <2>1, <2>2, <4>3
      <4>5. Good((s \ {z}) \ {x})
        BY <4>3, <4>4
      <4> QED BY <2>4, <2>6, <3>2, <4>5
    <3> QED BY <2>8, <3>3, <3>4
  <2>10. g[s] \in Nat
    <3>1. f[z] \in Nat /\ g[s \ {z}] \in Nat
      BY <2>4, <2>6, <2>7
    <3>2. \A i, j \in Nat : i * j \in Nat
      OBVIOUS
    <3> QED BY <2>8, <3>1, <3>2
  <2> QED BY <2>3, <2>8, <2>9, <2>10
<1>2. \A s \in SUBSET S : Good(s)
  <2> HIDE DEF Good
  <2>1. Cardinality(S) \in Nat /\ Cardinality(S) \notin Bad
    BY <1>1, AllSizes
  <2> QED BY <2>1, AllSizes
<1>3. g[{}] = 1
  BY <1>0
<1> QED BY <1>2, <1>3

(* Solutions on two sets agree where both are defined.                     *)
LEMMA ProdsAgree ==
  ASSUME NEW S, IsFiniteSet(S), NEW f, NEW g, ProdsIn(f, g, S)
  PROVE  \A T \in SUBSET S : \A h : ProdsIn(f, h, T) => g[T] = h[T]
<1> SUFFICES ASSUME NEW T \in SUBSET S, NEW h, ProdsIn(f, h, T)
             PROVE  g[T] = h[T]
  OBVIOUS
<1> DEFINE Bad == {k \in Nat : \E s \in UpTo(T, k) : g[s] # h[s]}
<1>0. /\ \A s \in SUBSET S : g[s] = IF s = {} THEN 1 ELSE f[First(s)] * g[s \ {First(s)}]
      /\ \A s \in SUBSET T : h[s] = IF s = {} THEN 1 ELSE f[First(s)] * h[s \ {First(s)}]
  BY Zenon DEF Prods, ProdsIn
<1>1. IsFiniteSet(T)
  BY FS_Subset
<1>2. ASSUME Bad # {} PROVE FALSE
  <2>1. PICK k \in Bad : \A i \in Bad : k <= i
    BY <1>2, LeastNatural
  <2>2. PICK s \in UpTo(T, k) : g[s] # h[s]
    BY <2>1
  <2>3. k \in Nat /\ s \in SUBSET T /\ s \in SUBSET S
    BY <2>1, <2>2 DEF UpTo
  <2>4. s # {}
    BY <1>0, <2>2, <2>3
  <2>5. First(s) \in s /\ k - 1 \in Nat /\ s \ {First(s)} \in UpTo(T, k - 1)
    BY <1>1, <2>3, <2>4, Smaller
  <2>6. g[s \ {First(s)}] = h[s \ {First(s)}]
    <3>1. k - 1 \notin Bad
      BY <2>1, <2>3, <2>5
    <3> QED BY <2>5, <3>1
  <2> QED BY <1>0, <2>2, <2>3, <2>4, <2>6
<1> QED BY <1>1, <1>2, AllSizes

(* A product of numbers over a finite set.                                 *)
LEMMA Products ==
  ASSUME NEW S, IsFiniteSet(S), NEW f, \A x \in S : f[x] \in Nat
  PROVE  /\ ProductOver(f, S) \in Nat /\ (S = {} => ProductOver(f, S) = 1)
         /\ \A x \in S : ProductOver(f, S) = f[x] * ProductOver(f, S \ {x})
<1>1. ASSUME NEW T
      PROVE  ProductOver(f, T) = (CHOOSE g : Prods(f, g, SUBSET T))[T]
  BY Zenon DEF ProductOver, FoldFunctionOnSet, MapThenFoldSet, Prods, First
<1>2. PICK g : g = CHOOSE k : Prods(f, k, SUBSET S)
  OBVIOUS
<1>3. Prods(f, g, SUBSET S) /\ ProductOver(f, S) = g[S]
  BY <1>1, <1>2, ProdsExist
<1>4. \A U \in SUBSET S : \A k : ProdsIn(f, k, U) => g[U] = k[U]
  <2>1. ProdsIn(f, g, S)
    BY <1>3, Zenon DEF ProdsIn
  <2> QED BY <2>1, ProdsAgree
<1>5. ASSUME NEW x \in S PROVE ProductOver(f, S \ {x}) = g[S \ {x}]
  <2>1. PICK h : h = CHOOSE k : Prods(f, k, SUBSET (S \ {x}))
    OBVIOUS
  <2>2. IsFiniteSet(S \ {x})
    BY FS_Subset
  <2>3. Prods(f, h, SUBSET (S \ {x})) /\ ProductOver(f, S \ {x}) = h[S \ {x}]
    BY <1>1, <2>1, <2>2, ProdsExist
  <2>4. PICK T \in SUBSET S : T = S \ {x}
    OBVIOUS
  <2>5. ProdsIn(f, h, T)
    BY <2>3, <2>4, Zenon DEF ProdsIn
  <2>7. g[T] = h[T]
    BY <1>4, <2>5, Zenon
  <2> QED BY <2>3, <2>4, <2>7
<1>6. /\ g[{}] = 1 /\ g[S] \in Nat
      /\ \A x \in S : g[S] = f[x] * g[S \ {x}]
  BY <1>3, ProdsAnyFirst
<1> QED BY <1>3, <1>5, <1>6

-----------------------------------------------------------------------------
(* Local ids: the digits of a coroutine's number.                          *)

(* A local size is a number.                                               *)
LEMMA LocalSizes ==
  ASSUME NEW r \in Requests
  PROVE  /\ Len(r.lsz) \in 1 .. 3 /\ Dims(r) = 1 .. Len(r.lsz)
         /\ \A d \in Dims(r) : r.lsz[d] \in Nat /\ r.gsz[d] \in Nat
<1>1. /\ r.gsz \in Seq(Nat) /\ r.lsz \in Seq(Nat)
      /\ Len(r.gsz) \in 1 .. 3 /\ Len(r.lsz) = Len(r.gsz)
  BY RequestsAreRanges
<1>2. \A s \in Seq(Nat) : \A d \in 1 .. Len(s) : s[d] \in Nat
  BY ElementType
<1> QED BY <1>1, <1>2 DEF Dims

(* Every stride is the one before times the size of its dimension.         *)
LEMMA Strides ==
  ASSUME NEW r \in Requests, \A d \in Dims(r) : r.lsz[d] # 0
  PROVE  /\ Stride(r, 1) = 1
         /\ \A d \in 1 .. Len(r.lsz) + 1 : Stride(r, d) \in Nat \ {0}
         /\ \A d \in Dims(r) : Stride(r, d + 1) = r.lsz[d] * Stride(r, d)
         /\ Coroutines(r) = 0 .. Stride(r, Len(r.lsz) + 1) - 1
<1>1. PICK n \in 1 .. 3 : n = Len(r.lsz) /\ Dims(r) = 1 .. n
  BY LocalSizes
<1>2. \A d \in 1 .. n : r.lsz[d] \in Nat \ {0}
  BY <1>1, LocalSizes
<1>3. ASSUME NEW m \in 0 .. n
      PROVE  /\ ProductOver(r.lsz, 1 .. m) \in Nat
             /\ m = 0 => ProductOver(r.lsz, 1 .. m) = 1
             /\ m # 0 => ProductOver(r.lsz, 1 .. m)
                           = r.lsz[m] * ProductOver(r.lsz, 1 .. m - 1)
  <2>1. PICK S : S = 1 .. m
    OBVIOUS
  <2>2. IsFiniteSet(S)
    BY <2>1, FS_Interval
  <2>3. \A x \in S : r.lsz[x] \in Nat
    BY <1>2, <2>1
  <2>4. /\ ProductOver(r.lsz, S) \in Nat
        /\ S = {} => ProductOver(r.lsz, S) = 1
        /\ \A x \in S : ProductOver(r.lsz, S) = r.lsz[x] * ProductOver(r.lsz, S \ {x})
    BY <2>2, <2>3, Products
  <2>5. /\ m = 0 => S = {}
        /\ m # 0 => m \in S /\ S \ {m} = 1 .. m - 1
    BY <2>1
  <2> QED BY <2>1, <2>4, <2>5
<1>4. Stride(r, 1) = 1
  <2>1. 1 - 1 = 0 /\ 0 \in 0 .. n
    OBVIOUS
  <2> QED BY <1>3, <2>1 DEF Stride
<1>5. ASSUME NEW d \in 1 .. n
      PROVE  Stride(r, d + 1) = r.lsz[d] * Stride(r, d)
  <2>1. d + 1 - 1 = d /\ d \in 0 .. n /\ d # 0
    OBVIOUS
  <2> QED BY <1>3, <2>1 DEF Stride
<1>6. \A d \in 1 .. n + 1 : Stride(r, d) \in Nat \ {0}
  <2>1. ASSUME NEW d \in 1 .. n, Stride(r, d) \in Nat \ {0}
        PROVE  Stride(r, d + 1) \in Nat \ {0}
    <3>1. PICK a \in Nat \ {0}, b \in Nat \ {0} :
             a = r.lsz[d] /\ b = Stride(r, d) /\ Stride(r, d + 1) = a * b
      BY <1>2, <1>5, <2>1
    <3> QED BY <3>1
  <2>2. /\ Stride(r, 1) \in Nat \ {0} /\ Stride(r, 1 + 1) \in Nat \ {0}
        /\ n >= 2 => Stride(r, 2 + 1) \in Nat \ {0}
        /\ n >= 3 => Stride(r, 3 + 1) \in Nat \ {0}
    BY <1>4, <2>1
  <2> QED BY <2>2
<1>7. Coroutines(r) = 0 .. Stride(r, n + 1) - 1
  <2>1. n + 1 - 1 = n
    OBVIOUS
  <2> QED BY <1>1, <2>1 DEF Coroutines, Stride
<1> QED BY <1>1, <1>4, <1>5, <1>6, <1>7

(* Division of a coroutine's number by the strides, one dimension at a     *)
(* time: the rest is the local id, and nothing is left in the end.         *)
LEMMA Digits ==
  ASSUME NEW r \in Requests, \A d \in Dims(r) : r.lsz[d] # 0, NEW t \in Nat
  PROVE  /\ t \div Stride(r, 1) = t
         /\ \A d \in Dims(r) :
              /\ LocalId(r, t, d) \in 0 .. r.lsz[d] - 1
              /\ t \div Stride(r, d) \in Nat /\ t \div Stride(r, d + 1) \in Nat
              /\ t \div Stride(r, d + 1) = (t \div Stride(r, d)) \div r.lsz[d]
              /\ t \div Stride(r, d)
                   = (t \div Stride(r, d + 1)) * r.lsz[d] + LocalId(r, t, d)
         /\ t \in Coroutines(r) <=> t \div Stride(r, Len(r.lsz) + 1) = 0
<1>1. t \div Stride(r, 1) = t
  BY Strides
<1>2. ASSUME NEW d \in Dims(r)
      PROVE  /\ LocalId(r, t, d) \in 0 .. r.lsz[d] - 1
             /\ t \div Stride(r, d) \in Nat /\ t \div Stride(r, d + 1) \in Nat
             /\ t \div Stride(r, d + 1) = (t \div Stride(r, d)) \div r.lsz[d]
             /\ t \div Stride(r, d)
                  = (t \div Stride(r, d + 1)) * r.lsz[d] + LocalId(r, t, d)
  <2>1. d \in 1 .. Len(r.lsz) + 1 /\ Len(r.lsz) \in 1 .. 3
    BY LocalSizes
  <2>2. PICK a \in Nat \ {0}, b \in Nat \ {0} : a = Stride(r, d) /\ b = r.lsz[d]
    BY <2>1, LocalSizes, Strides
  <2>3. Stride(r, d + 1) = b * a
    BY <2>2, Strides
  <2>4. PICK q \in Nat : q = t \div a
    BY Rest
  <2>5. q \div b = t \div (b * a)
    BY <2>4, QuotientTwice
  <2>6. q \div b \in Nat /\ q % b \in 0 .. b - 1 /\ q = (q \div b) * b + (q % b)
    BY Rest
  <2>7. LocalId(r, t, d) = q % b
    BY <2>2, <2>4 DEF LocalId
  <2> QED BY <2>2, <2>3, <2>4, <2>5, <2>6, <2>7, Zenon
<1>3. t \in Coroutines(r) <=> t \div Stride(r, Len(r.lsz) + 1) = 0
  <2>1. PICK m \in Nat \ {0} : m = Stride(r, Len(r.lsz) + 1)
    <3>1. Len(r.lsz) + 1 \in 1 .. Len(r.lsz) + 1
      BY LocalSizes
    <3> QED BY <3>1, Strides
  <2>2. Coroutines(r) = 0 .. m - 1
    BY <2>1, Strides
  <2>3. t < m <=> t \div m = 0
    <3>1. t < m => t \div m = 0
      <4>1. t < m => t \in 0 .. m - 1 /\ t = 0 * m + t
        OBVIOUS
      <4>2. t \in 0 .. m - 1 => (0 * m + t) \div m = 0
        BY Quotient
      <4> QED BY <4>1, <4>2
    <3>2. t \div m = 0 => t < m
      BY Rest
    <3> QED BY <3>1, <3>2
  <2> QED BY <2>1, <2>2, <2>3
<1> QED BY <1>1, <1>2, <1>3

(* No two coroutines of a block have the same local ids.                   *)
LEMMA LocalIdsDiffer ==
  ASSUME NEW r \in Requests, \A d \in Dims(r) : r.lsz[d] # 0,
         NEW t \in Coroutines(r), NEW u \in Coroutines(r),
         \A d \in Dims(r) : LocalId(r, t, d) = LocalId(r, u, d)
  PROVE  t = u
<1>1. PICK n \in 1 .. 3 : n = Len(r.lsz) /\ Dims(r) = 1 .. n
  BY LocalSizes
<1>2. t \in Nat /\ u \in Nat
  BY DEF Coroutines
<1> DEFINE Q(s, d) == s \div Stride(r, d)
<1>3. Q(t, n + 1) = 0 /\ Q(u, n + 1) = 0
  BY <1>1, <1>2, Digits
<1>4. \A d \in 1 .. n : Q(t, d + 1) = Q(u, d + 1) => Q(t, d) = Q(u, d)
  BY <1>1, <1>2, Digits
<1>5. Q(t, 1) = t /\ Q(u, 1) = u
  BY <1>2, Digits
<1> HIDE DEF Q
<1>6. /\ n = 1 => Q(t, 1 + 1) = Q(u, 1 + 1)
      /\ n = 2 => Q(t, 2 + 1) = Q(u, 2 + 1)
      /\ n = 3 => Q(t, 3 + 1) = Q(u, 3 + 1)
  BY <1>3
<1> QED BY <1>4, <1>5, <1>6

(* Every choice of local ids is that of a coroutine.                       *)
LEMMA LocalIdsReached ==
  ASSUME NEW r \in Requests, \A d \in Dims(r) : r.lsz[d] # 0,
         NEW v, \A d \in Dims(r) : v[d] \in 0 .. r.lsz[d] - 1
  PROVE  \E t \in Coroutines(r) : \A d \in Dims(r) : LocalId(r, t, d) = v[d]
<1>1. PICK n \in 1 .. 3 : n = Len(r.lsz) /\ Dims(r) = 1 .. n
  BY LocalSizes
<1>2. \A d \in 1 .. n : r.lsz[d] \in Nat \ {0} /\ v[d] \in Nat
  BY <1>1, LocalSizes
<1>3. ASSUME NEW d \in 1 .. n, NEW k \in Nat
      PROVE  \E i \in Nat : i = k * r.lsz[d] + v[d]
  <2>1. PICK a \in Nat, b \in Nat : a = r.lsz[d] /\ b = v[d]
    BY <1>2
  <2> QED BY <2>1
<1>4. PICK w \in [1 .. 4 -> Nat] :
         w[n + 1] = 0 /\ \A d \in 1 .. n : w[d] = w[d + 1] * r.lsz[d] + v[d]
  <2>1. CASE n = 1
    <3>1. PICK i \in Nat : i = 0 * r.lsz[1] + v[1]
      BY <1>3
    <3> WITNESS <<i, 0, 0, 0>> \in [1 .. 4 -> Nat]
    <3> QED BY <2>1, <3>1
  <2>2. CASE n = 2
    <3>1. PICK i \in Nat : i = 0 * r.lsz[2] + v[2]
      BY <1>3, <2>2
    <3>2. PICK j \in Nat : j = i * r.lsz[1] + v[1]
      BY <1>3, <2>2
    <3> WITNESS <<j, i, 0, 0>> \in [1 .. 4 -> Nat]
    <3> QED BY <2>2, <3>1, <3>2
  <2>3. CASE n = 3
    <3>0. 1 \in 1 .. n /\ 2 \in 1 .. n /\ 3 \in 1 .. n
      BY <2>3
    <3>1. PICK i \in Nat : i = 0 * r.lsz[3] + v[3]
      BY <1>3, <3>0, Zenon
    <3>2. PICK j \in Nat : j = i * r.lsz[2] + v[2]
      BY <1>3, <3>0, Zenon
    <3>3. PICK k \in Nat : k = j * r.lsz[1] + v[1]
      BY <1>3, <3>0, Zenon
    <3> WITNESS <<k, j, i, 0>> \in [1 .. 4 -> Nat]
    <3> QED BY <2>3, <3>1, <3>2, <3>3
  <2> QED BY <2>1, <2>2, <2>3
<1>5. PICK t \in Nat : t = w[1]
  OBVIOUS
<1> DEFINE Q(d) == t \div Stride(r, d)
<1>6. \A d \in 1 .. n : Q(d) = w[d] => Q(d + 1) = w[d + 1] /\ LocalId(r, t, d) = v[d]
  <2> SUFFICES ASSUME NEW d \in 1 .. n, Q(d) = w[d]
               PROVE  Q(d + 1) = w[d + 1] /\ LocalId(r, t, d) = v[d]
    OBVIOUS
  <2>1. PICK a \in Nat \ {0}, k \in Nat, b \in Nat :
           b \in 0 .. a - 1 /\ a = r.lsz[d] /\ k = w[d + 1] /\ b = v[d]
    <3>1. d + 1 \in 1 .. 4
      OBVIOUS
    <3> QED BY <1>1, <1>2, <1>4, <3>1
  <2>2. w[d] = k * a + b
    BY <1>4, <2>1
  <2>3. Q(d + 1) = Q(d) \div a /\ LocalId(r, t, d) = Q(d) % a
    <3>1. d \in Dims(r)
      BY <1>1
    <3>2. Q(d + 1) = Q(d) \div a
      BY <2>1, <3>1, Digits
    <3> QED BY <2>1, <3>2, Zenon DEF LocalId
  <2>4. (k * a + b) \div a = k /\ (k * a + b) % a = b
    BY <2>1, Quotient
  <2> QED BY <2>1, <2>2, <2>3, <2>4, Zenon
<1>7. Q(1) = w[1]
  BY <1>5, Digits
<1>8. t \in Coroutines(r) <=> Q(n + 1) = 0
  BY <1>1, Digits
<1> HIDE DEF Q
<1>9. Q(n + 1) = w[n + 1] /\ \A d \in 1 .. n : LocalId(r, t, d) = v[d]
  <2>1. /\ Q(1 + 1) = w[1 + 1] /\ LocalId(r, t, 1) = v[1]
        /\ n >= 2 => Q(2 + 1) = w[2 + 1] /\ LocalId(r, t, 2) = v[2]
        /\ n >= 3 => Q(3 + 1) = w[3 + 1] /\ LocalId(r, t, 3) = v[3]
    BY <1>6, <1>7
  <2> QED BY <2>1
<1> QED BY <1>1, <1>4, <1>8, <1>9

-----------------------------------------------------------------------------
(* Global ids: work-items are the ids of whole work-groups.                *)

(* The blocks of a dimension are whole groups of its work-items.           *)
LEMMA BlocksAreWhole ==
  ASSUME NEW r \in Requests, NEW d \in Dims(r), r.lsz[d] # 0
  PROVE  /\ Blocks(r, d) \in Nat /\ Blocks(r, d) * r.lsz[d] \in Nat
         /\ Blocks(r, d) * r.lsz[d] <= r.gsz[d]
<1>1. PICK a \in Nat \ {0}, b \in Nat : a = r.lsz[d] /\ b = r.gsz[d]
  BY LocalSizes
<1>2. PICK q \in Nat : q = b \div a /\ b = q * a + (b % a) /\ b % a \in Nat
  BY Rest
<1>3. q * a \in Nat /\ q * a <= b
  BY <1>2
<1>4. Blocks(r, d) = q
  BY <1>1, <1>2 DEF Blocks
<1> QED BY <1>1, <1>3, <1>4

(* The id of a coroutine of a block is a number of a whole group.          *)
LEMMA IdsAreWhole ==
  ASSUME NEW r \in Requests, \A d \in Dims(r) : r.lsz[d] # 0,
         NEW blk, \A d \in Dims(r) : blk[d] \in 0 .. Blocks(r, d) - 1,
         NEW t \in Coroutines(r)
  PROVE  GlobalId(r, blk, t) \in WholeGroups(r)
<1>1. t \in Nat
  BY DEF Coroutines
<1>2. ASSUME NEW d \in Dims(r)
      PROVE  /\ blk[d] * r.lsz[d] + LocalId(r, t, d) \in 0 .. r.gsz[d] - 1
             /\ blk[d] * r.lsz[d] + LocalId(r, t, d) < Blocks(r, d) * r.lsz[d]
  <2>1. PICK a \in Nat \ {0}, c \in Nat, q \in Nat, b \in Nat, v \in Nat :
           /\ a = r.lsz[d] /\ c = r.gsz[d] /\ q = Blocks(r, d)
           /\ b = blk[d] /\ v = LocalId(r, t, d)
           /\ b < q /\ v < a /\ q * a \in Nat /\ q * a <= c
    <3>1. r.lsz[d] \in Nat \ {0} /\ r.gsz[d] \in Nat
      BY LocalSizes
    <3>2. LocalId(r, t, d) \in 0 .. r.lsz[d] - 1
      BY <1>1, Digits
    <3>3. /\ Blocks(r, d) \in Nat /\ Blocks(r, d) * r.lsz[d] \in Nat
          /\ Blocks(r, d) * r.lsz[d] <= r.gsz[d]
      BY BlocksAreWhole
    <3>4. blk[d] \in Nat /\ blk[d] < Blocks(r, d)
      BY <3>3
    <3> QED BY <3>1, <3>2, <3>3, <3>4
  <2>2. b * a + v \in Nat /\ b * a + v < q * a
    <3>1. PICK m \in Nat : q = b + 1 + m
      <4>1. q - b - 1 \in Nat /\ q = b + 1 + (q - b - 1)
        BY <2>1
      <4> QED BY <4>1
    <3>2. q * a = b * a + a + m * a /\ m * a \in Nat /\ b * a \in Nat
      BY <3>1
    <3> QED BY <2>1, <3>2
  <2> QED BY <2>1, <2>2
<1>3. \A d \in Dims(r) : blk[d] * r.lsz[d] + LocalId(r, t, d)
                           \in UNION {0 .. r.gsz[e] - 1 : e \in Dims(r)}
  BY <1>2
<1> QED BY <1>2, <1>3 DEF GlobalId, WholeGroups

(* Every work-item of a whole group is the id of a coroutine of a block.   *)
LEMMA WholeIdsAreReached ==
  ASSUME NEW r \in Requests, \A d \in Dims(r) : r.lsz[d] # 0,
         NEW g \in WholeGroups(r)
  PROVE  \E blk \in [Dims(r) -> UNION {0 .. Blocks(r, d) - 1 : d \in Dims(r)}] :
           \E t \in Coroutines(r) :
             /\ \A d \in Dims(r) : blk[d] \in 0 .. Blocks(r, d) - 1
             /\ GlobalId(r, blk, t) = g
<1>1. /\ g = [d \in Dims(r) |-> g[d]]
      /\ \A d \in Dims(r) : g[d] \in Nat /\ g[d] < Blocks(r, d) * r.lsz[d]
  BY LocalSizes DEF WholeGroups
<1> DEFINE blk == [d \in Dims(r) |-> g[d] \div r.lsz[d]]
           v == [d \in Dims(r) |-> g[d] % r.lsz[d]]
<1>2. ASSUME NEW d \in Dims(r)
      PROVE  /\ v[d] \in 0 .. r.lsz[d] - 1
             /\ blk[d] \in 0 .. Blocks(r, d) - 1
             /\ g[d] = blk[d] * r.lsz[d] + v[d]
  <2>1. PICK a \in Nat \ {0}, q \in Nat, x \in Nat :
           a = r.lsz[d] /\ q = Blocks(r, d) /\ x = g[d] /\ x < q * a
    BY <1>1, LocalSizes, BlocksAreWhole
  <2>2. PICK b \in Nat, w \in Nat : b = x \div a /\ w = x % a /\ w < a /\ x = b * a + w
    BY Rest
  <2>3. b < q
    <3>1. ASSUME q <= b PROVE FALSE
      <4>1. PICK m \in Nat : b = q + m
        <5>1. b - q \in Nat /\ b = q + (b - q)
          BY <3>1
        <5> QED BY <5>1
      <4>2. b * a = q * a + m * a /\ m * a \in Nat /\ q * a \in Nat
        BY <4>1
      <4> QED BY <2>1, <2>2, <4>2
    <3> QED BY <3>1
  <2>4. blk[d] = b /\ v[d] = w
    BY <2>1, <2>2
  <2>5. w \in 0 .. a - 1 /\ b \in 0 .. q - 1
    BY <2>2, <2>3
  <2> HIDE DEF blk, v
  <2> QED BY <2>1, <2>2, <2>4, <2>5, Zenon
<1>3. blk \in [Dims(r) -> UNION {0 .. Blocks(r, d) - 1 : d \in Dims(r)}]
  <2>1. \A d \in Dims(r) : blk[d] \in UNION {0 .. Blocks(r, e) - 1 : e \in Dims(r)}
    BY <1>2
  <2> QED BY <2>1
<1> HIDE DEF blk, v
<1>4. PICK t \in Coroutines(r) : \A d \in Dims(r) : LocalId(r, t, d) = v[d]
  BY <1>2, LocalIdsReached
<1>5. GlobalId(r, blk, t) = g
  <2>1. \A d \in Dims(r) : blk[d] * r.lsz[d] + LocalId(r, t, d) = g[d]
    BY <1>2, <1>4
  <2> QED BY <1>1, <2>1 DEF GlobalId
<1> QED BY <1>2, <1>3, <1>5

(* No two coroutines of the NDRange have the same id.                      *)
LEMMA IdsDiffer ==
  ASSUME NEW r \in Requests, \A d \in Dims(r) : r.lsz[d] # 0,
         NEW blk \in [Dims(r) -> Nat], NEW b2 \in [Dims(r) -> Nat],
         NEW t \in Coroutines(r), NEW t2 \in Coroutines(r),
         GlobalId(r, blk, t) = GlobalId(r, b2, t2)
  PROVE  blk = b2 /\ t = t2
<1>1. t \in Nat /\ t2 \in Nat
  BY DEF Coroutines
<1>2. ASSUME NEW d \in Dims(r)
      PROVE  blk[d] = b2[d] /\ LocalId(r, t, d) = LocalId(r, t2, d)
  <2>1. GlobalId(r, blk, t)[d] = blk[d] * r.lsz[d] + LocalId(r, t, d)
    BY Zenon DEF GlobalId
  <2>2. GlobalId(r, b2, t2)[d] = b2[d] * r.lsz[d] + LocalId(r, t2, d)
    BY Zenon DEF GlobalId
  <2>3. PICK a \in Nat \ {0}, i \in Nat, j \in Nat, v \in Nat, w \in Nat :
           /\ a = r.lsz[d] /\ i = blk[d] /\ j = b2[d]
           /\ v = LocalId(r, t, d) /\ w = LocalId(r, t2, d)
           /\ v \in 0 .. a - 1 /\ w \in 0 .. a - 1
    <3>1. r.lsz[d] \in Nat \ {0} /\ blk[d] \in Nat /\ b2[d] \in Nat
      BY LocalSizes
    <3>2. LocalId(r, t, d) \in 0 .. r.lsz[d] - 1
      BY <1>1, Digits
    <3>3. LocalId(r, t2, d) \in 0 .. r.lsz[d] - 1
      BY <1>1, Digits
    <3> QED BY <3>1, <3>2, <3>3
  <2>4. i * a + v = j * a + w
    BY <2>1, <2>2, <2>3, Zenon
  <2>5. /\ (i * a + v) \div a = i /\ (i * a + v) % a = v
        /\ (j * a + w) \div a = j /\ (j * a + w) % a = w
    BY <2>3, Quotient
  <2>6. i = j /\ v = w
    BY <2>4, <2>5, Zenon
  <2> QED BY <2>3, <2>6
<1>3. t = t2
  BY <1>2, LocalIdsDiffer
<1> QED BY <1>2, <1>3

(* The work-items of whole groups are finitely many: an id is no more than *)
(* three numbers below the largest global size.                            *)
LEMMA WholeGroupsFinite ==
  ASSUME NEW r \in Requests
  PROVE  IsFiniteSet(WholeGroups(r))
<1>1. PICK n \in 1 .. 3 : Dims(r) = 1 .. n /\ \A d \in 1 .. n : r.gsz[d] \in Nat
  BY LocalSizes
<1>2. PICK m \in Nat : \A d \in 1 .. n : r.gsz[d] <= m
  <2>1. CASE n = 1
    BY <1>1, <2>1
  <2>2. CASE n = 2
    <3>1. r.gsz[1] \in Nat /\ r.gsz[2] \in Nat
      BY <1>1, <2>2
    <3>2. r.gsz[1] + r.gsz[2] \in Nat
      BY <3>1
    <3> WITNESS r.gsz[1] + r.gsz[2] \in Nat
    <3> QED BY <2>2, <3>1
  <2>3. CASE n = 3
    <3>1. r.gsz[1] \in Nat /\ r.gsz[2] \in Nat /\ r.gsz[3] \in Nat
      BY <1>1, <2>3
    <3>2. r.gsz[1] + r.gsz[2] + r.gsz[3] \in Nat
      BY <3>1
    <3> WITNESS r.gsz[1] + r.gsz[2] + r.gsz[3] \in Nat
    <3> QED BY <2>3, <3>1
  <2> QED BY <2>1, <2>2, <2>3
<1> DEFINE W == WholeGroups(r)
           A == 0 .. m
           F == [g \in W |-> <<g[1], <<IF n >= 2 THEN g[2] ELSE 0,
                                       IF n >= 3 THEN g[3] ELSE 0>>>>]
<1>3. \A g \in W : g = [d \in 1 .. n |-> g[d]] /\ \A d \in 1 .. n : g[d] \in A
  <2>1. ASSUME NEW g \in W
        PROVE  /\ g \in [1 .. n -> UNION {0 .. r.gsz[d] - 1 : d \in 1 .. n}]
               /\ \A d \in 1 .. n : g[d] \in A
    <3>1. g \in [1 .. n -> UNION {0 .. r.gsz[d] - 1 : d \in 1 .. n}]
      BY <1>1 DEF WholeGroups
    <3>2. ASSUME NEW d \in 1 .. n PROVE g[d] \in A
      <4>1. PICK e \in 1 .. n : g[d] \in 0 .. r.gsz[e] - 1
        BY <3>1
      <4>2. r.gsz[e] \in Nat /\ r.gsz[e] <= m
        BY <1>1, <1>2
      <4> QED BY <4>1, <4>2
    <3> QED BY <3>1, <3>2
  <2> QED BY <2>1
<1> HIDE DEF W, A
<1>4. F \in [W -> A \X (A \X A)]
  <2>1. 0 \in A
    BY DEF A
  <2>2. ASSUME NEW g \in W PROVE F[g] \in A \X (A \X A)
    <3>1. g[1] \in A /\ (n >= 2 => g[2] \in A) /\ (n >= 3 => g[3] \in A)
      BY <1>3
    <3> QED BY <2>1, <3>1
  <2> QED BY <2>2
<1>5. ASSUME NEW g \in W, NEW h \in W, F[g] = F[h] PROVE g = h
  <2>1. /\ g[1] = h[1]
        /\ n >= 2 => g[2] = h[2]
        /\ n >= 3 => g[3] = h[3]
    BY <1>5
  <2>2. \A d \in 1 .. n : g[d] = h[d]
    BY <2>1
  <2> QED BY <1>3, <2>2
<1>6. F \in Injection(W, A \X (A \X A))
  BY <1>4, <1>5 DEF Injection, IsInjective
<1>7. IsFiniteSet(A \X (A \X A))
  <2>1. IsFiniteSet(A)
    BY FS_Interval DEF A
  <2> QED BY <2>1, FS_Product
<1>8. IsFiniteSet(W)
  BY <1>6, <1>7, FS_Injection
<1> QED BY <1>8 DEF W

(* A dimension without work-items in its groups leaves no work at all.     *)
LEMMA NoWork ==
  ASSUME NEW r \in Requests, NEW d \in Dims(r), r.lsz[d] = 0
  PROVE  Coroutines(r) = {} /\ WholeGroups(r) = {}
<1>1. Coroutines(r) = {}
  <2>1. PICK S : S = Dims(r)
    OBVIOUS
  <2>2. IsFiniteSet(S) /\ \A x \in S : r.lsz[x] \in Nat
    <3>1. IsFiniteSet(1 .. Len(r.lsz))
      BY LocalSizes, FS_Interval
    <3> QED BY <2>1, <3>1, LocalSizes
  <2>3. d \in S /\ IsFiniteSet(S \ {d}) /\ \A x \in S \ {d} : r.lsz[x] \in Nat
    BY <2>1, <2>2, FS_Subset
  <2>4. PICK k \in Nat : k = ProductOver(r.lsz, S \ {d})
    BY <2>3, Products
  <2>5. ProductOver(r.lsz, S) = r.lsz[d] * k
    BY <2>2, <2>3, <2>4, Products
  <2>6. ProductOver(r.lsz, Dims(r)) = 0
    BY <2>1, <2>5
  <2> QED BY <2>6 DEF Coroutines
<1>2. WholeGroups(r) = {}
  <2>1. Blocks(r, d) * r.lsz[d] = 0
    BY DEF Blocks
  <2>2. ASSUME NEW g \in WholeGroups(r) PROVE FALSE
    <3>1. g[d] \in Nat
      BY LocalSizes DEF WholeGroups
    <3>2. g[d] < Blocks(r, d) * r.lsz[d]
      BY DEF WholeGroups
    <3> QED BY <2>1, <3>1, <3>2
  <2> QED BY <2>2
<1> QED BY <1>1, <1>2

(* EveryItemOnce for every number of engines and every request, of any     *)
(* size: the work-items of the engines and those of the whole groups       *)
(* correspond one to one, whatever the local size divides.                 *)
THEOREM EngineItemsAreTheRange == Spec => []EveryItemOnce
<1>1. ASSUME IInv, Tiles, Balanced
      PROVE  EveryItemOnce
  <2> SUFFICES ASSUME done
               PROVE  /\ {GlobalId(req, i[2], i[3]) : i \in WorkItems(req, part)}
                           = WholeGroups(req)
                      /\ Cardinality(WorkItems(req, part)) = Cardinality(WholeGroups(req))
    BY DEF EveryItemOnce
  <2>1. PICK r \in Requests : r = req
    BY <1>1 DEF IInv, TypeOK
  <2>2. PICK p : p = part
    OBVIOUS
  <2>3. PICK n \in Nat \ {0} :
           /\ n = nve /\ DOMAIN p = 1 .. n
           /\ \A e \in 1 .. n : p[e].first \in Nat /\ p[e].end \in Nat
    <3>1. nve \in Nat \ {0} /\ Len(part) = nve /\ part \in Seq([first : Nat, end : Nat])
      BY <1>1, Finished DEF IInv, TypeOK
    <3>2. \A e \in 1 .. Len(part) : part[e] \in [first : Nat, end : Nat]
      BY <3>1, ElementType
    <3> QED BY <2>2, <3>1, <3>2
  <2>4. \A b \in 0 .. Blocks(r, 1) - 1 :
          \E e \in 1 .. n :
            /\ p[e].first <= b /\ b < p[e].end
            /\ \A f \in 1 .. n : p[f].first <= b /\ b < p[f].end => f = e
    BY <1>1, <2>1, <2>2, <2>3 DEF Tiles
  <2>5. \A e \in 1 .. n : p[e].end <= Blocks(r, 1)
    BY <1>1, <2>1, <2>2, <2>3 DEF Balanced
  <2> DEFINE I == WorkItems(r, p)
             W == WholeGroups(r)
             F == [i \in I |-> GlobalId(r, i[2], i[3])]
  <2>6. {GlobalId(r, i[2], i[3]) : i \in I} = W /\ Cardinality(I) = Cardinality(W)
    <3>1. CASE \E d \in Dims(r) : r.lsz[d] = 0
      <4>1. Coroutines(r) = {} /\ W = {}
        BY <3>1, NoWork
      <4>2. I = {}
        BY <4>1 DEF WorkItems
      <4> HIDE DEF I, W
      <4> QED BY <4>1, <4>2
    <3>2. CASE \A d \in Dims(r) : r.lsz[d] # 0
      <4>0. 1 \in Dims(r)
        BY LocalSizes
      <4>1. ASSUME NEW i \in I
            PROVE  \E e \in 1 .. n :
                     \E blk \in EntryBlocks(r, p[e]) :
                       \E t \in Coroutines(r) : i = <<e, blk, t>>
        BY <2>3 DEF WorkItems
      <4>2. ASSUME NEW e \in 1 .. n, NEW blk \in EntryBlocks(r, p[e]),
                   NEW t \in Coroutines(r)
            PROVE  <<e, blk, t>> \in I
        BY <2>3 DEF WorkItems
      <4> HIDE DEF I
      <4>3. ASSUME NEW e \in 1 .. n, NEW blk \in EntryBlocks(r, p[e])
            PROVE  /\ blk \in [Dims(r) -> Nat]
                   /\ \A d \in Dims(r) : blk[d] \in 0 .. Blocks(r, d) - 1
        <5>1. \A d \in Dims(r) : Blocks(r, d) \in Nat
          BY <3>2, BlocksAreWhole
        <5>2. /\ blk \in [Dims(r) -> UNION {0 .. Blocks(r, d) - 1 : d \in Dims(r)}]
              /\ blk[1] < p[e].end
              /\ \A d \in Dims(r) \ {1} : blk[d] < Blocks(r, d)
          BY DEF EntryBlocks
        <5>3. UNION {0 .. Blocks(r, d) - 1 : d \in Dims(r)} \subseteq Nat
          BY <5>1
        <5>4. blk \in [Dims(r) -> Nat]
          BY <5>2, <5>3
        <5>5. blk[1] < Blocks(r, 1)
          <6>1. blk[1] \in Nat /\ p[e].end \in Nat /\ Blocks(r, 1) \in Nat
            BY <2>3, <4>0, <5>1, <5>4
          <6> QED BY <2>5, <5>2, <6>1
        <5>6. ASSUME NEW d \in Dims(r)
              PROVE  blk[d] \in 0 .. Blocks(r, d) - 1
          <6>1. blk[d] \in Nat /\ Blocks(r, d) \in Nat /\ blk[d] < Blocks(r, d)
            BY <5>1, <5>2, <5>4, <5>5
          <6> QED BY <6>1
        <5> QED BY <5>4, <5>6
      <4>4. ASSUME NEW i \in I PROVE F[i] \in W
        <5>1. PICK e \in 1 .. n :
                \E blk \in EntryBlocks(r, p[e]) :
                  \E t \in Coroutines(r) : i = <<e, blk, t>>
          BY <4>1
        <5>2. PICK blk \in EntryBlocks(r, p[e]) :
                \E t \in Coroutines(r) : i = <<e, blk, t>>
          BY <5>1
        <5>3. PICK t \in Coroutines(r) : i = <<e, blk, t>>
          BY <5>2
        <5>4. \A d \in Dims(r) : blk[d] \in 0 .. Blocks(r, d) - 1
          BY <4>3
        <5>5. GlobalId(r, blk, t) \in W
          BY <3>2, <5>4, IdsAreWhole
        <5>6. i[2] = blk /\ i[3] = t
          BY <5>3
        <5> HIDE DEF W
        <5> QED BY <5>5, <5>6
      <4>5. ASSUME NEW g \in W PROVE \E i \in I : F[i] = g
        <5>1. PICK blk \in [Dims(r) -> UNION {0 .. Blocks(r, d) - 1 : d \in Dims(r)}] :
                \E t \in Coroutines(r) :
                  /\ \A d \in Dims(r) : blk[d] \in 0 .. Blocks(r, d) - 1
                  /\ GlobalId(r, blk, t) = g
          BY <3>2, WholeIdsAreReached
        <5>2. PICK t \in Coroutines(r) :
                  /\ \A d \in Dims(r) : blk[d] \in 0 .. Blocks(r, d) - 1
                  /\ GlobalId(r, blk, t) = g
          BY <5>1
        <5>3. PICK e \in 1 .. n : p[e].first <= blk[1] /\ blk[1] < p[e].end
          BY <2>4, <4>0, <5>2
        <5>4. blk \in EntryBlocks(r, p[e])
          <6>1. \A d \in Dims(r) \ {1} : blk[d] < Blocks(r, d)
            <7>1. \A d \in Dims(r) : Blocks(r, d) \in Nat
              BY <3>2, BlocksAreWhole
            <7> QED BY <5>2, <7>1
          <6>2. blk[1] >= p[e].first
            BY <2>3, <4>0, <5>2, <5>3
          <6> QED BY <5>1, <5>3, <6>1, <6>2 DEF EntryBlocks
        <5>5. <<e, blk, t>> \in I
          BY <4>2, <5>4
        <5> WITNESS <<e, blk, t>> \in I
        <5>6. <<e, blk, t>>[2] = blk /\ <<e, blk, t>>[3] = t
          OBVIOUS
        <5> QED BY <5>2, <5>5, <5>6
      <4>6. ASSUME NEW i \in I, NEW j \in I, F[i] = F[j] PROVE i = j
        <5>1. PICK e \in 1 .. n, e2 \in 1 .. n :
                /\ \E blk \in EntryBlocks(r, p[e]) :
                     \E t \in Coroutines(r) : i = <<e, blk, t>>
                /\ \E blk \in EntryBlocks(r, p[e2]) :
                     \E t \in Coroutines(r) : j = <<e2, blk, t>>
          BY <4>1
        <5>2. PICK blk \in EntryBlocks(r, p[e]), b2 \in EntryBlocks(r, p[e2]) :
                /\ \E t \in Coroutines(r) : i = <<e, blk, t>>
                /\ \E t \in Coroutines(r) : j = <<e2, b2, t>>
          BY <5>1
        <5>3. PICK t \in Coroutines(r), t2 \in Coroutines(r) :
                i = <<e, blk, t>> /\ j = <<e2, b2, t2>>
          BY <5>2
        <5>4. GlobalId(r, blk, t) = GlobalId(r, b2, t2)
          <6>1. i[2] = blk /\ i[3] = t /\ j[2] = b2 /\ j[3] = t2
            BY <5>3
          <6> QED BY <4>6, <6>1
        <5>5. /\ blk \in [Dims(r) -> Nat] /\ b2 \in [Dims(r) -> Nat]
              /\ blk[1] \in 0 .. Blocks(r, 1) - 1
          BY <4>0, <4>3
        <5>6. blk = b2 /\ t = t2
          BY <3>2, <5>4, <5>5, IdsDiffer
        <5>7. e = e2
          <6>1. /\ p[e].first <= blk[1] /\ blk[1] < p[e].end
                /\ p[e2].first <= blk[1] /\ blk[1] < p[e2].end
            <7>1. /\ blk[1] >= p[e].first /\ blk[1] < p[e].end
                  /\ b2[1] >= p[e2].first /\ b2[1] < p[e2].end
              BY DEF EntryBlocks
            <7> QED BY <2>3, <4>0, <5>5, <5>6, <7>1
          <6> QED BY <2>4, <5>5, <6>1
        <5> QED BY <5>3, <5>6, <5>7
      <4> HIDE DEF W
      <4>7. {GlobalId(r, i[2], i[3]) : i \in I} = W
        BY <4>4, <4>5
      <4>8. F \in Injection(I, W) /\ F \in Surjection(I, W)
        <5> HIDE DEF F
        <5>1. F \in [I -> W]
          <6>1. DOMAIN F = I /\ F = [i \in DOMAIN F |-> F[i]]
            BY DEF F
          <6> QED BY <4>4, <6>1
        <5> QED BY <4>5, <4>6, <5>1 DEF Injection, Surjection, IsInjective
      <4>9. IsFiniteSet(W)
        BY WholeGroupsFinite DEF W
      <4> HIDE DEF F
      <4>10. Cardinality(I) = Cardinality(W)
        BY <4>8, <4>9, FS_Injection
      <4> QED BY <4>7, <4>10
    <3> QED BY <3>1, <3>2
  <2> HIDE DEF F
  <2> QED BY <2>1, <2>2, <2>6
<1> QED BY <1>1, Inductive, EveryBlockHasOneEngine, EnginesShareEvenly, PTL
=============================================================================
