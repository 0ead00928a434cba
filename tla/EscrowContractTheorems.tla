----------------------- MODULE EscrowContractTheorems -----------------------
(***************************************************************************)
(* Lemmas about the operators of EscrowContract: every call of the         *)
(* contract keeps a sound escrow sound.  They hold for any set of reports, *)
(* any amounts and any callers, and the modules that compose escrows cite  *)
(* them instead of opening the contract again.                             *)
(***************************************************************************)
EXTENDS EscrowContract, FiniteSetTheorems, TLAPS

\* The first n positive numbers are n.
LEMMA UpTo ==
  ASSUME NEW n \in Nat
  PROVE  IsFiniteSet(1..n) /\ Cardinality(1..n) = n
<1>1. IsFiniteSet(1..n) /\ Cardinality(1..n) = IF 1 > n THEN 0 ELSE n - 1 + 1
  BY FS_Interval
<1> QED BY <1>1

\* An amount as a set: one element for every unit of it.
LEMMA UnitsOfOne ==
  ASSUME NEW i, NEW n \in Nat
  PROVE  IsFiniteSet({i} \X (1..n)) /\ Cardinality({i} \X (1..n)) = n
<1>1. IsFiniteSet({i}) /\ Cardinality({i}) = 1
  BY FS_Singleton
<1>2. IsFiniteSet(1..n) /\ Cardinality(1..n) = n
  BY UpTo
<1>3. \A A, B : IsFiniteSet(A) /\ IsFiniteSet(B) =>
        IsFiniteSet(A \X B) /\ Cardinality(A \X B) = Cardinality(A) * Cardinality(B)
  BY FS_Product
<1>4. /\ IsFiniteSet({i} \X (1..n))
      /\ Cardinality({i} \X (1..n)) = Cardinality({i}) * Cardinality(1..n)
  BY <1>1, <1>2, <1>3
<1> QED BY <1>1, <1>2, <1>4

\* Disjoint sets are counted apart.
LEMMA DisjointUnion ==
  ASSUME NEW A, NEW B, IsFiniteSet(A), IsFiniteSet(B), A \cap B = {}
  PROVE  Cardinality(A \cup B) = Cardinality(A) + Cardinality(B)
<1>1. Cardinality(A) \in Nat /\ Cardinality(B) \in Nat
  BY FS_CardinalityType
<1>2. Cardinality(A \cup B) = Cardinality(A) + Cardinality(B) - Cardinality({})
  BY FS_Union
<1> QED BY <1>1, <1>2, FS_EmptySet

\* A finite sum of amounts is finite: its units can be counted.
LEMMA UnitsFinite ==
  ASSUME NEW S, IsFiniteSet(S), NEW f, \A x \in S : f[x] \in Nat
  PROVE  /\ IsFiniteSet(UNION {{x} \X (1..f[x]) : x \in S})
         /\ UnitSum(f, S) \in Nat
<1> DEFINE T == {{x} \X (1..f[x]) : x \in S}
           g == [x \in S |-> {x} \X (1..f[x])]
<1>1. g \in Surjection(S, T)
  BY DEF Surjection
<1>2. IsFiniteSet(T)
  BY <1>1, FS_Surjection
<1>3. ASSUME NEW U \in T PROVE IsFiniteSet(U)
  <2>1. PICK x \in S : U = {x} \X (1..f[x])
    OBVIOUS
  <2> QED BY <2>1, UnitsOfOne
<1>4. IsFiniteSet(UNION T)
  BY <1>2, <1>3, FS_UNION
<1> QED BY <1>4, FS_CardinalityType DEF UnitSum

\* An amount that was zero adds what it becomes to the sum.
LEMMA UnitsAdded ==
  ASSUME NEW S, IsFiniteSet(S), NEW f, \A x \in S : f[x] \in Nat,
         NEW y \in S, NEW n \in Nat, f[y] = 0,
         NEW g, g[y] = n, \A x \in S \ {y} : g[x] = f[x]
  PROVE  UnitSum(g, S) = UnitSum(f, S) + n
<1> DEFINE F == UNION {{x} \X (1..f[x]) : x \in S}
           G == UNION {{x} \X (1..g[x]) : x \in S}
           One == {y} \X (1..n)
<1>1. IsFiniteSet(One) /\ Cardinality(One) = n
  BY UnitsOfOne
<1>2. IsFiniteSet(F)
  BY UnitsFinite
<1>3. ASSUME NEW u PROVE u \in F <=> \E x \in S : u \in {x} \X (1..f[x])
  OBVIOUS
<1>4. ASSUME NEW u PROVE u \in G <=> \E x \in S : u \in {x} \X (1..g[x])
  OBVIOUS
<1>5. G = F \cup One
  BY <1>3, <1>4
<1>6. F \cap One = {}
  BY <1>3
<1> HIDE DEF F, G, One
<1>7. Cardinality(F \cup One) = Cardinality(F) + Cardinality(One)
  BY <1>1, <1>2, <1>6, DisjointUnion
<1> QED BY <1>1, <1>5, <1>7 DEF F, G, UnitSum

\* Nothing adds up to nothing.
LEMMA NoUnits ==
  ASSUME NEW S, NEW f, \A x \in S : f[x] = 0
  PROVE  UnitSum(f, S) = 0
<1>1. 1..0 = {}
  BY SMT
<1>2. \A x \in S : {x} \X (1..f[x]) = {}
  BY <1>1
<1>3. UNION {{x} \X (1..f[x]) : x \in S} = {}
  BY <1>2
<1> QED BY <1>3, FS_EmptySet DEF UnitSum

\* The units of one reward are as many as its amount.
LEMMA UnitsOfCardinality ==
  ASSUME NEW e \in Escrow, NEW k \in ReportKeys
  PROVE  /\ IsFiniteSet(UnitsOf(e, k))
         /\ Cardinality(UnitsOf(e, k)) = e.rewards[k].amount
<1> DEFINE n == e.rewards[k].amount
<1>1. n \in Nat
  BY ContractConstants DEF Escrow, Reward
<1>2. IsFiniteSet({k}) /\ Cardinality({k}) = 1
  BY FS_Singleton
<1>3. IsFiniteSet(1..n) /\ Cardinality(1..n) = n
  BY <1>1, UpTo
<1>4. /\ IsFiniteSet({k} \X (1..n))
      /\ Cardinality({k} \X (1..n)) = 1 * n
  BY <1>2, <1>3, FS_Product
<1> QED
  BY <1>1, <1>4 DEF UnitsOf

\* A unit belongs to a status exactly when its report has that status.
LEMMA UnitsWithElements ==
  ASSUME NEW e, NEW status, NEW u
  PROVE  u \in UnitsWith(e, status) <=>
           \E k \in ReportKeys : e.rewards[k].status = status /\ u \in UnitsOf(e, k)
BY DEF UnitsWith

\* What is owed and what was paid are finite, so they can be counted.
LEMMA UnitsWithFinite ==
  ASSUME NEW e \in Escrow, NEW status, IsFiniteSet(ReportKeys)
  PROVE  /\ IsFiniteSet(UnitsWith(e, status))
         /\ Cardinality(UnitsWith(e, status)) \in Nat
<1> DEFINE All == ReportKeys \X (1..MaxReward)
<1>1. IsFiniteSet(All)
  <2>1. IsFiniteSet(1..MaxReward)
    BY ContractConstants, FS_Interval
  <2> QED BY <2>1, FS_Product
<1>2. UnitsWith(e, status) \in SUBSET All
  <2>1. ASSUME NEW u \in UnitsWith(e, status) PROVE u \in All
    <3>1. PICK k \in ReportKeys : u \in UnitsOf(e, k)
      BY <2>1, UnitsWithElements
    <3>2. e.rewards[k].amount \in 0..MaxReward
      BY DEF Escrow, Reward
    <3> QED BY <3>1, <3>2, ContractConstants DEF UnitsOf
  <2> QED BY <2>1
<1>3. IsFiniteSet(UnitsWith(e, status))
  BY <1>1, <1>2, FS_Subset
<1> QED BY <1>3, FS_CardinalityType

\* Calls that leave the rewards alone leave what is owed and paid alone.
LEMMA UnitsWithSame ==
  ASSUME NEW e, NEW f, f.rewards = e.rewards
  PROVE  Owed(f) = Owed(e) /\ PaidOut(f) = PaidOut(e)
<1>1. ASSUME NEW s PROVE UnitsWith(f, s) = UnitsWith(e, s)
  BY DEF UnitsWith, UnitsOf
<1> QED BY <1>1 DEF Owed, PaidOut

-----------------------------------------------------------------------------
\* approveReward adds exactly the new reward to what is owed.
LEMMA ApproveUnits ==
  ASSUME NEW e \in Escrow, IsFiniteSet(ReportKeys),
         NEW k \in ReportKeys, NEW h \in ContentHashes, NEW w \in Wallets,
         NEW amount \in 1..MaxReward,
         e.rewards[k].status = "None"
  PROVE  LET f == AfterApprove(e, k, h, w, amount)
         IN  /\ f \in Escrow
             /\ Owed(f) = Owed(e) + amount
             /\ PaidOut(f) = PaidOut(e)
<1> DEFINE f == AfterApprove(e, k, h, w, amount)
<1>0. amount \in Nat /\ amount \in 0..MaxReward
  BY ContractConstants
<1>1. f \in Escrow
  <2> DEFINE r == [approvedContentHash |-> h, researcher |-> w,
                   amount |-> amount, status |-> "Approved"]
             rs == [e.rewards EXCEPT ![k] = r]
             out == e.totalApprovedOutstanding + amount
  <2>1. r \in Reward
    BY <1>0 DEF Reward, RewardStatus
  <2>2. rs \in [ReportKeys -> Reward]
    BY <2>1 DEF Escrow
  <2>3. out \in Nat
    BY <1>0 DEF Escrow
  <2>4. f = [e EXCEPT !.rewards = rs, !.totalApprovedOutstanding = out]
    BY DEF AfterApprove, Escrow
  <2> QED
    <3> HIDE DEF rs, out, f
    <3> QED BY <2>2, <2>3, <2>4 DEF Escrow
<1>2. /\ f.rewards[k].status = "Approved"
      /\ f.rewards[k].amount = amount
      /\ \A j \in ReportKeys \ {k} : f.rewards[j] = e.rewards[j]
  BY DEF AfterApprove, Escrow
<1> HIDE DEF f
<1>3. UnitsWith(f, "Approved") = UnitsWith(e, "Approved") \cup UnitsOf(f, k)
  <2>1. ASSUME NEW u \in UnitsWith(f, "Approved")
        PROVE  u \in UnitsWith(e, "Approved") \cup UnitsOf(f, k)
    <3>1. PICK j \in ReportKeys : f.rewards[j].status = "Approved" /\ u \in UnitsOf(f, j)
      BY <2>1, UnitsWithElements
    <3>2. CASE j # k
      BY <3>1, <3>2, <1>2, UnitsWithElements DEF UnitsOf
    <3> QED BY <3>1, <3>2
  <2>2. ASSUME NEW u \in UnitsWith(e, "Approved")
        PROVE  u \in UnitsWith(f, "Approved")
    <3>1. PICK j \in ReportKeys : e.rewards[j].status = "Approved" /\ u \in UnitsOf(e, j)
      BY <2>2, UnitsWithElements
    <3> QED BY <3>1, <1>2, UnitsWithElements DEF UnitsOf
  <2>3. ASSUME NEW u \in UnitsOf(f, k)
        PROVE  u \in UnitsWith(f, "Approved")
    BY <1>2, UnitsWithElements
  <2> QED BY <2>1, <2>2, <2>3
<1>4. UnitsWith(e, "Approved") \cap UnitsOf(f, k) = {}
  <2>1. ASSUME NEW u \in UnitsWith(e, "Approved"), u \in UnitsOf(f, k)
        PROVE  FALSE
    <3>1. PICK j \in ReportKeys : e.rewards[j].status = "Approved" /\ u \in UnitsOf(e, j)
      BY <2>1, UnitsWithElements
    <3> QED BY <2>1, <3>1 DEF UnitsOf
  <2> QED BY <2>1
<1>5. UnitsWith(f, "Paid") = UnitsWith(e, "Paid")
  <2>1. ASSUME NEW j \in ReportKeys
        PROVE  /\ (f.rewards[j].status = "Paid") <=> (e.rewards[j].status = "Paid")
               /\ e.rewards[j].status = "Paid" => UnitsOf(f, j) = UnitsOf(e, j)
    BY <1>2 DEF UnitsOf
  <2> QED BY <2>1, UnitsWithElements DEF UnitsWith
<1>6. Owed(f) = Owed(e) + amount
  <2>1. /\ IsFiniteSet(UnitsOf(f, k))
        /\ Cardinality(UnitsOf(f, k)) = amount
    BY <1>1, <1>2, UnitsOfCardinality
  <2>2. /\ IsFiniteSet(UnitsWith(e, "Approved"))
        /\ Cardinality(UnitsWith(e, "Approved")) \in Nat
    BY UnitsWithFinite
  <2>3. Cardinality(UnitsWith(f, "Approved")) =
          Cardinality(UnitsWith(e, "Approved")) + Cardinality(UnitsOf(f, k))
            - Cardinality({})
    BY <2>1, <2>2, <1>3, <1>4, FS_Union
  <2> QED BY <2>1, <2>2, <2>3, <1>0, FS_EmptySet DEF Owed
<1> QED BY <1>1, <1>5, <1>6 DEF f, PaidOut

\* payReward moves exactly one reward from what is owed to what was paid.
LEMMA PayUnits ==
  ASSUME NEW e \in Escrow, IsFiniteSet(ReportKeys),
         NEW k \in ReportKeys, CanPay(e, k)
  PROVE  LET f == AfterPay(e, k)
         IN  /\ f \in Escrow
             /\ Owed(f) = Owed(e) - e.rewards[k].amount
             /\ PaidOut(f) = PaidOut(e) + e.rewards[k].amount
<1> DEFINE f == AfterPay(e, k)
           amount == e.rewards[k].amount
<1>0. amount \in Nat /\ amount \in 0..MaxReward
  BY ContractConstants DEF Escrow, Reward
<1>1. f \in Escrow
  <2> DEFINE r == [e.rewards[k] EXCEPT !.status = "Paid"]
             rs == [e.rewards EXCEPT ![k] = r]
             out == e.totalApprovedOutstanding - amount
             paid == e.totalPaid + amount
             left == e.balance - amount
  <2>1. r \in Reward
    BY DEF Escrow, Reward, RewardStatus
  <2>2. rs \in [ReportKeys -> Reward]
    BY <2>1 DEF Escrow
  <2>3. out \in Nat /\ paid \in Nat /\ left \in Nat
    BY <1>0 DEF CanPay, Escrow
  <2>4. f = [e EXCEPT !.rewards = rs, !.totalApprovedOutstanding = out,
                      !.totalPaid = paid, !.balance = left]
    BY DEF AfterPay, Escrow
  <2> QED
    <3> HIDE DEF rs, out, paid, left, f
    <3> QED BY <2>2, <2>3, <2>4 DEF Escrow
<1>2. /\ e.rewards[k].status = "Approved"
      /\ f.rewards[k].status = "Paid"
      /\ f.rewards[k].amount = amount
      /\ \A j \in ReportKeys \ {k} : f.rewards[j] = e.rewards[j]
  BY DEF AfterPay, CanPay, Escrow, Reward
<1> HIDE DEF f
<1>3. \A j \in ReportKeys : UnitsOf(f, j) = UnitsOf(e, j)
  BY <1>2 DEF UnitsOf
<1>4. UnitsWith(f, "Approved") = UnitsWith(e, "Approved") \ UnitsOf(e, k)
  <2>1. ASSUME NEW u \in UnitsWith(f, "Approved")
        PROVE  u \in UnitsWith(e, "Approved") \ UnitsOf(e, k)
    <3>1. PICK j \in ReportKeys : f.rewards[j].status = "Approved" /\ u \in UnitsOf(f, j)
      BY <2>1, UnitsWithElements
    <3>2. j # k
      BY <3>1, <1>2
    <3>3. e.rewards[j].status = "Approved" /\ u \in UnitsOf(e, j)
      BY <3>1, <3>2, <1>2, <1>3
    <3>4. u \notin UnitsOf(e, k)
      BY <3>2, <3>3 DEF UnitsOf
    <3> QED BY <3>3, <3>4, UnitsWithElements
  <2>2. ASSUME NEW u \in UnitsWith(e, "Approved"), u \notin UnitsOf(e, k)
        PROVE  u \in UnitsWith(f, "Approved")
    <3>1. PICK j \in ReportKeys : e.rewards[j].status = "Approved" /\ u \in UnitsOf(e, j)
      BY <2>2, UnitsWithElements
    <3>2. j # k
      BY <3>1, <2>2
    <3> QED BY <3>1, <3>2, <1>2, <1>3, UnitsWithElements
  <2> QED BY <2>1, <2>2
<1>5. UnitsWith(f, "Paid") = UnitsWith(e, "Paid") \cup UnitsOf(e, k)
  <2>1. ASSUME NEW u \in UnitsWith(f, "Paid")
        PROVE  u \in UnitsWith(e, "Paid") \cup UnitsOf(e, k)
    <3>1. PICK j \in ReportKeys : f.rewards[j].status = "Paid" /\ u \in UnitsOf(f, j)
      BY <2>1, UnitsWithElements
    <3>2. CASE j # k
      BY <3>1, <3>2, <1>2, <1>3, UnitsWithElements
    <3> QED BY <3>1, <3>2, <1>3
  <2>2. ASSUME NEW u \in UnitsWith(e, "Paid")
        PROVE  u \in UnitsWith(f, "Paid")
    <3>1. PICK j \in ReportKeys : e.rewards[j].status = "Paid" /\ u \in UnitsOf(e, j)
      BY <2>2, UnitsWithElements
    <3>2. j # k
      BY <3>1, <1>2
    <3> QED BY <3>1, <3>2, <1>2, <1>3, UnitsWithElements
  <2>3. ASSUME NEW u \in UnitsOf(e, k)
        PROVE  u \in UnitsWith(f, "Paid")
    BY <1>2, <1>3, UnitsWithElements
  <2> QED BY <2>1, <2>2, <2>3
<1>6. /\ IsFiniteSet(UnitsOf(e, k)) /\ Cardinality(UnitsOf(e, k)) = amount
      /\ IsFiniteSet(UnitsWith(e, "Approved"))
      /\ Cardinality(UnitsWith(e, "Approved")) \in Nat
      /\ IsFiniteSet(UnitsWith(e, "Paid"))
      /\ Cardinality(UnitsWith(e, "Paid")) \in Nat
  BY UnitsOfCardinality, UnitsWithFinite
<1>7. Owed(f) = Owed(e) - amount
  <2>1. UnitsWith(e, "Approved") \cap UnitsOf(e, k) = UnitsOf(e, k)
    BY <1>2, UnitsWithElements
  <2>2. Cardinality(UnitsWith(f, "Approved")) =
          Cardinality(UnitsWith(e, "Approved")) - Cardinality(UnitsOf(e, k))
    BY <1>4, <1>6, <2>1, FS_Difference
  <2> QED BY <2>2, <1>6 DEF Owed
<1>8. PaidOut(f) = PaidOut(e) + amount
  <2>1. UnitsWith(e, "Paid") \cap UnitsOf(e, k) = {}
    <3>1. ASSUME NEW u \in UnitsWith(e, "Paid"), u \in UnitsOf(e, k)
          PROVE  FALSE
      <4>1. PICK j \in ReportKeys : e.rewards[j].status = "Paid" /\ u \in UnitsOf(e, j)
        BY <3>1, UnitsWithElements
      <4> QED BY <4>1, <3>1, <1>2 DEF UnitsOf
    <3> QED BY <3>1
  <2>2. Cardinality(UnitsWith(f, "Paid")) =
          Cardinality(UnitsWith(e, "Paid")) + Cardinality(UnitsOf(e, k))
            - Cardinality({})
    BY <1>5, <1>6, <2>1, FS_Union
  <2> QED BY <2>2, <1>6, <1>0, FS_EmptySet DEF PaidOut
<1> QED BY <1>1, <1>7, <1>8 DEF f

-----------------------------------------------------------------------------
\* A freshly deployed escrow is sound: it has no rewards, so it owes nothing.
LEMMA DeploySound ==
  ASSUME NEW key \in ProgramKeys, NEW owner \in Accounts,
         NEW controller \in Accounts, NEW unlockAt \in Nat
  PROVE  Sound(Deployed(key, owner, controller, unlockAt))
<1> DEFINE d == Deployed(key, owner, controller, unlockAt)
<1>1. NoReward \in Reward
  BY ContractConstants DEF NoReward, Reward, RewardStatus
<1>2. d \in Escrow
  BY <1>1 DEF Deployed, Escrow
<1>3. UnitsWith(d, "Approved") = {} /\ UnitsWith(d, "Paid") = {}
  <2>1. \A k \in ReportKeys : d.rewards[k].status = "None"
    BY DEF Deployed, NoReward
  <2> QED BY <2>1 DEF UnitsWith
<1>4. Owed(d) = 0 /\ PaidOut(d) = 0
  BY <1>3, FS_EmptySet DEF Owed, PaidOut
<1> QED BY <1>2, <1>4 DEF Sound, CountersAgree, Covered, Priced, Deployed, NoReward

\* Transfers in and the calls that touch only flags, times and totalFunded
\* keep an escrow sound.
LEMMA QuietCallsSound ==
  ASSUME NEW e, Sound(e), NEW amount \in Nat, NEW t \in Nat
  PROVE  /\ Sound(AfterDeposit(e, amount))
         /\ Sound(AfterSync(e))
         /\ Sound(AfterExtend(e, t))
         /\ Sound(AfterClose(e))
         /\ Sound(AfterPause(e))
         /\ Sound(AfterUnpause(e))
         /\ Sound(AfterDeactivate(e))
<1> USE DEF Sound, CountersAgree, Covered, Priced
<1>0. e \in Escrow
  OBVIOUS
<1>1. Sound(AfterDeposit(e, amount))
  <2>1. AfterDeposit(e, amount) \in Escrow
    BY DEF AfterDeposit, Escrow
  <2> QED BY <2>1, UnitsWithSame DEF AfterDeposit, Escrow
<1>2. Sound(AfterSync(e))
  <2>1. AfterSync(e) \in Escrow
    BY DEF AfterSync, ObservedLifetimeInflow, Escrow
  <2> QED BY <2>1, UnitsWithSame DEF AfterSync, Escrow
<1>3. Sound(AfterExtend(e, t))
  <2>1. AfterExtend(e, t) \in Escrow
    BY DEF AfterExtend, Escrow
  <2> QED BY <2>1, UnitsWithSame DEF AfterExtend, Escrow
<1>4. Sound(AfterClose(e))
  <2>1. AfterClose(e) \in Escrow
    BY DEF AfterClose, Escrow
  <2> QED BY <2>1, UnitsWithSame DEF AfterClose, Escrow
<1>5. Sound(AfterPause(e))
  <2>1. AfterPause(e) \in Escrow
    BY DEF AfterPause, Escrow
  <2> QED BY <2>1, UnitsWithSame DEF AfterPause, Escrow
<1>6. Sound(AfterUnpause(e))
  <2>1. AfterUnpause(e) \in Escrow
    BY DEF AfterUnpause, Escrow
  <2> QED BY <2>1, UnitsWithSame DEF AfterUnpause, Escrow
<1>7. Sound(AfterDeactivate(e))
  <2>1. AfterDeactivate(e) \in Escrow
    BY DEF AfterDeactivate, Escrow
  <2> QED BY <2>1, UnitsWithSame DEF AfterDeactivate, Escrow
<1> QED BY <1>1, <1>2, <1>3, <1>4, <1>5, <1>6, <1>7

\* approveReward never commits more than the balance less what is committed.
LEMMA ApproveSound ==
  ASSUME NEW e, Sound(e), IsFiniteSet(ReportKeys), NEW caller,
         NEW k \in ReportKeys, NEW h \in ContentHashes, NEW w \in Wallets,
         NEW amount \in Nat, CanApprove(e, caller, k, amount)
  PROVE  Sound(AfterApprove(e, k, h, w, amount))
<1> DEFINE f == AfterApprove(e, k, h, w, amount)
<1>1. /\ e \in Escrow /\ amount \in 1..MaxReward
      /\ e.rewards[k].status = "None"
      /\ amount <= AvailableBalance(e)
  BY DEF Sound, CanApprove
<1>2. f \in Escrow /\ Owed(f) = Owed(e) + amount /\ PaidOut(f) = PaidOut(e)
  BY <1>1, ApproveUnits
<1>3. /\ f.totalApprovedOutstanding = e.totalApprovedOutstanding + amount
      /\ f.totalPaid = e.totalPaid
      /\ f.balance = e.balance
  BY <1>1 DEF AfterApprove, Escrow
<1>4. e.totalApprovedOutstanding + amount <= e.balance
  BY <1>1 DEF AvailableBalance, Sound, Covered, Escrow
<1>5. Priced(f)
  BY <1>1, ContractConstants DEF Sound, Priced, AfterApprove, Escrow
<1> QED BY <1>2, <1>3, <1>4, <1>5 DEF Sound, CountersAgree, Covered

\* payReward lowers balance and debt by the same amount.
LEMMA PaySound ==
  ASSUME NEW e, Sound(e), IsFiniteSet(ReportKeys),
         NEW k \in ReportKeys, CanPay(e, k)
  PROVE  Sound(AfterPay(e, k))
<1> DEFINE f == AfterPay(e, k)
           amount == e.rewards[k].amount
<1>1. e \in Escrow /\ amount \in Nat
  BY ContractConstants DEF Sound, Escrow, Reward
<1>2. f \in Escrow /\ Owed(f) = Owed(e) - amount /\ PaidOut(f) = PaidOut(e) + amount
  BY <1>1, PayUnits
<1>3. /\ f.totalApprovedOutstanding = e.totalApprovedOutstanding - amount
      /\ f.totalPaid = e.totalPaid + amount
      /\ f.balance = e.balance - amount
  BY <1>1 DEF AfterPay, Escrow
<1>4. f.totalApprovedOutstanding <= f.balance
  BY <1>1, <1>3 DEF Sound, Covered, Escrow
<1>5. Priced(f)
  BY <1>1 DEF Sound, Priced, AfterPay, Escrow
<1> QED BY <1>2, <1>3, <1>4, <1>5 DEF Sound, CountersAgree, Covered

\* withdrawRemaining runs only when nothing is owed, so it cannot uncover.
LEMMA WithdrawSound ==
  ASSUME NEW e, Sound(e), NEW caller, NEW timestamp \in Nat,
         NEW expected \in Nat, CanWithdraw(e, caller, timestamp, expected)
  PROVE  Sound(AfterWithdraw(e, expected))
<1> DEFINE f == AfterWithdraw(e, expected)
<1>1. e \in Escrow /\ e.totalApprovedOutstanding = 0 /\ e.balance >= expected
  BY DEF Sound, CanWithdraw
<1>2. f \in Escrow
  <2>1. e.totalWithdrawn + expected \in Nat /\ e.balance - expected \in Nat
    BY <1>1 DEF Escrow
  <2> QED BY <1>1, <2>1 DEF AfterWithdraw, Escrow
<1>3. /\ f.totalApprovedOutstanding = 0
      /\ f.totalPaid = e.totalPaid
      /\ f.rewards = e.rewards
  BY <1>1 DEF AfterWithdraw, Escrow
<1>4. Owed(f) = Owed(e) /\ PaidOut(f) = PaidOut(e)
  BY <1>3, UnitsWithSame
<1>5. f.balance \in Nat
  BY <1>2 DEF Escrow
<1>6. CountersAgree(e)
  BY DEF Sound
<1> HIDE DEF f
<1>7. CountersAgree(f)
  BY <1>1, <1>3, <1>4, <1>6 DEF CountersAgree
<1>8. Covered(f)
  BY <1>3, <1>5 DEF Covered
<1>9. Priced(f)
  BY <1>3 DEF Sound, Priced
<1>10. Sound(f)
  BY <1>2, <1>7, <1>8, <1>9 DEF Sound
<1> QED BY <1>10 DEF f

\* When the counter withdrawRemaining reads is zero, no reward is waiting.
LEMMA NothingOwedNothingApproved ==
  ASSUME NEW e, Sound(e), IsFiniteSet(ReportKeys), e.totalApprovedOutstanding = 0
  PROVE  \A k \in ReportKeys : e.rewards[k].status # "Approved"
<1> SUFFICES ASSUME NEW k \in ReportKeys, e.rewards[k].status = "Approved"
             PROVE  FALSE
  OBVIOUS
<1>1. e \in Escrow /\ Owed(e) = 0
  BY DEF Sound, CountersAgree
<1>2. UnitsWith(e, "Approved") = {}
  BY <1>1, UnitsWithFinite, FS_EmptySet DEF Owed
<1>3. e.rewards[k].amount > 0 /\ e.rewards[k].amount \in Nat
  BY <1>1, ContractConstants DEF Sound, Priced, Escrow, Reward
<1>4. <<k, 1>> \in UnitsOf(e, k)
  BY <1>3 DEF UnitsOf
<1> QED BY <1>2, <1>4, UnitsWithElements
=============================================================================
