------------------------- MODULE ContainerWriterProofs -------------------------
(***************************************************************************)
(* First the facts that the proofs about writers and readers share: what   *)
(* the accountant's methods do to an account, and how the definitions of   *)
(* ContainerValidity change when a container grows by one record.          *)
(*                                                                         *)
(* Then theorems about ContainerWriter for every policy, chunk set and     *)
(* record size: a session stays within its policy whoever shares its       *)
(* accountant, and when its container bytes are its own, write_chunk()     *)
(* reserves enough for finish() never to be refused and no record to be    *)
(* cut off by policy.                                                      *)
(***************************************************************************)
EXTENDS ContainerWriter, EnumerationProofs

-----------------------------------------------------------------------------
(* The accountant.                                                         *)

\* record() leaves a dictionary of naturals behind.
LEMMA RecordedIsAccount ==
  ASSUME NEW account \in Account, NEW r \in CoreResource, NEW amount \in Nat
  PROVE  Recorded(account, r, amount) \in Account
<1>1. Projected(account, r, amount) \in Nat
  BY DEF Projected, Account
<1> QED
  BY <1>1 DEF Recorded, Account

\* record() changes no other resource.
LEMMA RecordedElsewhere ==
  ASSUME NEW account \in Account, NEW r \in CoreResource, NEW amount \in Nat,
         NEW other \in CoreResource, other # r
  PROVE  Recorded(account, r, amount)[other] = account[other]
BY DEF Recorded, Account

\* What record() stores for its resource.
LEMMA RecordedHere ==
  ASSUME NEW account \in Account, NEW r \in CoreResource, NEW amount \in Nat
  PROVE  Recorded(account, r, amount)[r] = Projected(account, r, amount)
BY DEF Recorded, Account

\* No observation lowers what was recorded before, of any resource.
LEMMA RecordedNeverLower ==
  ASSUME NEW account \in Account, NEW r \in CoreResource, NEW amount \in Nat,
         NEW other \in CoreResource
  PROVE  account[other] <= Recorded(account, r, amount)[other]
<1>1. account[other] \in Nat
  BY DEF Account
<1>2. CASE other = r
  BY <1>1, <1>2, RecordedHere DEF Projected
<1>3. CASE other # r
  BY <1>1, <1>3, RecordedElsewhere
<1> QED
  BY <1>2, <1>3

\* record() commits only what check() accepted, so that an accountant within
\* its policy stays there.
LEMMA RecordedWithinPolicy ==
  ASSUME NEW policy, NEW account \in Account, NEW r \in CoreResource,
         NEW amount \in Nat, WithinPolicy(policy, account),
         CanRecord(policy, account, r, amount)
  PROVE  WithinPolicy(policy, Recorded(account, r, amount))
<1> SUFFICES ASSUME NEW other \in CoreResource
             PROVE  Allows(policy, other, Recorded(account, r, amount)[other])
  BY DEF WithinPolicy
<1>1. CASE other = r
  BY <1>1, RecordedHere DEF CanRecord
<1>2. CASE other # r
  BY <1>2, RecordedElsewhere DEF WithinPolicy
<1> QED
  BY <1>1, <1>2

\* An absolute check of a peak stands for the check record() would make.
LEMMA PeakCanBeRecorded ==
  ASSUME NEW policy, NEW account \in Account,
         NEW r \in CoreResource \ TotalResources, NEW amount \in Nat,
         WithinPolicy(policy, account), Allows(policy, r, amount)
  PROVE  CanRecord(policy, account, r, amount)
BY DEF CanRecord, Projected, WithinPolicy

\* An operation that recorded nothing is within every policy.
LEMMA NewAccountWithinPolicy ==
  ASSUME NEW policy \in Policy
  PROVE  NewAccount \in Account /\ WithinPolicy(policy, NewAccount)
<1>1. NewAccount \in Account
  BY DEF NewAccount, Account
<1>2. ASSUME NEW r \in CoreResource
      PROVE  Allows(policy, r, NewAccount[r])
  <2>1. policy[r] \in Nat \cup {Unbounded} /\ NewAccount[r] = 0
    BY DEF Policy, NewAccount
  <2> QED
    BY <2>1 DEF Allows
<1> QED
  BY <1>1, <1>2 DEF WithinPolicy

\* A ceiling that allows an amount allows a smaller one.
LEMMA AllowsLess ==
  ASSUME NEW policy \in Policy, NEW r \in CoreResource,
         NEW a \in Nat, NEW b \in Nat, a <= b, Allows(policy, r, b)
  PROVE  Allows(policy, r, a)
BY UnboundedAssumption DEF Allows, Policy

-----------------------------------------------------------------------------
(* One charge after the other.                                             *)

\* The sessions while one charge comes after the other.
Charging(f, policy, session, charges, n) ==
  f = [k \in 0 .. n |-> IF k = 0 THEN session
                        ELSE ChargedOnce(policy, f[k - 1], charges[k])]

\* They come about: there is no shortest one that does not.
LEMMA ChargingExists ==
  ASSUME NEW policy, NEW session, NEW charges, NEW n \in Nat
  PROVE  \E f : Charging(f, policy, session, charges, n)
<1> DEFINE Without == {m \in Nat : ~\E f : Charging(f, policy, session, charges, m)}
<1>1. CASE Without # {}
  <2>1. PICK m \in Without : \A k \in Without : m <= k
    BY <1>1, LeastNumber
  <2>2. CASE m = 0
    <3>1. Charging([k \in 0 .. 0 |-> session], policy, session, charges, 0)
      BY DEF Charging
    <3> QED
      BY <2>1, <2>2, <3>1
  <2>3. CASE m # 0
    <3>1. m - 1 \in Nat /\ m - 1 \notin Without
      BY <2>1, <2>3
    <3>2. PICK f : Charging(f, policy, session, charges, m - 1)
      BY <3>1
    <3> DEFINE g == [k \in 0 .. m |-> IF k = m THEN ChargedOnce(policy, f[m - 1], charges[m])
                                      ELSE f[k]]
    <3>3. ASSUME NEW k \in 0 .. m
          PROVE  g[k] = IF k = 0 THEN session
                        ELSE ChargedOnce(policy, g[k - 1], charges[k])
      <4>1. CASE k = m
        BY <2>3, <3>1, <4>1
      <4>2. CASE k # m
        <5>1. k \in 0 .. (m - 1) /\ (k # 0 => k - 1 \in 0 .. m /\ k - 1 # m)
          BY <4>2
        <5> QED
          BY <3>2, <4>2, <5>1 DEF Charging
      <4> QED
        BY <4>1, <4>2
    <3>4. Charging(g, policy, session, charges, m)
      <4> DEFINE h == [k \in 0 .. m |-> IF k = 0 THEN session
                                        ELSE ChargedOnce(policy, g[k - 1], charges[k])]
      <4>1. g = h
        BY <3>3
      <4> QED
        BY <4>1 DEF Charging
    <3> QED
      BY <2>1, <3>4
  <2> QED
    BY <2>2, <2>3
<1>2. CASE Without = {}
  BY <1>2
<1> QED
  BY <1>1, <1>2

\* Charged() is the last of them.
LEMMA ChargedIsLast ==
  ASSUME NEW policy, NEW session, NEW C, NEW charges \in Seq(C)
  PROVE  \E f : /\ Charging(f, policy, session, charges, Len(charges))
                /\ Charged(policy, session, charges) = f[Len(charges)]
<1> DEFINE after ==
      CHOOSE f : f = [k \in 0 .. Len(charges) |->
                       IF k = 0 THEN session ELSE ChargedOnce(policy, f[k - 1], charges[k])]
<1>1. Charging(after, policy, session, charges, Len(charges))
  BY ChargingExists DEF Charging
<1>2. Charged(policy, session, charges) = after[Len(charges)]
  BY DEF Charged
<1> QED
  BY <1>1, <1>2

\* No charge changes nothing.
LEMMA ChargedNothing ==
  ASSUME NEW policy, NEW session
  PROVE  Charged(policy, session, <<>>) = session
<1> DEFINE none == <<>>
<1>1. none \in Seq({}) /\ Len(none) = 0
  OBVIOUS
<1> HIDE DEF none
<1>2. PICK f : /\ Charging(f, policy, session, none, Len(none))
               /\ Charged(policy, session, none) = f[Len(none)]
  BY <1>1, ChargedIsLast
<1>3. f[0] = session
  BY <1>1, <1>2 DEF Charging
<1>4. Charged(policy, session, none) = session
  BY <1>1, <1>2, <1>3
<1> QED
  BY <1>4 DEF none

\* A coding session of an operation.
IsSession(s) ==
  /\ s = [ok |-> s.ok, account |-> s.account, output |-> s.output]
  /\ s.ok \in BOOLEAN
  /\ s.account \in Account

\* Charging puts nothing out.
SameOutput(s, t) == t.output = s.output

\* What a session may be charged with.
Charges == Seq(CoreResource \X Nat)

\* What one charge makes of a session.
LEMMA OneCharge ==
  ASSUME NEW policy, NEW s, IsSession(s), NEW r \in CoreResource, NEW n \in Nat,
         NEW t, t = ChargedOnce(policy, s, <<r, n>>)
  PROVE  /\ IsSession(t) /\ SameOutput(s, t)
         /\ t.ok <=> s.ok /\ CanRecord(policy, s.account, r, n)
         /\ t.account = IF t.ok THEN Recorded(s.account, r, n) ELSE s.account
<1>1. CASE s.ok /\ CanRecord(policy, s.account, r, n)
  <2>1. t = [s EXCEPT !.account = Recorded(s.account, r, n)]
    BY <1>1 DEF ChargedOnce
  <2>2. t = [ok |-> s.ok, account |-> Recorded(s.account, r, n), output |-> s.output]
    BY <2>1 DEF IsSession
  <2>3. Recorded(s.account, r, n) \in Account
    BY RecordedIsAccount DEF IsSession
  <2>4. t.ok = s.ok /\ t.account = Recorded(s.account, r, n) /\ t.output = s.output
    BY <2>2
  <2>5. IsSession(t)
    BY <2>2, <2>3, <2>4 DEF IsSession
  <2> QED
    BY <1>1, <2>4, <2>5 DEF SameOutput
<1>2. CASE ~(s.ok /\ CanRecord(policy, s.account, r, n))
  <2>1. t = [s EXCEPT !.ok = FALSE]
    BY <1>2 DEF ChargedOnce
  <2>2. t = [ok |-> FALSE, account |-> s.account, output |-> s.output]
    BY <2>1 DEF IsSession
  <2>3. t.ok = FALSE /\ t.account = s.account /\ t.output = s.output
    BY <2>2
  <2>4. IsSession(t)
    BY <2>2, <2>3 DEF IsSession
  <2> QED
    BY <1>2, <2>3, <2>4 DEF SameOutput
<1> QED
  BY <1>1, <1>2

\* One charge after the other, from any session.
LEMMA ChargeByCharge ==
  ASSUME NEW policy, NEW s, IsSession(s), NEW charges \in Charges,
         NEW f, Charging(f, policy, s, charges, Len(charges))
  PROVE  /\ f[0] = s
         /\ \A k \in 1 .. Len(charges) :
              /\ charges[k][1] \in CoreResource /\ charges[k][2] \in Nat
              /\ f[k] = ChargedOnce(policy, f[k - 1], <<charges[k][1], charges[k][2]>>)
         /\ \A k \in 0 .. Len(charges) : IsSession(f[k]) /\ SameOutput(s, f[k])
<1> DEFINE Pair(k) == <<charges[k][1], charges[k][2]>>
           Bad == {k \in 0 .. Len(charges) : ~(IsSession(f[k]) /\ SameOutput(s, f[k]))}
<1>1. f[0] = s
  BY DEF Charging, Charges
<1>2. ASSUME NEW k \in 1 .. Len(charges)
      PROVE  /\ charges[k][1] \in CoreResource /\ charges[k][2] \in Nat
             /\ f[k] = ChargedOnce(policy, f[k - 1], Pair(k))
  <2>1. charges[k] \in CoreResource \X Nat
    BY DEF Charges
  <2>2. charges[k] = Pair(k) /\ charges[k][1] \in CoreResource /\ charges[k][2] \in Nat
    BY <2>1
  <2>3. f[k] = ChargedOnce(policy, f[k - 1], charges[k])
    BY DEF Charging
  <2> QED
    BY <2>2, <2>3
<1>3. Bad = {}
  <2> SUFFICES ASSUME Bad # {} PROVE FALSE
    OBVIOUS
  <2>1. Bad \in SUBSET Nat
    BY DEF Charges
  <2>2. PICK k \in Bad : \A j \in Bad : k <= j
    BY <2>1, LeastNumber
  <2>3. k # 0
    BY <1>1, <2>2 DEF SameOutput
  <2>4. k \in 1 .. Len(charges) /\ k - 1 \in 0 .. Len(charges) /\ k - 1 \notin Bad
    BY <2>2, <2>3
  <2>5. IsSession(f[k - 1]) /\ SameOutput(s, f[k - 1])
    BY <2>4
  <2>6. IsSession(f[k]) /\ SameOutput(f[k - 1], f[k])
    <3> HIDE DEF Pair, Bad
    <3>1. /\ charges[k][1] \in CoreResource /\ charges[k][2] \in Nat
          /\ f[k] = ChargedOnce(policy, f[k - 1], <<charges[k][1], charges[k][2]>>)
      BY <1>2, <2>4 DEF Pair
    <3> QED
      BY <2>5, <3>1, OneCharge
  <2> QED
    BY <2>2, <2>5, <2>6 DEF SameOutput
<1> QED
  BY <1>1, <1>2, <1>3

\* What was not charged is as before.
Untouched(t, s, charges) ==
  \A r \in CoreResource :
    (\A k \in 1 .. Len(charges) : charges[k][1] # r) => t.account[r] = s.account[r]

\* What was charged was allowed, and adds up.
LEMMA ChargedFacts ==
  ASSUME NEW policy \in Policy, NEW s, IsSession(s), NEW charges \in Charges,
         NEW t, t = Charged(policy, s, charges)
  PROVE  /\ IsSession(t) /\ SameOutput(s, t)
         /\ WithinPolicy(policy, s.account) => WithinPolicy(policy, t.account)
         /\ \A r \in CoreResource : s.account[r] <= t.account[r]
         /\ Untouched(t, s, charges)
         /\ t.ok =>
              /\ s.ok
              /\ \A k \in 1 .. Len(charges) :
                   /\ Allows(policy, charges[k][1], charges[k][2])
                   /\ charges[k][1] \in TotalResources =>
                        s.account[charges[k][1]] + charges[k][2] <= t.account[charges[k][1]]
<1> DEFINE n == Len(charges)
           R(k) == charges[k][1]
           N(k) == charges[k][2]
<1>1. PICK f : Charging(f, policy, s, charges, n) /\ t = f[n]
  BY ChargedIsLast DEF Charges
<1>2. /\ f[0] = s
      /\ \A k \in 1 .. n : /\ R(k) \in CoreResource /\ N(k) \in Nat
                           /\ f[k] = ChargedOnce(policy, f[k - 1], <<R(k), N(k)>>)
      /\ \A k \in 0 .. n : IsSession(f[k]) /\ SameOutput(s, f[k])
  <2>1. Charging(f, policy, s, charges, Len(charges))
    BY <1>1
  <2> QED
    BY <2>1, ChargeByCharge
<1>3. n \in Nat
  BY DEF Charges
<1> DEFINE P(m) ==
      /\ WithinPolicy(policy, s.account) => WithinPolicy(policy, f[m].account)
      /\ \A r \in CoreResource : s.account[r] <= f[m].account[r]
      /\ \A r \in CoreResource :
           (\A k \in 1 .. m : R(k) # r) => f[m].account[r] = s.account[r]
      /\ f[m].ok =>
           /\ s.ok
           /\ \A k \in 1 .. m :
                /\ Allows(policy, R(k), N(k))
                /\ R(k) \in TotalResources => s.account[R(k)] + N(k) <= f[m].account[R(k)]
    Bad == {m \in 0 .. n : ~P(m)}
<1> HIDE DEF n, R, N
<1>4. s.account \in Account /\ \A r \in CoreResource : s.account[r] \in Nat
  BY DEF IsSession, Account
<1>5. P(0)
  BY <1>2, <1>4
<1>6. ASSUME NEW m \in 1 .. n, P(m - 1) PROVE P(m)
  <2> DEFINE a == f[m - 1].account
             b == f[m].account
             r == R(m)
             x == N(m)
  <2>1. /\ m \in Nat /\ m - 1 \in 0 .. n /\ m \in 0 .. n
        /\ 1 .. m = (1 .. (m - 1)) \cup {m}
    BY <1>3
  <2>2. /\ IsSession(f[m - 1]) /\ IsSession(f[m]) /\ r \in CoreResource /\ x \in Nat
        /\ f[m] = ChargedOnce(policy, f[m - 1], <<r, x>>)
    BY <1>2, <2>1
  <2>3. /\ f[m].ok <=> f[m - 1].ok /\ CanRecord(policy, a, r, x)
        /\ b = IF f[m].ok THEN Recorded(a, r, x) ELSE a
    BY <2>2, OneCharge
  <2>4. /\ a \in Account /\ b \in Account
        /\ \A other \in CoreResource : a[other] \in Nat /\ b[other] \in Nat
    BY <2>2 DEF IsSession, Account
  <2> HIDE DEF a, b, r, x
  <2>5. WithinPolicy(policy, s.account) => WithinPolicy(policy, a)
    BY <1>6 DEF a
  <2>6. WithinPolicy(policy, s.account) => WithinPolicy(policy, b)
    BY <2>2, <2>3, <2>4, <2>5, RecordedWithinPolicy
  <2>7. \A other \in CoreResource : a[other] <= b[other]
    BY <2>2, <2>3, <2>4, RecordedNeverLower
  <2>8. \A other \in CoreResource : other # r => b[other] = a[other]
    BY <2>2, <2>3, <2>4, RecordedElsewhere
  <2>9. f[m].ok => /\ Allows(policy, r, x)
                   /\ r \in TotalResources => b[r] = a[r] + x
    <3> SUFFICES ASSUME f[m].ok PROVE /\ Allows(policy, r, x)
                                      /\ r \in TotalResources => b[r] = a[r] + x
      OBVIOUS
    <3>1. CanRecord(policy, a, r, x) /\ b[r] = Projected(a, r, x)
      BY <2>2, <2>3, <2>4, RecordedHere
    <3>2. x <= Projected(a, r, x) /\ Projected(a, r, x) \in Nat
      BY <2>2, <2>4 DEF Projected
    <3>3. Allows(policy, r, x)
      BY <2>2, <3>1, <3>2, AllowsLess DEF CanRecord
    <3> QED
      BY <3>1, <3>3 DEF Projected
  <2>10. \A other \in CoreResource : s.account[other] <= a[other] /\ s.account[other] <= b[other]
    <3>1. \A other \in CoreResource : s.account[other] <= a[other]
      BY <1>6 DEF a
    <3> QED
      BY <1>4, <2>4, <2>7, <3>1
  <2>11. \A other \in CoreResource :
           (\A k \in 1 .. m : R(k) # other) => b[other] = s.account[other]
    <3>1. \A other \in CoreResource :
            (\A k \in 1 .. (m - 1) : R(k) # other) => a[other] = s.account[other]
      BY <1>6 DEF a
    <3> QED
      BY <2>1, <2>8, <3>1 DEF r
  <2>12. ASSUME f[m].ok
         PROVE  /\ s.ok
                /\ \A k \in 1 .. m :
                     /\ Allows(policy, R(k), N(k))
                     /\ R(k) \in TotalResources => s.account[R(k)] + N(k) <= b[R(k)]
    <3>1. /\ s.ok
          /\ \A k \in 1 .. (m - 1) :
               /\ Allows(policy, R(k), N(k))
               /\ R(k) \in TotalResources => s.account[R(k)] + N(k) <= a[R(k)]
      BY <1>6, <2>3, <2>12 DEF a
    <3>2. ASSUME NEW k \in 1 .. (m - 1), R(k) \in TotalResources
          PROVE  s.account[R(k)] + N(k) <= b[R(k)]
      <4>1. k \in 1 .. n /\ R(k) \in CoreResource /\ N(k) \in Nat
        <5>1. k \in 1 .. n
          BY <1>3, <2>1
        <5> QED
          BY <1>2, <5>1
      <4>2. /\ s.account[R(k)] + N(k) <= a[R(k)] /\ a[R(k)] <= b[R(k)]
            /\ s.account[R(k)] \in Nat /\ a[R(k)] \in Nat /\ b[R(k)] \in Nat
        BY <1>4, <2>4, <2>7, <3>1, <3>2, <4>1
      <4> QED
        BY <4>1, <4>2
    <3>3. /\ Allows(policy, r, x)
          /\ r \in TotalResources => s.account[r] + x <= b[r]
      <4>1. s.account[r] <= a[r] /\ s.account[r] \in Nat /\ a[r] \in Nat /\ b[r] \in Nat
        BY <1>4, <2>2, <2>4, <2>10
      <4> QED
        BY <2>2, <2>9, <2>12, <4>1
    <3> QED
      BY <2>1, <3>1, <3>2, <3>3 DEF r, x
  <2> QED
    BY <2>6, <2>10, <2>11, <2>12 DEF b
<1>7. Bad = {}
  <2> SUFFICES ASSUME Bad # {} PROVE FALSE
    OBVIOUS
  <2>1. Bad \in SUBSET Nat
    BY <1>3
  <2>2. PICK m \in Bad : \A j \in Bad : m <= j
    BY <2>1, LeastNumber
  <2> HIDE DEF P
  <2>3. m # 0 /\ m \in 0 .. n /\ ~P(m)
    BY <1>5, <2>2
  <2>4. m \in 1 .. n /\ m - 1 \in 0 .. n /\ m - 1 \notin Bad
    BY <1>3, <2>2, <2>3
  <2> QED
    BY <1>6, <2>3, <2>4
<1>8. P(n)
  BY <1>3, <1>7
<1> QED
  BY <1>1, <1>2, <1>3, <1>8 DEF n, R, N, Untouched

\* All charges of a session were taken, and added to its totals.
AllTaken(t, s, charges) ==
  /\ t.ok
  /\ \A k \in 1 .. Len(charges) :
       charges[k][1] \in TotalResources =>
         t.account[charges[k][1]] = s.account[charges[k][1]] + charges[k][2]

\* Charges that are allowed are not refused, if no total is charged twice.
LEMMA ChargedFits ==
  ASSUME NEW policy \in Policy, NEW s, IsSession(s), s.ok, NEW charges \in Charges,
         WithinPolicy(policy, s.account),
         \A k \in 1 .. Len(charges) :
           IF charges[k][1] \in TotalResources
           THEN /\ Allows(policy, charges[k][1], s.account[charges[k][1]] + charges[k][2])
                /\ \A j \in 1 .. Len(charges) : charges[j][1] = charges[k][1] => j = k
           ELSE Allows(policy, charges[k][1], charges[k][2]),
         NEW t, t = Charged(policy, s, charges)
  PROVE  AllTaken(t, s, charges)
<1> DEFINE n == Len(charges)
           R(k) == charges[k][1]
           N(k) == charges[k][2]
<1>1. PICK f : Charging(f, policy, s, charges, n) /\ t = f[n]
  BY ChargedIsLast DEF Charges
<1>2. /\ f[0] = s
      /\ \A k \in 1 .. n : /\ R(k) \in CoreResource /\ N(k) \in Nat
                           /\ f[k] = ChargedOnce(policy, f[k - 1], <<R(k), N(k)>>)
      /\ \A k \in 0 .. n : IsSession(f[k])
  <2>1. Charging(f, policy, s, charges, Len(charges))
    BY <1>1
  <2>2. f[0] = s
    BY <2>1 DEF Charging, Charges
  <2>3. \A k \in 1 .. Len(charges) :
          /\ charges[k][1] \in CoreResource /\ charges[k][2] \in Nat
          /\ f[k] = ChargedOnce(policy, f[k - 1], <<charges[k][1], charges[k][2]>>)
    BY <2>1, ChargeByCharge
  <2>4. \A k \in 0 .. Len(charges) : IsSession(f[k])
    BY <2>1, ChargeByCharge
  <2> QED
    BY <2>2, <2>3, <2>4
<1>3. n \in Nat
  BY DEF Charges
<1>4. \A k \in 1 .. n :
        IF R(k) \in TotalResources
        THEN /\ Allows(policy, R(k), s.account[R(k)] + N(k))
             /\ \A j \in 1 .. n : R(j) = R(k) => j = k
        ELSE Allows(policy, R(k), N(k))
  OBVIOUS
<1> DEFINE P(m) ==
      /\ f[m].ok
      /\ WithinPolicy(policy, f[m].account)
      /\ \A r \in CoreResource :
           (\A k \in 1 .. m : R(k) # r) => f[m].account[r] = s.account[r]
      /\ \A k \in 1 .. m :
           R(k) \in TotalResources => f[m].account[R(k)] = s.account[R(k)] + N(k)
    Bad == {m \in 0 .. n : ~P(m)}
<1> HIDE DEF n, R, N
<1>5. P(0)
  BY <1>2
<1>6. ASSUME NEW m \in 1 .. n, P(m - 1) PROVE P(m)
  <2> DEFINE a == f[m - 1].account
             b == f[m].account
             r == R(m)
             x == N(m)
  <2>1. /\ m \in Nat /\ m - 1 \in 0 .. n /\ m \in 0 .. n
        /\ 1 .. m = (1 .. (m - 1)) \cup {m} /\ m \notin 1 .. (m - 1)
        /\ 1 .. (m - 1) \subseteq 1 .. n
    BY <1>3
  <2>2. /\ IsSession(f[m - 1]) /\ IsSession(f[m]) /\ r \in CoreResource /\ x \in Nat
        /\ f[m] = ChargedOnce(policy, f[m - 1], <<r, x>>)
    BY <1>2, <2>1
  <2>3. /\ f[m].ok <=> f[m - 1].ok /\ CanRecord(policy, a, r, x)
        /\ b = IF f[m].ok THEN Recorded(a, r, x) ELSE a
    BY <2>2, OneCharge
  <2>4. a \in Account
    BY <2>2 DEF IsSession
  <2>5. f[m - 1].ok /\ WithinPolicy(policy, a)
    BY <1>6
  <2>6. r \in TotalResources => a[r] = s.account[r]
    <3> SUFFICES ASSUME r \in TotalResources PROVE a[r] = s.account[r]
      OBVIOUS
    <3>1. \A k \in 1 .. (m - 1) : R(k) # r
      BY <1>4, <2>1
    <3> QED
      BY <1>6, <2>2, <3>1
  <2> HIDE DEF a, b, r, x
  <2>7. CanRecord(policy, a, r, x)
    <3>1. CASE r \in TotalResources
      BY <1>4, <2>6, <3>1 DEF CanRecord, Projected, r, x
    <3>2. CASE r \notin TotalResources
      <4>1. Allows(policy, r, x)
        BY <1>4, <3>2 DEF r, x
      <4> QED
        BY <2>2, <2>4, <2>5, <3>2, <4>1, PeakCanBeRecorded
    <3> QED
      BY <3>1, <3>2
  <2>8. f[m].ok /\ b = Recorded(a, r, x)
    BY <2>3, <2>5, <2>7
  <2>9. WithinPolicy(policy, b)
    BY <2>2, <2>4, <2>5, <2>7, <2>8, RecordedWithinPolicy
  <2>10. \A other \in CoreResource : other # r => b[other] = a[other]
    BY <2>2, <2>4, <2>8, RecordedElsewhere
  <2>11. r \in TotalResources => b[r] = s.account[r] + x
    BY <2>2, <2>4, <2>6, <2>8, RecordedHere DEF Projected
  <2>12. \A other \in CoreResource :
           (\A k \in 1 .. m : R(k) # other) => b[other] = s.account[other]
    <3>1. \A other \in CoreResource :
            (\A k \in 1 .. (m - 1) : R(k) # other) => a[other] = s.account[other]
      BY <1>6 DEF a
    <3> QED
      BY <2>1, <2>10, <3>1 DEF r
  <2>13. ASSUME NEW k \in 1 .. m, R(k) \in TotalResources
         PROVE  b[R(k)] = s.account[R(k)] + N(k)
    <3>1. CASE k = m
      BY <2>11, <2>13, <3>1 DEF r, x
    <3>2. CASE k # m
      <4>1. k \in 1 .. (m - 1) /\ k \in 1 .. n
        BY <1>3, <2>1, <3>2
      <4>2. R(k) # r /\ R(k) \in CoreResource
        BY <1>2, <1>4, <2>13, <3>2, <4>1 DEF r
      <4>3. a[R(k)] = s.account[R(k)] + N(k)
        BY <1>6, <2>13, <4>1 DEF a
      <4> QED
        BY <2>10, <4>2, <4>3
    <3> QED
      BY <3>1, <3>2
  <2> QED
    BY <2>8, <2>9, <2>12, <2>13 DEF b
<1>7. Bad = {}
  <2> SUFFICES ASSUME Bad # {} PROVE FALSE
    OBVIOUS
  <2>1. Bad \in SUBSET Nat
    BY <1>3
  <2>2. PICK m \in Bad : \A j \in Bad : m <= j
    BY <2>1, LeastNumber
  <2> HIDE DEF P
  <2>3. m # 0 /\ m \in 0 .. n /\ ~P(m)
    BY <1>5, <2>2
  <2>4. m \in 1 .. n /\ m - 1 \in 0 .. n /\ m - 1 \notin Bad
    BY <1>3, <2>2, <2>3
  <2> QED
    BY <1>6, <2>3, <2>4
<1>8. P(n)
  BY <1>3, <1>7
<1> QED
  BY <1>1, <1>8 DEF n, R, N, AllTaken

\* One sequence behind another.
LEMMA Joined ==
  ASSUME NEW S, NEW s \in Seq(S), NEW t \in Seq(S)
  PROVE  /\ s \o t \in Seq(S) /\ Len(s \o t) = Len(s) + Len(t)
         /\ \A i \in 1 .. Len(s) : (s \o t)[i] = s[i]
         /\ \A i \in 1 .. Len(t) : (s \o t)[Len(s) + i] = t[i]
OBVIOUS

\* Charges of which only the largest is kept.
PeakCharges == Seq((CoreResource \ TotalResources) \X Nat)

-----------------------------------------------------------------------------
(* Sequences of records.                                                   *)

\* What the assumption on sizes says of each of them.
LEMMA SizesAreNaturals ==
  /\ HeaderSize \in Nat /\ ManifestSize \in Nat /\ RecordHeaderSize \in Nat
  /\ PreambleSize \in Nat /\ PreambleSize <= UintMax /\ UintMax \in Nat
BY SizeAssumption DEF PreambleSize

\* The kinds of record, and their sizes.
LEMMA RecordKinds ==
  /\ Preamble.kind = "preamble" /\ RecordSize(Preamble) = PreambleSize
  /\ \A c : /\ ChunkRecord(c).kind = "chunk" /\ ChunkRecord(c).chunk = c
            /\ RecordSize(ChunkRecord(c)) = ChunkSize(c)
  /\ \A totals, committed, content :
       /\ CommitRecord(totals, committed, content).kind = "commit"
       /\ RecordSize(CommitRecord(totals, committed, content))
            = RecordHeaderSize
BY DEF Preamble, ChunkRecord, CommitRecord, RecordSize

\* Every record has a natural size.
LEMMA RecordSizes ==
  ASSUME NEW r, IsRecord(r)
  PROVE  /\ RecordSize(r) \in Nat
         /\ r.kind = "chunk" =>
              /\ IsChunk(r.chunk) /\ r = ChunkRecord(r.chunk)
              /\ RecordSize(r) = ChunkSize(r.chunk)
         /\ r.kind \in {"preamble", "chunk", "commit"}
<1>1. CASE r = Preamble
  BY <1>1, RecordKinds, SizesAreNaturals
<1>2. CASE r.kind = "chunk" /\ r = ChunkRecord(r.chunk) /\ IsChunk(r.chunk)
  <2>1. ChunkSize(r.chunk) \in Nat
    BY <1>2, SizesAreNaturals DEF ChunkSize, IsChunk
  <2> QED
    BY <1>2, <2>1, RecordKinds
<1>3. CASE /\ r.kind = "commit"
           /\ r = CommitRecord(r.totals, r.committed, r.content)
  BY <1>3, RecordKinds, SizesAreNaturals
<1> QED
  BY <1>1, <1>2, <1>3 DEF IsRecord

\* Chunks among records.
ChunkSet(R) == {c \in {r.chunk : r \in R} : IsChunk(c)}

\* The chunks of a sequence are at finitely many of its places.
LEMMA Positions ==
  ASSUME NEW R, NEW w \in Seq(R)
  PROVE  /\ ChunkPositions(w) \in SUBSET (1 .. Len(w))
         /\ ChunkPositions(w) \in SUBSET Nat
         /\ IsFiniteSet(ChunkPositions(w))
         /\ Cardinality(ChunkPositions(w)) \in Nat
<1>1. ChunkPositions(w) \in SUBSET (1 .. Len(w)) /\ Len(w) \in Nat
  BY DEF ChunkPositions
<1>2. IsFiniteSet(ChunkPositions(w))
  <2>1. IsFiniteSet(1 .. Len(w))
    BY <1>1, FS_Interval
  <2> QED
    BY <1>1, <2>1, FS_Subset
<1> QED
  BY <1>1, <1>2, FS_CardinalityType

\* A record more is at most one place more.
LEMMA PositionsOfOneMore ==
  ASSUME NEW R, NEW w \in Seq(R), NEW r \in R
  PROVE  ChunkPositions(Append(w, r)) =
           ChunkPositions(w) \cup (IF r.kind = "chunk" THEN {Len(w) + 1} ELSE {})
<1>1. /\ DOMAIN Append(w, r) = (1 .. Len(w)) \cup {Len(w) + 1}
      /\ \A i \in 1 .. Len(w) : Append(w, r)[i] = w[i]
      /\ Append(w, r)[Len(w) + 1] = r
      /\ DOMAIN w = 1 .. Len(w)
      /\ Len(w) + 1 \notin 1 .. Len(w)
  OBVIOUS
<1> QED
  BY <1>1 DEF ChunkPositions

\* The chunks of a sequence are chunks, in a sequence.
LEMMA ChunksAreChunks ==
  ASSUME NEW R, \A r \in R : IsRecord(r), NEW w \in Seq(R)
  PROVE  /\ ChunksOf(w) \in Seq(ChunkSet(R))
         /\ Len(ChunksOf(w)) = Cardinality(ChunkPositions(w))
<1> DEFINE P == ChunkPositions(w)
           n == Cardinality(P)
           p == InOrder(P)
<1>1. P \in SUBSET (1 .. Len(w)) /\ n \in Nat
  BY Positions
<1>2. p \in [1 .. n -> P]
  BY Positions, InOrderLists
<1>3. \A i \in P : w[i].chunk \in ChunkSet(R)
  <2> SUFFICES ASSUME NEW i \in P PROVE w[i].chunk \in ChunkSet(R)
    OBVIOUS
  <2>1. w[i] \in R /\ w[i].kind = "chunk"
    BY <1>1 DEF ChunkPositions
  <2>2. IsChunk(w[i].chunk)
    BY <2>1, RecordSizes
  <2> QED
    BY <2>1, <2>2 DEF ChunkSet
<1>4. ChunksOf(w) = [k \in 1 .. n |-> w[p[k]].chunk]
  BY DEF ChunksOf
<1> HIDE DEF n, p, P
<1>5. \A k \in 1 .. n : w[p[k]].chunk \in ChunkSet(R)
  BY <1>2, <1>3
<1>6. ChunksOf(w) \in Seq(ChunkSet(R)) /\ Len(ChunksOf(w)) = n
  BY <1>1, <1>4, <1>5
<1> QED
  BY <1>6 DEF n, P

\* One more record adds its chunk, if it has one, to the chunks.
LEMMA ChunksOfOneMore ==
  ASSUME NEW R, \A r \in R : IsRecord(r), NEW w \in Seq(R), NEW r \in R
  PROVE  ChunksOf(Append(w, r)) =
           IF r.kind = "chunk" THEN Append(ChunksOf(w), r.chunk)
                               ELSE ChunksOf(w)
<1> DEFINE P == ChunkPositions(w)
           Q == ChunkPositions(Append(w, r))
           n == Cardinality(P)
<1>1. P \in SUBSET (1 .. Len(w)) /\ P \in SUBSET Nat /\ n \in Nat
      /\ IsFiniteSet(P)
  BY Positions
<1>2. InOrder(P) \in [1 .. n -> P]
  BY <1>1, InOrderLists
<1>3. \A k \in 1 .. n : InOrder(P)[k] \in 1 .. Len(w)
  BY <1>1, <1>2
<1>4. \A i \in 1 .. Len(w) : Append(w, r)[i] = w[i]
  OBVIOUS
<1>5. ChunksOf(w) = [k \in 1 .. n |-> w[InOrder(P)[k]].chunk]
  BY DEF ChunksOf
<1>6. ChunksOf(Append(w, r)) =
        [k \in 1 .. Cardinality(Q) |-> Append(w, r)[InOrder(Q)[k]].chunk]
  BY DEF ChunksOf
<1>7. CASE r.kind = "chunk"
  <2>1. Q = P \cup {Len(w) + 1}
    BY <1>7, PositionsOfOneMore
  <2>2. Len(w) + 1 \in Nat /\ \A y \in P : y < Len(w) + 1
    BY <1>1
  <2>3. /\ Cardinality(Q) = n + 1
        /\ \A i \in 1 .. n : InOrder(Q)[i] = InOrder(P)[i]
        /\ InOrder(Q)[n + 1] = Len(w) + 1
    <3> DEFINE l == Len(w) + 1
    <3>1. P \in SUBSET Nat /\ IsFiniteSet(P) /\ l \in Nat /\ \A y \in P : y < l
      BY <1>1, <2>2
    <3>2. Q = P \cup {l}
      BY <2>1
    <3> HIDE DEF P, Q, l
    <3>3. /\ Cardinality(Q) = Cardinality(P) + 1
          /\ \A i \in 1 .. Cardinality(P) : InOrder(Q)[i] = InOrder(P)[i]
          /\ InOrder(Q)[Cardinality(P) + 1] = l
      BY <3>1, <3>2, InOrderOneMore
    <3> QED
      BY <3>3 DEF l
  <2> HIDE DEF n, P, Q
  <2>4. Append(w, r)[Len(w) + 1] = r
    OBVIOUS
  <2>5. \A k \in 1 .. (n + 1) :
          Append(w, r)[InOrder(Q)[k]].chunk =
            IF k = n + 1 THEN r.chunk ELSE w[InOrder(P)[k]].chunk
    <3> SUFFICES ASSUME NEW k \in 1 .. (n + 1)
                 PROVE  Append(w, r)[InOrder(Q)[k]].chunk =
                          IF k = n + 1 THEN r.chunk ELSE w[InOrder(P)[k]].chunk
      OBVIOUS
    <3>1. CASE k = n + 1
      BY <2>3, <2>4, <3>1
    <3>2. CASE k # n + 1
      <4>1. k \in 1 .. n
        BY <1>1, <3>2
      <4> QED
        BY <1>3, <1>4, <2>3, <3>2, <4>1
    <3> QED
      BY <3>1, <3>2
  <2>6. ChunksOf(Append(w, r)) =
          [k \in 1 .. (n + 1) |-> IF k = n + 1 THEN r.chunk
                                              ELSE w[InOrder(P)[k]].chunk]
    BY <1>6, <2>3, <2>5
  <2>7. ChunksOf(w) \in Seq(ChunkSet(R)) /\ Len(ChunksOf(w)) = n
    BY ChunksAreChunks DEF n, P
  <2>8. Append(ChunksOf(w), r.chunk) =
          [k \in 1 .. (n + 1) |-> IF k = n + 1 THEN r.chunk ELSE ChunksOf(w)[k]]
    BY <1>1, <2>7
  <2>9. \A k \in 1 .. (n + 1) :
          k # n + 1 => ChunksOf(w)[k] = w[InOrder(P)[k]].chunk
    BY <1>1, <1>5
  <2> QED
    BY <1>7, <2>6, <2>8, <2>9
<1>8. CASE r.kind # "chunk"
  <2>1. Q = P
    <3>1. Q = P \cup (IF r.kind = "chunk" THEN {Len(w) + 1} ELSE {})
      BY PositionsOfOneMore
    <3> HIDE DEF P, Q
    <3> QED
      BY <1>8, <3>1
  <2>2. \A k \in 1 .. n : Append(w, r)[InOrder(P)[k]] = w[InOrder(P)[k]]
    BY <1>3, <1>4
  <2> HIDE DEF n, P, Q
  <2>3. ChunksOf(Append(w, r)) =
          [k \in 1 .. n |-> Append(w, r)[InOrder(P)[k]].chunk]
    BY <1>6, <2>1 DEF n
  <2> QED
    BY <1>5, <1>8, <2>2, <2>3
<1> QED
  BY <1>7, <1>8

\* A record more adds its size.
LEMMA SizeOfOneMore ==
  ASSUME NEW R, \A r \in R : IsRecord(r), NEW w \in Seq(R), NEW r \in R
  PROVE  /\ SizeOf(Append(w, r)) = SizeOf(w) + RecordSize(r)
         /\ SizeOf(w) \in Nat
<1> DEFINE s == [i \in DOMAIN w |-> RecordSize(w[i])]
           t == [i \in DOMAIN Append(w, r) |-> RecordSize(Append(w, r)[i])]
<1>1. \A x \in R : RecordSize(x) \in Nat
  BY RecordSizes
<1>2. s \in Seq(Nat)
  <2>1. \A i \in 1 .. Len(w) : w[i] \in R
    OBVIOUS
  <2>2. \A i \in 1 .. Len(w) : RecordSize(w[i]) \in Nat
    BY <1>1, <2>1
  <2> QED
    BY <2>2
<1>3. t = Append(s, RecordSize(r))
  <2>1. /\ DOMAIN Append(w, r) = 1 .. (Len(w) + 1)
        /\ \A i \in 1 .. Len(w) : Append(w, r)[i] = w[i]
        /\ Append(w, r)[Len(w) + 1] = r
    OBVIOUS
  <2>2. Len(s) = Len(w) /\ Len(w) \in Nat
    OBVIOUS
  <2>3. Append(s, RecordSize(r)) =
          [i \in 1 .. (Len(w) + 1) |->
             IF i = Len(w) + 1 THEN RecordSize(r) ELSE s[i]]
    BY <1>2, <2>2
  <2>4. \A i \in 1 .. (Len(w) + 1) :
          RecordSize(Append(w, r)[i]) =
            IF i = Len(w) + 1 THEN RecordSize(r) ELSE s[i]
    <3> SUFFICES ASSUME NEW i \in 1 .. (Len(w) + 1)
                 PROVE  RecordSize(Append(w, r)[i]) =
                          IF i = Len(w) + 1 THEN RecordSize(r) ELSE s[i]
      OBVIOUS
    <3>1. CASE i = Len(w) + 1
      BY <2>1, <3>1
    <3>2. CASE i # Len(w) + 1
      <4>1. i \in 1 .. Len(w)
        BY <2>2, <3>2
      <4> QED
        BY <2>1, <3>2, <4>1
    <3> QED
      BY <3>1, <3>2
  <2> HIDE DEF s
  <2>5. t = [i \in 1 .. (Len(w) + 1) |-> RecordSize(Append(w, r)[i])]
    BY <2>1
  <2> HIDE DEF t
  <2> QED
    BY <2>3, <2>4, <2>5
<1>4. RecordSize(r) \in Nat
  BY <1>1
<1>5. SizeOf(w) = SumOf(s) /\ SizeOf(Append(w, r)) = SumOf(t)
  BY DEF SizeOf
<1> HIDE DEF s, t
<1> QED
  BY <1>2, <1>3, <1>4, <1>5, SumOfOneMore

\* A chunk of a sequence of chunks has its sizes, and what they sum to.
LEMMA SumsOfOneMore ==
  ASSUME NEW C, \A c \in C : IsChunk(c), NEW s \in Seq(C), NEW c \in C
  PROVE  LET t == Append(s, c) IN
         /\ SumOf([k \in DOMAIN t |-> t[k].logical]) =
              SumOf([k \in DOMAIN s |-> s[k].logical]) + c.logical
         /\ SumOf([k \in DOMAIN t |-> t[k].encoded]) =
              SumOf([k \in DOMAIN s |-> s[k].encoded]) + c.encoded
         /\ SumOf([k \in DOMAIN s |-> s[k].logical]) \in Nat
         /\ SumOf([k \in DOMAIN s |-> s[k].encoded]) \in Nat
<1> DEFINE t == Append(s, c)
           logical == [k \in DOMAIN s |-> s[k].logical]
           encoded == [k \in DOMAIN s |-> s[k].encoded]
<1>1. /\ Len(s) \in Nat /\ DOMAIN s = 1 .. Len(s)
      /\ DOMAIN t = 1 .. (Len(s) + 1)
      /\ \A k \in 1 .. Len(s) : t[k] = s[k] /\ s[k] \in C
      /\ t[Len(s) + 1] = c
  OBVIOUS
<1>2. \A x \in C : x.logical \in Nat /\ x.encoded \in Nat
  BY DEF IsChunk
<1> HIDE DEF t
<1>3. /\ logical \in Seq(Nat) /\ Len(logical) = Len(s)
      /\ encoded \in Seq(Nat) /\ Len(encoded) = Len(s)
  BY <1>1, <1>2
<1>4. [k \in DOMAIN t |-> t[k].logical] = Append(logical, c.logical)
  <2>1. Append(logical, c.logical) =
          [k \in 1 .. (Len(s) + 1) |->
             IF k = Len(s) + 1 THEN c.logical ELSE logical[k]]
    BY <1>1, <1>3
  <2>2. \A k \in 1 .. (Len(s) + 1) :
          t[k].logical = IF k = Len(s) + 1 THEN c.logical ELSE logical[k]
    <3> SUFFICES ASSUME NEW k \in 1 .. (Len(s) + 1)
                 PROVE  t[k].logical =
                          IF k = Len(s) + 1 THEN c.logical ELSE logical[k]
      OBVIOUS
    <3>1. k = Len(s) + 1 \/ k \in 1 .. Len(s)
      BY <1>1
    <3> QED
      BY <1>1, <3>1
  <2> HIDE DEF logical
  <2> QED
    BY <1>1, <2>1, <2>2
<1>5. [k \in DOMAIN t |-> t[k].encoded] = Append(encoded, c.encoded)
  <2>1. Append(encoded, c.encoded) =
          [k \in 1 .. (Len(s) + 1) |->
             IF k = Len(s) + 1 THEN c.encoded ELSE encoded[k]]
    BY <1>1, <1>3
  <2>2. \A k \in 1 .. (Len(s) + 1) :
          t[k].encoded = IF k = Len(s) + 1 THEN c.encoded ELSE encoded[k]
    <3> SUFFICES ASSUME NEW k \in 1 .. (Len(s) + 1)
                 PROVE  t[k].encoded =
                          IF k = Len(s) + 1 THEN c.encoded ELSE encoded[k]
      OBVIOUS
    <3>1. k = Len(s) + 1 \/ k \in 1 .. Len(s)
      BY <1>1
    <3> QED
      BY <1>1, <3>1
  <2> HIDE DEF encoded
  <2> QED
    BY <1>1, <2>1, <2>2
<1>6. c.logical \in Nat /\ c.encoded \in Nat
  BY <1>2
<1> HIDE DEF logical, encoded
<1>7. /\ SumOf([k \in DOMAIN t |-> t[k].logical]) = SumOf(logical) + c.logical
      /\ SumOf([k \in DOMAIN t |-> t[k].encoded]) = SumOf(encoded) + c.encoded
      /\ SumOf(logical) \in Nat /\ SumOf(encoded) \in Nat
  BY <1>3, <1>4, <1>5, <1>6, SumOfOneMore
<1> QED
  BY <1>7 DEF t, logical, encoded

\* One more chunk moves the totals as the sessions move their counters.
LEMMA TotalsOfOneMore ==
  ASSUME NEW R, \A r \in R : IsRecord(r), NEW w \in Seq(R), NEW r \in R
  PROVE  TotalsOf(Append(w, r)) =
           IF r.kind = "chunk" THEN AddTotals(TotalsOf(w), r.chunk)
                               ELSE TotalsOf(w)
<1> DEFINE s == ChunksOf(w)
<1>1. CASE r.kind = "chunk"
  <2>1. s \in Seq(ChunkSet(R)) /\ \A c \in ChunkSet(R) : IsChunk(c)
    BY ChunksAreChunks DEF ChunkSet
  <2>2. r.chunk \in ChunkSet(R)
    BY <1>1, RecordSizes DEF ChunkSet
  <2>3. ChunksOf(Append(w, r)) = Append(s, r.chunk)
    BY <1>1, ChunksOfOneMore
  <2>4. Len(Append(s, r.chunk)) = Len(s) + 1
    BY <2>1, <2>2
  <2> DEFINE t == Append(s, r.chunk)
  <2>5. /\ SumOf([k \in DOMAIN t |-> t[k].logical]) =
             SumOf([k \in DOMAIN s |-> s[k].logical]) + r.chunk.logical
        /\ SumOf([k \in DOMAIN t |-> t[k].encoded]) =
             SumOf([k \in DOMAIN s |-> s[k].encoded]) + r.chunk.encoded
    BY <2>1, <2>2, SumsOfOneMore
  <2>6. TotalsOf(Append(w, r)) =
          [chunks  |-> Len(t),
           logical |-> SumOf([k \in DOMAIN t |-> t[k].logical]),
           encoded |-> SumOf([k \in DOMAIN t |-> t[k].encoded])]
    BY <2>3 DEF TotalsOf
  <2>7. TotalsOf(w) =
          [chunks  |-> Len(s),
           logical |-> SumOf([k \in DOMAIN s |-> s[k].logical]),
           encoded |-> SumOf([k \in DOMAIN s |-> s[k].encoded])]
    BY DEF TotalsOf
  <2> HIDE DEF s, t
  <2>8. Len(t) = Len(s) + 1
    BY <2>4 DEF t
  <2> QED
    BY <1>1, <2>5, <2>6, <2>7, <2>8 DEF AddTotals
<1>2. CASE r.kind # "chunk"
  <2>1. ChunksOf(Append(w, r)) = ChunksOf(w)
    BY <1>2, ChunksOfOneMore
  <2> QED
    BY <1>2, <2>1 DEF TotalsOf
<1> QED
  BY <1>1, <1>2

-----------------------------------------------------------------------------
(* What precedes the commit.                                               *)

\* The chunks of a stream among the records: the next sequence number.
Numbered(w, stream) ==
  {j \in ChunkPositions(w) : w[j].chunk.stream = stream}

\* A chunk more is one more in its stream.
LEMMA NumberedOfOneMore ==
  ASSUME NEW R, NEW w \in Seq(R), NEW c, ChunkRecord(c) \in R, NEW stream
  PROVE  /\ Cardinality(Numbered(Append(w, ChunkRecord(c)), stream)) =
              Cardinality(Numbered(w, stream))
                + (IF c.stream = stream THEN 1 ELSE 0)
         /\ Cardinality(Numbered(w, stream)) \in Nat
<1> DEFINE r == ChunkRecord(c)
           N == Numbered(w, stream)
<1>1. /\ r.kind = "chunk" /\ r.chunk = c
      /\ \A i \in 1 .. Len(w) : Append(w, r)[i] = w[i]
      /\ Append(w, r)[Len(w) + 1] = r
      /\ Len(w) + 1 \notin 1 .. Len(w)
  BY RecordKinds
<1>2. ChunkPositions(Append(w, r)) = ChunkPositions(w) \cup {Len(w) + 1}
  <2>1. ChunkPositions(Append(w, r)) =
          ChunkPositions(w) \cup (IF r.kind = "chunk" THEN {Len(w) + 1} ELSE {})
    BY PositionsOfOneMore
  <2> HIDE DEF r
  <2> QED
    BY <1>1, <2>1
<1>3. ChunkPositions(w) \in SUBSET (1 .. Len(w)) /\ IsFiniteSet(ChunkPositions(w))
  BY Positions
<1> HIDE DEF r
<1>4. Numbered(Append(w, r), stream) =
        N \cup (IF c.stream = stream THEN {Len(w) + 1} ELSE {})
  BY <1>1, <1>2, <1>3 DEF Numbered
<1>5. IsFiniteSet(N) /\ Len(w) + 1 \notin N
  <2>1. N \subseteq ChunkPositions(w)
    BY DEF Numbered
  <2> QED
    BY <1>1, <1>3, <2>1, FS_Subset
<1> HIDE DEF N
<1>6. Cardinality(N) \in Nat
  BY <1>5, FS_CardinalityType
<1>7. Cardinality(N \cup {Len(w) + 1}) = Cardinality(N) + 1
  BY <1>5, FS_AddElement
<1>8. N \cup {} = N
  OBVIOUS
<1>9. Cardinality(Numbered(Append(w, r), stream)) =
        Cardinality(N) + (IF c.stream = stream THEN 1 ELSE 0)
  <2>1. CASE c.stream = stream
    BY <1>4, <1>7, <2>1
  <2>2. CASE c.stream # stream
    BY <1>4, <1>6, <1>8, <2>2
  <2> QED
    BY <2>1, <2>2
<1> QED
  BY <1>6, <1>9 DEF r, N

\* Some of the chunks of a sequence are as many among its chunks as they are
\* among its records.
LEMMA PlacesOfSome ==
  ASSUME NEW R, NEW w \in Seq(R), NEW Q \in SUBSET ChunkPositions(w)
  PROVE  LET n == Cardinality(ChunkPositions(w))
             places == InOrder(ChunkPositions(w))
         IN  /\ places \in [1 .. n -> ChunkPositions(w)]
             /\ \A i, j \in 1 .. n : i < j <=> places[i] < places[j]
             /\ \A p \in ChunkPositions(w) : \E k \in 1 .. n : places[k] = p
             /\ Cardinality({k \in 1 .. n : places[k] \in Q}) = Cardinality(Q)
<1> DEFINE P == ChunkPositions(w)
           n == Cardinality(P)
           places == InOrder(P)
           K == {k \in 1 .. n : places[k] \in Q}
<1>1. P \in SUBSET Nat /\ IsFiniteSet(P) /\ n \in Nat
  BY Positions
<1>2. /\ places \in [1 .. n -> P]
      /\ \A i, j \in 1 .. n : i < j => places[i] < places[j]
  BY <1>1, InOrderLists
<1> HIDE DEF P, n, places
<1>3. ASSUME NEW i \in 1 .. n, NEW j \in 1 .. n
      PROVE  /\ i < j <=> places[i] < places[j]
             /\ places[i] = places[j] => i = j
  <2>1. places[i] \in Nat /\ places[j] \in Nat /\ i \in Nat /\ j \in Nat
    <3>1. places[i] \in P /\ places[j] \in P
      BY <1>2
    <3>2. P \subseteq Nat
      BY <1>1
    <3>3. i \in Nat /\ j \in Nat
      BY <1>1
    <3> QED
      BY <3>1, <3>2, <3>3
  <2>2. i < j \/ i = j \/ j < i
    BY <2>1
  <2> QED
    BY <1>2, <2>1, <2>2
<1>4. places \in Injection(1 .. n, P)
  BY <1>2, <1>3 DEF Injection, IsInjective
<1>5. IsFiniteSet(1 .. n) /\ Cardinality(1 .. n) = n
  BY <1>1, FS_Interval
<1>6. places \in Surjection(1 .. n, P)
  BY <1>1, <1>4, <1>5, FS_Injection DEF n
<1>7. \A p \in P : \E k \in 1 .. n : places[k] = p
  BY <1>6 DEF Surjection
<1>8. Cardinality(K) = Cardinality(Q)
  <2>1. IsFiniteSet(K)
    BY <1>5, FS_Subset
  <2> DEFINE f == [k \in K |-> places[k]]
  <2>2. f \in [K -> Q]
    OBVIOUS
  <2>3. \A i, j \in K : f[i] = f[j] => i = j
    BY <1>3
  <2>4. \A q \in Q : \E k \in K : f[k] = q
    BY <1>7 DEF P
  <2>5. f \in Injection(K, Q)
    BY <2>2, <2>3 DEF Injection, IsInjective
  <2>6. f \in Surjection(K, Q)
    BY <2>2, <2>4 DEF Surjection
  <2>7. ExistsBijection(K, Q)
    BY <2>5, <2>6 DEF ExistsBijection, Bijection
  <2> QED
    BY <2>1, <2>7, FS_Bijection
<1> QED
  BY <1>2, <1>3, <1>7, <1>8 DEF P, n, places

\* The places of a stream in a sequence of chunks, and the first of some places.
InStream(chunks, stream) == {k \in DOMAIN chunks : chunks[k].stream = stream}

Ahead(places, i) == {k \in places : k < i}

\* A stream has as many chunks as records, before each of its chunks and in
\* all.
LEMMA StreamOfChunks ==
  ASSUME NEW R, NEW w \in Seq(R), NEW stream
  PROVE  LET chunks == ChunksOf(w) IN
         /\ Cardinality(InStream(chunks, stream))
              = Cardinality(Numbered(w, stream))
         /\ \A p \in ChunkPositions(w) : \E i \in DOMAIN chunks :
              /\ chunks[i] = w[p].chunk
              /\ Cardinality(Ahead(InStream(chunks, stream), i))
                   = Cardinality(Ahead(Numbered(w, stream), p))
<1> DEFINE P == ChunkPositions(w)
           n == Cardinality(P)
           places == InOrder(P)
           chunks == ChunksOf(w)
           Q == Numbered(w, stream)
<1>1. /\ places \in [1 .. n -> P]
      /\ \A i, j \in 1 .. n : i < j <=> places[i] < places[j]
      /\ \A p \in P : \E k \in 1 .. n : places[k] = p
  BY PlacesOfSome
<1>2. /\ DOMAIN chunks = 1 .. n
      /\ \A k \in 1 .. n : chunks[k] = w[places[k]].chunk
  BY DEF ChunksOf
<1>3. Q \in SUBSET P /\ \A p : Ahead(Q, p) \in SUBSET P
  BY DEF Numbered, Ahead
<1>4. \A p \in P : p \in Q <=> w[p].chunk.stream = stream
  BY DEF Numbered
<1> HIDE DEF P, n, places, chunks, Q
<1>5. InStream(chunks, stream) = {k \in 1 .. n : places[k] \in Q}
  BY <1>1, <1>2, <1>4 DEF InStream
<1>6. Cardinality({k \in 1 .. n : places[k] \in Q}) = Cardinality(Q)
  BY <1>3, PlacesOfSome DEF P, n, places
<1>7. ASSUME NEW p \in P
      PROVE  \E i \in DOMAIN chunks :
               /\ chunks[i] = w[p].chunk
               /\ Cardinality(Ahead(InStream(chunks, stream), i))
                    = Cardinality(Ahead(Q, p))
  <2>1. PICK i \in 1 .. n : places[i] = p
    BY <1>1
  <2>2. Ahead(InStream(chunks, stream), i)
          = {k \in 1 .. n : places[k] \in Ahead(Q, p)}
    BY <1>1, <1>2, <1>4, <2>1 DEF Ahead, InStream
  <2>3. Cardinality({k \in 1 .. n : places[k] \in Ahead(Q, p)})
          = Cardinality(Ahead(Q, p))
    BY <1>3, PlacesOfSome DEF P, n, places
  <2> QED
    BY <1>2, <2>1, <2>2, <2>3
<1> QED
  BY <1>5, <1>6, <1>7 DEF P, chunks, Q

\* A content stays valid with a chunk that continues its stream.
LEMMA ContentOfOneMore ==
  ASSUME NEW R, NEW w \in Seq(R), Len(w) >= 1, NEW c, ChunkRecord(c) \in R
  PROVE  ValidContent(Append(w, ChunkRecord(c))) <=>
           /\ ValidContent(w)
           /\ c.stream \in StreamIds
           /\ c.recipe \in RecipeIds
           /\ c.sequence = Cardinality(Numbered(w, c.stream))
<1> DEFINE r == ChunkRecord(c)
           v == Append(w, r)
           n == Len(w)
           P == ChunkPositions(w)
<1>1. /\ n \in Nat /\ Len(v) = n + 1 /\ v # <<>> /\ w # <<>>
      /\ \A i \in 1 .. n : v[i] = w[i]
      /\ v[n + 1] = r
  OBVIOUS
<1>2. r.kind = "chunk" /\ r.chunk = c
  BY RecordKinds
<1>3. ChunkPositions(v) = P \cup {n + 1}
  <2>1. ChunkPositions(v) = P \cup (IF r.kind = "chunk" THEN {n + 1} ELSE {})
    BY PositionsOfOneMore
  <2> HIDE DEF r
  <2> QED
    BY <1>2, <2>1
<1>4. P \in SUBSET (1 .. n)
  BY Positions
<1> HIDE DEF r, v, n, P
<1>5. \A i \in P :
        /\ v[i] = w[i]
        /\ {j \in P \cup {n + 1} : j < i /\ v[j].chunk.stream = v[i].chunk.stream}
             = {j \in P : j < i /\ w[j].chunk.stream = w[i].chunk.stream}
  <2> SUFFICES ASSUME NEW i \in P
               PROVE  /\ v[i] = w[i]
                      /\ \A j \in P \cup {n + 1} :
                           j < i => j \in P /\ v[j] = w[j]
    OBVIOUS
  <2> QED
    BY <1>1, <1>4
<1>6. {j \in P \cup {n + 1} : j < n + 1 /\ v[j].chunk.stream = v[n + 1].chunk.stream}
        = Numbered(w, c.stream)
  BY <1>1, <1>2, <1>4 DEF Numbered, P
<1>7. SequencesContiguous(w) <=>
        \A i \in P :
          w[i].chunk.sequence =
            Cardinality({j \in P : j < i /\ w[j].chunk.stream = w[i].chunk.stream})
  BY DEF SequencesContiguous, P
<1>8. SequencesContiguous(v) <=>
        \A i \in P \cup {n + 1} :
          v[i].chunk.sequence =
            Cardinality({j \in P \cup {n + 1} :
                           j < i /\ v[j].chunk.stream = v[i].chunk.stream})
  BY <1>3 DEF SequencesContiguous
<1>9. SequencesContiguous(v) <=>
        /\ SequencesContiguous(w)
        /\ c.sequence = Cardinality(Numbered(w, c.stream))
  <2> DEFINE After(i) ==
               v[i].chunk.sequence =
                 Cardinality({j \in P \cup {n + 1} :
                                j < i /\ v[j].chunk.stream = v[i].chunk.stream})
             Before(i) ==
               w[i].chunk.sequence =
                 Cardinality({j \in P :
                                j < i /\ w[j].chunk.stream = w[i].chunk.stream})
  <2>1. \A i \in P : After(i) <=> Before(i)
    BY <1>5
  <2>2. After(n + 1) <=> (c.sequence = Cardinality(Numbered(w, c.stream)))
    BY <1>1, <1>2, <1>6
  <2>3. SequencesContiguous(w) <=> \A i \in P : Before(i)
    BY <1>7
  <2>4. SequencesContiguous(v) <=> \A i \in P \cup {n + 1} : After(i)
    BY <1>8
  <2> HIDE DEF After, Before
  <2> QED
    BY <2>1, <2>2, <2>3, <2>4
<1>10. (\A i \in 2 .. Len(v) :
          /\ v[i].kind = "chunk"
          /\ v[i].chunk.stream \in StreamIds
          /\ v[i].chunk.recipe \in RecipeIds)
       <=> /\ \A i \in 2 .. n :
                /\ w[i].kind = "chunk"
                /\ w[i].chunk.stream \in StreamIds
                /\ w[i].chunk.recipe \in RecipeIds
           /\ c.stream \in StreamIds
           /\ c.recipe \in RecipeIds
  <2>1. n >= 1
    BY DEF n
  <2>2. 2 .. Len(v) = (2 .. n) \cup {n + 1}
    BY <1>1, <2>1
  <2>3. \A i \in 2 .. n : v[i] = w[i]
    BY <1>1
  <2> QED
    BY <1>1, <1>2, <2>2, <2>3
<1>11. v[1] = w[1]
  BY <1>1 DEF n
<1>12. ValidContent(v) <=>
         /\ ValidContent(w)
         /\ c.stream \in StreamIds
         /\ c.recipe \in RecipeIds
         /\ c.sequence = Cardinality(Numbered(w, c.stream))
  BY <1>1, <1>9, <1>10, <1>11 DEF ValidContent, n
<1> QED
  BY <1>12 DEF v, r

\* The first k records have the places of their chunks among those of all.
LEMMA PositionsOfBeginning ==
  ASSUME NEW R, NEW w \in Seq(R), NEW k \in 0 .. Len(w)
  PROVE  /\ SubSeq(w, 1, k) \in Seq(R) /\ Len(SubSeq(w, 1, k)) = k
         /\ \A i \in 1 .. k : SubSeq(w, 1, k)[i] = w[i]
         /\ ChunkPositions(SubSeq(w, 1, k)) = ChunkPositions(w) \cap (1 .. k)
<1>1. /\ SubSeq(w, 1, k) \in Seq(R) /\ Len(SubSeq(w, 1, k)) = k
      /\ \A i \in 1 .. k : SubSeq(w, 1, k)[i] = w[i]
      /\ DOMAIN SubSeq(w, 1, k) = 1 .. k
      /\ 1 .. k \subseteq DOMAIN w
  OBVIOUS
<1> QED
  BY <1>1 DEF ChunkPositions

\* A beginning of what precedes a commit could precede one itself.
LEMMA ContentOfBeginning ==
  ASSUME NEW R, NEW w \in Seq(R), ValidContent(w), NEW k \in 1 .. Len(w)
  PROVE  ValidContent(SubSeq(w, 1, k))
<1> DEFINE v == SubSeq(w, 1, k)
           P == ChunkPositions(w)
<1>1. /\ v \in Seq(R) /\ Len(v) = k
      /\ \A i \in 1 .. k : v[i] = w[i]
      /\ ChunkPositions(v) = P \cap (1 .. k)
  BY PositionsOfBeginning
<1>2. P \in SUBSET (1 .. Len(w)) /\ Len(w) \in Nat
  BY Positions
<1> HIDE DEF v, P
<1>3. v # <<>> /\ v[1] = Preamble
  BY <1>1, <1>2 DEF ValidContent
<1>4. \A i \in 2 .. Len(v) : v[i] = w[i] /\ i \in 2 .. Len(w)
  BY <1>1, <1>2
<1>5. \A i \in P \cap (1 .. k) :
        /\ v[i] = w[i]
        /\ {j \in P \cap (1 .. k) :
              j < i /\ v[j].chunk.stream = v[i].chunk.stream}
             = {j \in P : j < i /\ w[j].chunk.stream = w[i].chunk.stream}
  <2> SUFFICES ASSUME NEW i \in P \cap (1 .. k)
               PROVE  /\ v[i] = w[i]
                      /\ \A j \in P : j < i => j \in 1 .. k /\ v[j] = w[j]
    OBVIOUS
  <2> QED
    BY <1>1, <1>2
<1>6. SequencesContiguous(v)
  <2> SUFFICES ASSUME NEW i \in P \cap (1 .. k)
               PROVE  v[i].chunk.sequence =
                        Cardinality({j \in P \cap (1 .. k) :
                          j < i /\ v[j].chunk.stream = v[i].chunk.stream})
    BY <1>1 DEF SequencesContiguous
  <2>1. w[i].chunk.sequence =
          Cardinality({j \in P : j < i /\ w[j].chunk.stream = w[i].chunk.stream})
    BY DEF ValidContent, SequencesContiguous, P
  <2> QED
    BY <1>5, <2>1
<1>7. ValidContent(v)
  BY <1>3, <1>4, <1>6 DEF ValidContent
<1> QED
  BY <1>7 DEF v

\* The beginning of a container that is one record longer.
LEMMA NextBeginning ==
  ASSUME NEW R, NEW w \in Seq(R), NEW k \in 0 .. (Len(w) - 1)
  PROVE  /\ SubSeq(w, 1, k + 1) = Append(SubSeq(w, 1, k), w[k + 1])
         /\ w[k + 1] \in R
OBVIOUS

\* The beginning of a sequence is not larger than the sequence.
LEMMA SizeOfBeginning ==
  ASSUME NEW R, \A r \in R : IsRecord(r), NEW w \in Seq(R),
         NEW k \in 0 .. Len(w)
  PROVE  /\ SizeOf(SubSeq(w, 1, k)) <= SizeOf(w)
         /\ SizeOf(SubSeq(w, 1, k)) \in Nat /\ SizeOf(w) \in Nat
<1> DEFINE s == [i \in DOMAIN w |-> RecordSize(w[i])]
           v == SubSeq(w, 1, k)
           t == [i \in DOMAIN v |-> RecordSize(v[i])]
<1>1. \A x \in R : RecordSize(x) \in Nat
  BY RecordSizes
<1>2. /\ DOMAIN w = 1 .. Len(w) /\ Len(w) \in Nat
      /\ \A i \in 1 .. Len(w) : w[i] \in R
  OBVIOUS
<1>3. s \in Seq(Nat) /\ Len(s) = Len(w)
  BY <1>1, <1>2
<1>4. v \in Seq(R) /\ DOMAIN v = 1 .. k /\ \A i \in 1 .. k : v[i] = w[i]
  OBVIOUS
<1> HIDE DEF v
<1>5. t \in Seq(Nat)
  BY <1>1, <1>4
<1>6. t = SubSeq(s, 1, k)
  <2>1. \A i \in 1 .. k : s[i] = RecordSize(w[i])
    BY <1>2
  <2>2. SubSeq(s, 1, k) = [i \in 1 .. k |-> s[i]]
    BY <1>3
  <2>3. t = [i \in 1 .. k |-> RecordSize(w[i])]
    BY <1>4
  <2> HIDE DEF s, t
  <2> QED
    BY <2>1, <2>2, <2>3
<1> HIDE DEF s, t
<1>7. SumOf(t) <= SumOf(s)
  BY <1>3, <1>6, SumOfBeginning
<1>8. SumOf(t) \in Nat /\ SumOf(s) \in Nat
  BY <1>3, <1>5, SumOfOneMore, 0 \in Nat
<1>9. SizeOf(v) = SumOf(t) /\ SizeOf(w) = SumOf(s)
  BY DEF SizeOf, s, t
<1> QED
  BY <1>7, <1>8, <1>9 DEF v

\* The beginning of a sequence has no more chunks than the sequence.
LEMMA ChunksOfBeginning ==
  ASSUME NEW R, NEW w \in Seq(R), NEW k \in 0 .. Len(w)
  PROVE  /\ Cardinality(ChunkPositions(SubSeq(w, 1, k)))
              <= Cardinality(ChunkPositions(w))
         /\ Cardinality(ChunkPositions(SubSeq(w, 1, k))) \in Nat
         /\ Cardinality(ChunkPositions(w)) \in Nat
<1>1. ChunkPositions(SubSeq(w, 1, k)) \subseteq ChunkPositions(w)
  BY PositionsOfBeginning
<1>2. SubSeq(w, 1, k) \in Seq(R)
  BY PositionsOfBeginning
<1> QED
  BY <1>1, <1>2, Positions, FS_Subset

\* Nothing was read or written yet.
LEMMA NothingYet ==
  /\ ChunksOf(<<>>) = <<>> /\ TotalsOf(<<>>) = NoTotals /\ SizeOf(<<>>) = 0
  /\ \A stream : Cardinality(Numbered(<<>>, stream)) = 0
<1>1. ChunkPositions(<<>>) = {} /\ Cardinality({}) = 0
  BY FS_EmptySet DEF ChunkPositions
<1>2. \A stream : Numbered(<<>>, stream) = {}
  BY <1>1 DEF Numbered
<1>3. ChunksOf(<<>>) = <<>>
  BY <1>1 DEF ChunksOf
<1>4. \A f : DOMAIN f = {} /\ f = [i \in DOMAIN f |-> f[i]] => f = <<>>
  OBVIOUS
<1>5. TotalsOf(<<>>) = NoTotals
  <2>1. [k \in DOMAIN <<>> |-> <<>>[k].logical] = <<>>
    BY <1>4
  <2>2. [k \in DOMAIN <<>> |-> <<>>[k].encoded] = <<>>
    BY <1>4
  <2> QED
    BY <1>3, <2>1, <2>2, SumOfNothing DEF TotalsOf, NoTotals
<1>6. SizeOf(<<>>) = 0
  <2>1. [i \in DOMAIN <<>> |-> RecordSize(<<>>[i])] = <<>>
    BY <1>4
  <2> QED
    BY <2>1, SumOfNothing DEF SizeOf
<1> QED
  BY <1>1, <1>2, <1>3, <1>5, <1>6

\* The records of a container whose preamble alone was read or written.
LEMMA PreambleFirst ==
  ASSUME NEW R, \A r \in R : IsRecord(r), Preamble \in R
  PROVE  LET w == Append(<<>>, Preamble) IN
         /\ ChunksOf(w) = <<>> /\ TotalsOf(w) = NoTotals
         /\ SizeOf(w) = PreambleSize
         /\ \A stream : Cardinality(Numbered(w, stream)) = 0
         /\ ValidContent(w)
<1> DEFINE w == Append(<<>>, Preamble)
<1>1. /\ <<>> \in Seq(R) /\ Preamble.kind = "preamble"
      /\ RecordSize(Preamble) = PreambleSize /\ PreambleSize \in Nat
  BY RecordKinds, SizesAreNaturals
<1>2. ChunksOf(w) = ChunksOf(<<>>) /\ TotalsOf(w) = TotalsOf(<<>>)
  BY <1>1, ChunksOfOneMore, TotalsOfOneMore
<1>3. SizeOf(w) = SizeOf(<<>>) + PreambleSize
  BY <1>1, SizeOfOneMore
<1>4. w # <<>> /\ Len(w) = 1 /\ w[1] = Preamble /\ DOMAIN w = {1}
  OBVIOUS
<1> HIDE DEF w
<1>5. ChunkPositions(w) = {}
  BY <1>1, <1>4 DEF ChunkPositions
<1>6. \A stream : Cardinality(Numbered(w, stream)) = 0
  BY <1>5, FS_EmptySet DEF Numbered
<1>7. ValidContent(w)
  BY <1>4, <1>5 DEF ValidContent, SequencesContiguous
<1> QED
  BY <1>1, <1>2, <1>3, <1>6, <1>7, NothingYet DEF w

-----------------------------------------------------------------------------
(* The shape of the state: what the type invariant leaves open, the record *)
(* being sent and the states in which one can be sent.                     *)

Totals == [chunks : Nat, logical : Nat, encoded : Nat]

\* What write_all() may be emitting.
IsOutgoing(out) ==
  /\ out = [record |-> out.record, remaining |-> out.remaining]
  /\ out.remaining \in Nat
  /\ \/ out = NotSending
     \/ out.record = Preamble
     \/ \E c \in Chunks :
          /\ out.record = ChunkRecord(c)
          /\ c.stream \in StreamIds
     \/ out.record.kind = "commit"

Shape ==
  /\ TypeOK
  /\ IsOutgoing(outgoing)
  /\ ~Idle => writerState = "writing"

\* The sizes a chunk brings along are naturals.
LEMMA ChunkSizes ==
  ASSUME NEW c \in Chunks
  PROVE  /\ c.logical \in Nat /\ c.encoded \in Nat /\ c.sequence \in Nat
         /\ ChunkSize(c) \in Nat
BY WriterAssumption, SizesAreNaturals DEF IsChunk, ChunkSize

\* A record that starts being sent is one of the three kinds of record.
LEMMA SendingShape ==
  /\ IsOutgoing(Sending(Preamble))
  /\ \A c \in Chunks :
       c.stream \in StreamIds => IsOutgoing(Sending(ChunkRecord(c)))
  /\ \A totals, committed, content :
       IsOutgoing(Sending(CommitRecord(totals, committed, content)))
<1>1. IsOutgoing(Sending(Preamble))
  BY SizesAreNaturals DEF IsOutgoing, Sending, Preamble, RecordSize
<1>2. ASSUME NEW c \in Chunks, c.stream \in StreamIds
      PROVE  IsOutgoing(Sending(ChunkRecord(c)))
  <2>1. /\ ChunkRecord(c).kind = "chunk"
        /\ RecordSize(ChunkRecord(c)) = ChunkSize(c)
    BY DEF ChunkRecord, RecordSize
  <2> QED
    BY <1>2, <2>1, ChunkSizes DEF IsOutgoing, Sending
<1>3. ASSUME NEW totals, NEW committed, NEW content
      PROVE  IsOutgoing(Sending(CommitRecord(totals, committed, content)))
  <2>1. /\ CommitRecord(totals, committed, content).kind = "commit"
        /\ RecordSize(CommitRecord(totals, committed, content))
             = RecordHeaderSize
    BY DEF CommitRecord, RecordSize
  <2> QED
    BY <2>1, SizesAreNaturals DEF IsOutgoing, Sending
<1> QED
  BY <1>1, <1>2, <1>3

\* What is being sent has one of the three kinds, or none.
LEMMA OutgoingKinds ==
  /\ Preamble.kind = "preamble"
  /\ NotSending.record.kind = "none"
  /\ \A c : ChunkRecord(c).kind = "chunk" /\ ChunkRecord(c).chunk = c
  /\ \A totals, committed, content :
       CommitRecord(totals, committed, content).kind = "commit"
BY RecordKinds DEF NotSending

\* Adding a chunk to the totals keeps them natural numbers.
LEMMA AddTotalsType ==
  ASSUME NEW totals \in Totals, NEW c \in Chunks
  PROVE  AddTotals(totals, c) \in Totals
BY ChunkSizes DEF AddTotals, Totals

\* The totals of nothing.
LEMMA NoTotalsType == NoTotals \in Totals
BY DEF NoTotals, Totals

\* The three records write_chunk() makes for one chunk leave an account that
\* the policy allows, and do not touch the container bytes.
LEMMA ChargedForChunkFacts ==
  ASSUME NEW c \in Chunks, writerAccount \in Account
  PROVE  /\ ChargedForChunk(c) \in Account
         /\ ChargedForChunk(c)["container_bytes"]
              = writerAccount["container_bytes"]
         /\ ChargedForChunk(c)["chunks"] = writerAccount["chunks"] + 1
         /\ ( /\ WithinPolicy(writerPolicy, writerAccount)
              /\ FitsChunkCapacity(c)
              /\ EncodedRecordable(c) )
            => WithinPolicy(writerPolicy, ChargedForChunk(c))
<1> DEFINE encoded == Recorded(writerAccount, "encoded_chunk_bytes", c.encoded)
           logical == Recorded(encoded, "logical_chunk_bytes", c.logical)
<1>0. /\ c.logical \in Nat /\ c.encoded \in Nat
      /\ ChargedForChunk(c) = Recorded(logical, "chunks", 1)
  BY ChunkSizes DEF ChargedForChunk
<1>r. /\ "encoded_chunk_bytes" \in CoreResource
      /\ "logical_chunk_bytes" \in CoreResource \ TotalResources
      /\ "chunks" \in CoreResource /\ "chunks" \in TotalResources
      /\ "container_bytes" \in CoreResource
  BY DEF CoreResource, PeakResources, TotalResources
<1>1. encoded \in Account
  BY <1>0, <1>r, RecordedIsAccount
<1>2. logical \in Account
  BY <1>0, <1>1, <1>r, RecordedIsAccount
<1>3. Recorded(logical, "chunks", 1) \in Account
  BY <1>2, <1>r, RecordedIsAccount
<1> HIDE DEF encoded, logical
<1>4. /\ encoded["container_bytes"] = writerAccount["container_bytes"]
      /\ encoded["chunks"] = writerAccount["chunks"]
  BY <1>0, <1>r, RecordedElsewhere DEF encoded
<1>5. /\ logical["container_bytes"] = writerAccount["container_bytes"]
      /\ logical["chunks"] = writerAccount["chunks"]
  BY <1>0, <1>1, <1>4, <1>r, RecordedElsewhere DEF logical
<1>6. Recorded(logical, "chunks", 1)["container_bytes"]
        = writerAccount["container_bytes"]
  BY <1>2, <1>5, <1>r, RecordedElsewhere
<1>7. Recorded(logical, "chunks", 1)["chunks"] = writerAccount["chunks"] + 1
  BY <1>2, <1>5, <1>r, RecordedHere DEF Projected
<1>8. ASSUME WithinPolicy(writerPolicy, writerAccount),
             FitsChunkCapacity(c), EncodedRecordable(c)
      PROVE  WithinPolicy(writerPolicy, Recorded(logical, "chunks", 1))
  <2>1. WithinPolicy(writerPolicy, encoded)
    BY <1>0, <1>8, <1>r, RecordedWithinPolicy
    DEF encoded, EncodedRecordable
  <2>2. CanRecord(writerPolicy, encoded, "logical_chunk_bytes", c.logical)
    BY <1>0, <1>1, <1>8, <1>r, <2>1, PeakCanBeRecorded DEF FitsChunkCapacity
  <2>3. WithinPolicy(writerPolicy, logical)
    BY <1>0, <1>1, <1>r, <2>1, <2>2, RecordedWithinPolicy DEF logical
  <2>4. CanRecord(writerPolicy, logical, "chunks", 1)
    BY <1>5, <1>8, <1>r DEF CanRecord, Projected, FitsChunkCapacity
  <2> QED
    BY <1>2, <1>r, <2>3, <2>4, RecordedWithinPolicy
<1> QED
  BY <1>0, <1>3, <1>6, <1>7, <1>8

-----------------------------------------------------------------------------
(* Type correctness.                                                       *)

\* The resources that the writer charges.
LEMMA ResourceNames ==
  /\ "container_bytes" \in TotalResources /\ "container_bytes" \in CoreResource
  /\ "manifest_bytes" \in CoreResource
  /\ "encoded_chunk_bytes" \in CoreResource
  /\ TotalResources \subseteq CoreResource
BY DEF CoreResource, PeakResources, TotalResources

\* At first nothing is being sent.
LEMMA InitShape == WriterInit => Shape
<1> SUFFICES ASSUME WriterInit PROVE Shape
  OBVIOUS
<1>1. writerPolicy \in Policy
  BY WriterAssumption DEF WriterInit
<1>2. writerAccount \in Account
  BY <1>1, NewAccountWithinPolicy DEF WriterInit
<1>3. IsOutgoing(outgoing) /\ Idle
  BY DEF WriterInit, IsOutgoing, NotSending, Idle
<1>4. writerTotals \in [chunks : Nat, logical : Nat, encoded : Nat]
  BY NoTotalsType DEF WriterInit, Totals
<1>5. TypeOK
  BY <1>2, <1>3, <1>4 DEF WriterInit, TypeOK, IsOutgoing
<1> QED
  BY <1>3, <1>5 DEF Shape

\* A record that is not "nothing" keeps the session busy.
LEMMA BusyKinds ==
  ASSUME NEW out, IsOutgoing(out)
  PROVE  /\ out = NotSending \/ out.record.kind \in {"preamble", "chunk", "commit"}
         /\ out.record.kind = "chunk" =>
              \E c \in Chunks : out.record = ChunkRecord(c) /\ c.stream \in StreamIds
<1>1. CASE out = NotSending
  BY <1>1, OutgoingKinds
<1>2. CASE out.record = Preamble
  BY <1>2, OutgoingKinds
<1>3. CASE \E c \in Chunks : out.record = ChunkRecord(c) /\ c.stream \in StreamIds
  BY <1>3, OutgoingKinds
<1>4. CASE out.record.kind = "commit"
  BY <1>4
<1> QED
  BY <1>1, <1>2, <1>3, <1>4 DEF IsOutgoing

\* The bookkeeping of a finished call keeps the counters of their kind.
LEMMA ReturnedType ==
  ASSUME Shape, ~Idle, Returned(outgoing.record)
  PROVE  /\ nextSequences' \in [StreamIds -> Nat]
         /\ writerTotals' \in Totals
         /\ writerState' \in {"writing", "complete"}
<1>1. /\ nextSequences \in [StreamIds -> Nat] /\ writerTotals \in Totals
      /\ writerState = "writing"
  BY DEF Shape, TypeOK, Totals
<1>2. CASE outgoing.record.kind = "chunk"
  <2>1. PICK c \in Chunks : outgoing.record = ChunkRecord(c) /\ c.stream \in StreamIds
    BY <1>2, BusyKinds DEF Shape
  <2>2. outgoing.record.chunk = c /\ c.sequence + 1 \in Nat
    BY <2>1, OutgoingKinds, ChunkSizes
  <2> QED
    BY <1>1, <1>2, <2>1, <2>2, AddTotalsType DEF Returned, TotalsAfter
<1>3. CASE outgoing.record.kind # "chunk"
  BY <1>1, <1>3 DEF Returned, TotalsAfter
<1> QED
  BY <1>2, <1>3

\* What the target holds changes by whole records and natural byte counts.
LEMMA AcceptedType ==
  ASSUME Shape, NEW n \in 0 .. outgoing.remaining, Accepted(n)
  PROVE  torn' \in Nat
BY DEF Shape, TypeOK, Accepted

\* The counts of a manifest are charges of which the largest is kept.
LEMMA DeclarationsAreCharged == Declarations \in PeakCharges
<1>1. Countable \subseteq CoreResource \ TotalResources
  BY DEF Countable, CoreResource, PeakResources, TotalResources
<1> DEFINE C == (CoreResource \ TotalResources) \X Nat
<1>2. Countable \X Nat \subseteq C
  BY <1>1
<1>3. Declarations \in Seq(Countable \X Nat)
  BY DeclarationAssumption
<1> HIDE DEF C
<1>4. Declarations \in Seq(C)
  BY <1>2, <1>3
<1> QED
  BY <1>4 DEF PeakCharges, C

\* So are they with a size behind them.
LEMMA MeasuringIsCharged ==
  ASSUME NEW counts \in PeakCharges, NEW size \in Nat
  PROVE  /\ Measuring(counts, size) \in PeakCharges
         /\ Len(counts) \in Nat
         /\ Len(Measuring(counts, size)) = Len(counts) + 1
         /\ \A i \in 1 .. Len(counts) : Measuring(counts, size)[i] = counts[i]
         /\ Measuring(counts, size)[Len(counts) + 1] = <<"manifest_bytes", size>>
<1> DEFINE C == (CoreResource \ TotalResources) \X Nat
           last == <<"manifest_bytes", size>>
<1>1. last \in C
  BY DEF CoreResource, PeakResources, TotalResources
<1> HIDE DEF C, last
<1>2. <<last>> \in Seq(C) /\ Len(<<last>>) = 1 /\ <<last>>[1] = last
  BY <1>1
<1>3. counts \in Seq(C) /\ Len(counts) \in Nat
  BY DEF PeakCharges, C
<1>4. /\ counts \o <<last>> \in Seq(C)
      /\ Len(counts \o <<last>>) = Len(counts) + 1
      /\ \A i \in 1 .. Len(counts) : (counts \o <<last>>)[i] = counts[i]
      /\ (counts \o <<last>>)[Len(counts) + 1] = last
  BY <1>2, <1>3, Joined
<1> QED
  BY <1>3, <1>4 DEF Measuring, PeakCharges, C, last

\* Such charges leave the totals alone, and what is not refused was allowed.
LEMMA PeaksCharged ==
  ASSUME NEW policy \in Policy, NEW account \in Account,
         NEW charges \in PeakCharges,
         NEW s, s = Charged(policy, Session(account), charges)
  PROVE  /\ s.account \in Account
         /\ \A r \in TotalResources : s.account[r] = account[r]
         /\ \A r \in CoreResource : account[r] <= s.account[r]
         /\ WithinPolicy(policy, account) => WithinPolicy(policy, s.account)
         /\ s.ok => \A k \in 1 .. Len(charges) :
                      Allows(policy, charges[k][1], charges[k][2])
<1>1. IsSession(Session(account)) /\ Session(account).account = account
  BY DEF IsSession, Session
<1>2. /\ charges \in Charges
      /\ \A k \in 1 .. Len(charges) : charges[k][1] \notin TotalResources
  <2>1. \A k \in 1 .. Len(charges) :
          charges[k] \in (CoreResource \ TotalResources) \X Nat
    BY DEF PeakCharges
  <2> QED
    BY <2>1 DEF PeakCharges, Charges
<1>3. /\ IsSession(s)
      /\ WithinPolicy(policy, account) => WithinPolicy(policy, s.account)
      /\ \A r \in CoreResource : account[r] <= s.account[r]
      /\ Untouched(s, Session(account), charges)
      /\ s.ok => \A k \in 1 .. Len(charges) :
                   Allows(policy, charges[k][1], charges[k][2])
  BY <1>1, <1>2, ChargedFacts
<1>4. \A r \in TotalResources : s.account[r] = account[r]
  BY <1>1, <1>2, <1>3 DEF Untouched, CoreResource
<1> QED
  BY <1>3, <1>4 DEF IsSession

\* What the constructor leaves in the account, whether it raises or not.
LEMMA ManifestCharged ==
  ASSUME Shape, NEW counts \in PeakCharges,
         Construct(counts) \/ ConstructRefused(counts)
  PROVE  /\ writerAccount' \in Account
         /\ \A r \in TotalResources : writerAccount'[r] = writerAccount[r]
         /\ \A r \in CoreResource : writerAccount[r] <= writerAccount'[r]
         /\ WithinPolicy(writerPolicy, writerAccount) =>
              WithinPolicy(writerPolicy, writerAccount')
         /\ Construct(counts) =>
              /\ Allows(writerPolicy, "manifest_bytes", ManifestSize)
              /\ \A k \in 1 .. Len(counts) :
                   Allows(writerPolicy, counts[k][1], counts[k][2])
<1>1. writerPolicy \in Policy /\ writerAccount \in Account
  BY WriterAssumption DEF Shape, TypeOK
<1>2. PICK charges \in PeakCharges : writerAccount' = Counting(charges).account
  BY MeasuringIsCharged, SizesAreNaturals DEF Construct, ConstructRefused
<1>3. ASSUME Construct(counts)
      PROVE  /\ Allows(writerPolicy, "manifest_bytes", ManifestSize)
             /\ \A k \in 1 .. Len(counts) :
                  Allows(writerPolicy, counts[k][1], counts[k][2])
  <2> DEFINE all == Measuring(counts, ManifestSize)
  <2>1. /\ all \in PeakCharges /\ Len(counts) \in Nat
        /\ Len(all) = Len(counts) + 1
        /\ \A i \in 1 .. Len(counts) : all[i] = counts[i]
        /\ all[Len(counts) + 1] = <<"manifest_bytes", ManifestSize>>
    BY MeasuringIsCharged, SizesAreNaturals
  <2>2. Counting(all).ok
    BY <1>3 DEF Construct
  <2> HIDE DEF all
  <2>3. \A k \in 1 .. Len(all) : Allows(writerPolicy, all[k][1], all[k][2])
    BY <1>1, <2>1, <2>2, PeaksCharged DEF Counting
  <2> QED
    BY <2>1, <2>3
<1> QED
  BY <1>1, <1>2, <1>3, PeaksCharged DEF Counting

\* Every step keeps the shape.
LEMMA ShapeStep ==
  ASSUME Shape, NEW counts \in PeakCharges, [SessionNext(counts)]_writerVars
  PROVE  Shape'
<1> USE DEF Shape
<1>0. /\ NotSending = [record |-> NotSending.record, remaining |-> 0]
      /\ IsOutgoing(NotSending)
  BY DEF NotSending, IsOutgoing
<1>1. CASE Construct(counts)
  <2>1. writerAccount' \in Account
    BY <1>1, ManifestCharged
  <2>2. IsOutgoing(outgoing')
    BY <1>1, SendingShape DEF Construct
  <2> QED
    BY <1>1, <2>1, <2>2 DEF Construct, TypeOK, Idle, IsOutgoing
<1>2. CASE ConstructRefused(counts)
  <2>2. writerAccount' \in Account
    BY <1>2, ManifestCharged
  <2>3. Idle
    BY <1>2 DEF ConstructRefused
  <2> QED
    BY <1>2, <2>2, <2>3 DEF ConstructRefused, TypeOK, Idle
<1>3. ASSUME NEW c \in Chunks, WriteChunk(c)
      PROVE  Shape'
  <2>1. writerAccount' \in Account
    BY <1>3, ChargedForChunkFacts DEF WriteChunk, TypeOK
  <2>2. IsOutgoing(outgoing')
    BY <1>3, SendingShape DEF WriteChunk, Admissible
  <2> QED
    BY <1>3, <2>1, <2>2 DEF WriteChunk, MayCall, TypeOK, Idle, IsOutgoing
<1>4. ASSUME NEW c \in Chunks, WriteChunkRefused(c)
      PROVE  Shape'
  <2>1. writerAccount' \in Account
    BY <1>4, ChunkSizes, ResourceNames, RecordedIsAccount
    DEF WriteChunkRefused, TypeOK
  <2> QED
    BY <1>4, <2>1 DEF WriteChunkRefused, MayCall, TypeOK, Idle
<1>5. CASE Finish
  <2>1. IsOutgoing(outgoing')
    BY <1>5, SendingShape DEF Finish
  <2> QED
    BY <1>5, <2>1 DEF Finish, MayCall, TypeOK, Idle, IsOutgoing
<1>6. ASSUME NEW n \in WriteResults, TargetAccepts(n)
      PROVE  Shape'
  <2>0. n \in Nat /\ n \in 0 .. outgoing.remaining
    BY DEF WriteResults, TypeOK
  <2>1. writerAccount' \in Account /\ bytesWritten' \in Nat /\ torn' \in Nat
    <3>1. writerAccount' \in Account
      BY <1>6, <2>0, ResourceNames, RecordedIsAccount DEF TargetAccepts, TypeOK
    <3>2. torn' \in Nat
      BY <1>6, <2>0, AcceptedType DEF TargetAccepts
    <3>3. bytesWritten' \in Nat
      BY <1>6, <2>0 DEF TargetAccepts, TypeOK
    <3> QED
      BY <3>1, <3>2, <3>3
  <2>2. CASE n = outgoing.remaining
    <3>1. Returned(outgoing.record) /\ outgoing' = NotSending /\ ~Idle
      BY <1>6, <2>2 DEF TargetAccepts
    <3>2. /\ nextSequences' \in [StreamIds -> Nat]
          /\ writerTotals' \in Totals
          /\ writerState' \in {"writing", "complete"}
      BY <3>1, ReturnedType
    <3> QED
      BY <1>0, <1>6, <2>1, <3>1, <3>2 DEF TargetAccepts, TypeOK, Totals, Idle
  <2>3. CASE n # outgoing.remaining
    <3>1. outgoing' = [record |-> outgoing.record,
                       remaining |-> outgoing.remaining - n]
      BY <1>6, <2>3 DEF TargetAccepts, IsOutgoing
    <3>2. outgoing.remaining - n \in Nat
      BY <2>0 DEF TypeOK
    <3>3. IsOutgoing(outgoing')
      BY <1>6, <3>1, <3>2 DEF TargetAccepts, IsOutgoing, Idle
    <3> QED
      BY <1>6, <2>1, <2>3, <3>1, <3>2, <3>3 DEF TargetAccepts, TypeOK, Idle
  <2> QED
    BY <2>2, <2>3
<1>7. ASSUME NEW n \in WriteResults, ChargeRefused(n)
      PROVE  Shape'
  <2>1. torn' \in Nat
    BY <1>7, AcceptedType DEF WriteResults, ChargeRefused, TypeOK
  <2> QED
    BY <1>0, <1>7, <2>1 DEF ChargeRefused, Broken, TypeOK, Idle
<1>8. ASSUME NEW n \in 0 .. outgoing.remaining, TargetRaises(n)
      PROVE  Shape'
  <2>1. torn' \in Nat
    BY <1>8, AcceptedType DEF TargetRaises
  <2> QED
    BY <1>0, <1>8, <2>1 DEF TargetRaises, Broken, TypeOK, Idle
<1>9. ASSUME NEW r \in SharedResources, NEW n \in 1 .. SharedBound,
             ForeignCharge(r, n)
      PROVE  Shape'
  <2>1. writerAccount' \in Account
    BY <1>9, WriterAssumption, ResourceNames, RecordedIsAccount
    DEF ForeignCharge, TypeOK
  <2> QED
    BY <1>9, <2>1 DEF ForeignCharge, TypeOK, Idle
<1>10. CASE UNCHANGED writerVars
  BY <1>10 DEF writerVars, TypeOK, Idle
<1> QED
  BY <1>1, <1>2, <1>3, <1>4, <1>5, <1>6, <1>7, <1>8, <1>9, <1>10
  DEF SessionNext, WriteStep

\* The writer's variables always agree about what is being sent.
LEMMA ShapeAlways == WriterSpec => []Shape
<1>1. Shape /\ [WriterNext]_writerVars => Shape'
  BY ShapeStep, DeclarationsAreCharged DEF WriterNext
<1> QED
  BY <1>1, InitShape, PTL DEF WriterSpec

\* Every variable of a session holds values of its kind, whatever the policy,
\* the chunks offered, the pieces the target accepts and its failures.
THEOREM WriterTypeCorrect == WriterSpec => []TypeOK
<1>1. Shape => TypeOK
  BY DEF Shape
<1> QED
  BY <1>1, ShapeAlways, PTL

-----------------------------------------------------------------------------
(* The ceilings, whoever else charges the accountant.                      *)

\* No step takes an account above its ceiling.
LEMMA CeilingsStep ==
  ASSUME Shape, AccountWithinPolicy,
         NEW counts \in PeakCharges, [SessionNext(counts)]_writerVars
  PROVE  AccountWithinPolicy'
<1> SUFFICES ASSUME WithinPolicy(writerPolicy, writerAccount)
             PROVE  WithinPolicy(writerPolicy', writerAccount')
  BY DEF AccountWithinPolicy
<1>0. writerAccount \in Account
  BY DEF Shape, TypeOK
<1> USE ResourceNames, SizesAreNaturals
<1>1. CASE Construct(counts) \/ ConstructRefused(counts)
  BY <1>1, ManifestCharged DEF Construct, ConstructRefused
<1>3. ASSUME NEW c \in Chunks, WriteChunk(c)
      PROVE  WithinPolicy(writerPolicy', writerAccount')
  BY <1>0, <1>3, ChargedForChunkFacts DEF WriteChunk, Admissible
<1>4. ASSUME NEW c \in Chunks, WriteChunkRefused(c)
      PROVE  WithinPolicy(writerPolicy', writerAccount')
  BY <1>0, <1>4, ChunkSizes, RecordedWithinPolicy
  DEF WriteChunkRefused, EncodedRecordable
<1>5. CASE Finish
  BY <1>5 DEF Finish
<1>6. ASSUME NEW n \in WriteResults, TargetAccepts(n)
      PROVE  WithinPolicy(writerPolicy', writerAccount')
  <2>1. n \in Nat
    BY DEF WriteResults, Shape, TypeOK
  <2> QED
    BY <1>0, <1>6, <2>1, RecordedWithinPolicy DEF TargetAccepts
<1>7. ASSUME NEW n, ChargeRefused(n) \/ TargetRaises(n)
      PROVE  WithinPolicy(writerPolicy', writerAccount')
  BY <1>7 DEF ChargeRefused, TargetRaises
<1>8. ASSUME NEW r \in SharedResources, NEW n \in 1 .. SharedBound,
             ForeignCharge(r, n)
      PROVE  WithinPolicy(writerPolicy', writerAccount')
  BY <1>0, <1>8, WriterAssumption, RecordedWithinPolicy DEF ForeignCharge
<1>9. CASE UNCHANGED writerVars
  BY <1>9 DEF writerVars
<1> QED
  BY <1>1, <1>3, <1>4, <1>5, <1>6, <1>7, <1>8, <1>9 DEF SessionNext, WriteStep

\* The accountant records nothing above its ceilings, although write_chunk()
\* charges "chunks" and the logical peak on the strength of earlier checks, and
\* other components charge the accountant between the calls.
THEOREM WriterWithinPolicy == WriterSpec => []AccountWithinPolicy
<1>1. WriterInit => AccountWithinPolicy
  BY WriterAssumption, NewAccountWithinPolicy DEF WriterInit, AccountWithinPolicy
<1>2. Shape /\ AccountWithinPolicy /\ [WriterNext]_writerVars
        => AccountWithinPolicy'
  BY CeilingsStep, DeclarationsAreCharged DEF WriterNext
<1> QED
  BY <1>1, <1>2, ShapeAlways, PTL DEF WriterSpec

-----------------------------------------------------------------------------
(* The end of a session is final.                                          *)

\* No call of an ended session changes what it left.
LEMMA EndedStaysEnded ==
  ASSUME Shape, NEW counts, [SessionNext(counts)]_writerVars,
         writerState \in {"complete", "failed", "raised"}
  PROVE  UNCHANGED <<writerState, target, torn, bytesWritten>>
<1>1. Idle
  BY DEF Shape
<1>2. /\ ~Construct(counts) /\ ~ConstructRefused(counts) /\ ~Finish
      /\ \A c : ~WriteChunk(c) /\ ~WriteChunkRefused(c)
  BY DEF Construct, ConstructRefused, Finish, WriteChunk, WriteChunkRefused,
         MayCall
<1>3. ~WriteStep
  BY <1>1 DEF WriteStep, TargetAccepts, ChargeRefused, TargetRaises
<1>4. CASE \E r \in SharedResources : \E n \in 1 .. SharedBound :
             ForeignCharge(r, n)
  BY <1>4 DEF ForeignCharge
<1>5. CASE UNCHANGED writerVars
  BY <1>5 DEF writerVars
<1> QED
  BY <1>2, <1>3, <1>4, <1>5 DEF SessionNext

\* After completion or failure no call reaches the target, for every target
\* and every caller.
THEOREM WriterEndIsFinal == WriterSpec => NothingAfterTheEnd
<1>1. Shape /\ [WriterNext]_writerVars
        => [(writerState \in {"complete", "failed", "raised"})
              => UNCHANGED <<writerState, target, torn, bytesWritten>>
           ]_writerVars
  BY EndedStaysEnded DEF WriterNext
<1> QED
  BY <1>1, ShapeAlways, PTL DEF WriterSpec, NothingAfterTheEnd

-----------------------------------------------------------------------------
(* The reservation, for a session whose container bytes are its own.       *)

PrivateBytes == "container_bytes" \notin SharedResources

\* n counted bytes move the byte account by n.
LEMMA BytesRecorded ==
  ASSUME writerAccount \in Account, NEW n \in Nat
  PROVE  /\ Recorded(writerAccount, "container_bytes", n)["container_bytes"]
              = writerAccount["container_bytes"] + n
         /\ \A r \in CoreResource \ {"container_bytes"}, m \in Nat :
              Recorded(writerAccount, r, m)["container_bytes"]
                = writerAccount["container_bytes"]
BY ResourceNames, RecordedHere, RecordedElsewhere DEF Projected

\* Less room than was allowed before is still allowed.
LEMMA HasRoomForLess ==
  ASSUME Shape, NEW m \in Nat, NEW n \in Nat, n <= m, HasRoom(m)
  PROVE  HasRoom(n)
<1>1. writerPolicy["container_bytes"] \in Nat \cup {Unbounded}
  BY ResourceNames, WriterAssumption DEF Policy, Shape, TypeOK
<1>2. bytesWritten \in Nat
  BY DEF Shape, TypeOK
<1> QED
  BY <1>1, <1>2 DEF HasRoom, Allows

\* At first there is nothing to reserve for.
LEMMA InitReserved == WriterInit => EmissionReserved
BY ResourceNames DEF WriterInit, EmissionReserved, NewAccount, Idle

\* Construct reserves for the preamble, and the preamble fits the integers.
LEMMA ConstructReserves ==
  ASSUME Shape, EmissionReserved, NEW counts \in PeakCharges, Construct(counts)
  PROVE  EmissionReserved'
<1>1. /\ writerTotals = NoTotals /\ bytesWritten = 0
      /\ outgoing' = [record |-> Preamble, remaining |-> PreambleSize]
  BY DEF Construct, EmissionReserved, Sending, RecordSize, Preamble
<1>2. outgoing'.record.kind = "preamble" /\ ~Idle'
  BY <1>1, OutgoingKinds DEF Idle
<1>3. writerAccount'["container_bytes"] = bytesWritten'
  BY ManifestCharged, ResourceNames DEF Construct, EmissionReserved
<1>4. HasRoom(Outstanding)'
  BY <1>1, <1>2, SizesAreNaturals DEF Construct, Outstanding, HasRoom
<1>5. /\ Representable(bytesWritten' + outgoing'.remaining)
      /\ TotalsFit(TotalsAfter(outgoing.record))'
  BY <1>1, <1>2, SizesAreNaturals
  DEF Construct, Representable, TotalsFit, TotalsAfter, NoTotals
<1> QED
  BY <1>2, <1>3, <1>4, <1>5 DEF Construct, EmissionReserved

\* write_chunk() reserves for the chunk and the commit behind it.
LEMMA WriteChunkReserves ==
  ASSUME Shape, EmissionReserved, NEW c \in Chunks, WriteChunk(c)
  PROVE  EmissionReserved'
<1>1. /\ outgoing' = Sending(ChunkRecord(c)) /\ ChunkRecord(c).kind = "chunk"
      /\ ChunkRecord(c).chunk = c /\ RecordSize(ChunkRecord(c)) = ChunkSize(c)
  BY DEF WriteChunk, ChunkRecord, RecordSize
<1>2. /\ outgoing'.record = ChunkRecord(c) /\ outgoing'.remaining = ChunkSize(c)
      /\ ~Idle'
  BY <1>1, OutgoingKinds DEF Sending, Idle
<1>3. writerAccount'["container_bytes"] = bytesWritten'
  BY ChargedForChunkFacts DEF WriteChunk, EmissionReserved, Shape, TypeOK
<1>4. HasRoom(Outstanding)'
  BY <1>1, <1>2, ChunkSizes, SizesAreNaturals
  DEF WriteChunk, Emittable, RoomForChunk, Outstanding, HasRoom
<1>5. /\ Representable(bytesWritten' + outgoing'.remaining)
      /\ TotalsFit(TotalsAfter(outgoing.record))'
  BY <1>1, <1>2
  DEF WriteChunk, Emittable, TotalsRepresentable, TotalsAfter, TotalsFit,
      Representable
<1> QED
  BY <1>2, <1>3, <1>4, <1>5 DEF WriteChunk, MayCall, EmissionReserved

\* finish() starts only where the commit fits.
LEMMA FinishReserves ==
  ASSUME Shape, EmissionReserved, Finish
  PROVE  EmissionReserved'
<1>1. /\ outgoing'.record.kind = "commit" /\ outgoing'.remaining = RecordHeaderSize
  BY DEF Finish, Sending, CommitRecord, RecordSize
<1>2. ~Idle'
  BY <1>1, OutgoingKinds DEF Idle
<1>3. HasRoom(Outstanding)'
  BY <1>1, SizesAreNaturals DEF Finish, CanFinish, Outstanding, HasRoom
<1> QED
  BY <1>1, <1>2, <1>3 DEF Finish, MayCall, EmissionReserved

\* Every accepted piece was reserved, and what is left stays reserved.
LEMMA TargetAcceptsReserves ==
  ASSUME Shape, EmissionReserved, NEW n \in WriteResults, TargetAccepts(n)
  PROVE  EmissionReserved'
<1>0. /\ n \in Nat /\ outgoing.remaining \in Nat /\ bytesWritten \in Nat
      /\ n <= outgoing.remaining /\ ~Idle /\ writerState = "writing"
      /\ IsOutgoing(outgoing)
  BY DEF WriteResults, Shape, TypeOK, TargetAccepts
<1>1. writerAccount'["container_bytes"] = bytesWritten'
  BY <1>0, BytesRecorded DEF TargetAccepts, EmissionReserved, Shape, TypeOK
<1>2. CASE n # outgoing.remaining
  <2>1. /\ outgoing' = [record |-> outgoing.record,
                        remaining |-> outgoing.remaining - n]
        /\ UNCHANGED <<writerTotals, writerState, writerPolicy>>
        /\ bytesWritten' = bytesWritten + n
    BY <1>0, <1>2 DEF TargetAccepts, IsOutgoing
  <2>2. ~Idle'
    BY <1>0, <2>1, BusyKinds, OutgoingKinds DEF Idle
  <2>3. HasRoom(Outstanding)'
    BY <1>0, <2>1, SizesAreNaturals DEF EmissionReserved, HasRoom, Outstanding
  <2>4. outgoing.record.kind # "commit" =>
          /\ Representable(bytesWritten' + outgoing'.remaining)
          /\ TotalsFit(TotalsAfter(outgoing.record))'
    BY <1>0, <2>1 DEF EmissionReserved, TotalsAfter
  <2> QED
    BY <1>0, <1>1, <2>1, <2>2, <2>3, <2>4 DEF EmissionReserved
<1>3. CASE n = outgoing.remaining
  <2>1. /\ outgoing' = NotSending /\ Returned(outgoing.record)
        /\ bytesWritten' = bytesWritten + outgoing.remaining
        /\ writerPolicy' = writerPolicy
    BY <1>3 DEF TargetAccepts
  <2>2. Idle' /\ writerState' \in {"writing", "complete"}
    BY <1>0, <2>1, ReturnedType DEF Idle
  <2>3. ASSUME outgoing.record.kind # "commit"
        PROVE  CanFinish'
    <3>1. /\ TotalsFit(writerTotals') /\ Representable(bytesWritten')
      BY <1>0, <2>1, <2>3 DEF EmissionReserved, Returned
    <3>2. HasRoom(RecordHeaderSize)'
      BY <1>0, <2>1, <2>3, SizesAreNaturals
      DEF EmissionReserved, HasRoom, Outstanding
    <3> QED
      BY <3>1, <3>2 DEF CanFinish, TotalsFit
  <2>4. outgoing.record.kind = "commit" => writerState' = "complete"
    BY <2>1 DEF Returned
  <2> QED
    BY <1>1, <2>2, <2>3, <2>4 DEF EmissionReserved
<1> QED
  BY <1>2, <1>3

\* The accountant never refuses bytes that the target has accepted.
LEMMA ChargeNeverRefused ==
  ASSUME Shape, EmissionReserved, NEW n \in WriteResults
  PROVE  ~ChargeRefused(n)
<1> SUFFICES ASSUME ~Idle
             PROVE  CanRecord(writerPolicy, writerAccount, "container_bytes", n)
  BY DEF ChargeRefused
<1>1. /\ n \in Nat /\ outgoing.remaining \in Nat /\ Outstanding \in Nat
      /\ n <= Outstanding
  BY SizesAreNaturals DEF WriteResults, Shape, TypeOK, Outstanding
<1>2. HasRoom(n)
  BY <1>1, HasRoomForLess DEF EmissionReserved
<1> QED
  BY <1>2, ResourceNames DEF HasRoom, CanRecord, Projected, EmissionReserved

\* Every step keeps the reservation.
LEMMA ReservedStep ==
  ASSUME PrivateBytes
  PROVE  Shape /\ EmissionReserved /\ [WriterNext]_writerVars
           => EmissionReserved'
<1> SUFFICES ASSUME Shape, EmissionReserved, [WriterNext]_writerVars
             PROVE  EmissionReserved'
  OBVIOUS
<1> USE DeclarationsAreCharged
<1>0. writerAccount \in Account
  BY DEF Shape, TypeOK
<1>1. CASE Construct(Declarations)
  BY <1>1, ConstructReserves
<1>2. CASE ConstructRefused(Declarations)
  <2>2. writerAccount'["container_bytes"] = bytesWritten'
    BY <1>2, ManifestCharged, ResourceNames
    DEF ConstructRefused, EmissionReserved
  <2>3. Idle' /\ writerState' = "raised"
    BY <1>2 DEF ConstructRefused, EmissionReserved, Idle
  <2> QED
    BY <2>2, <2>3 DEF EmissionReserved
<1>3. ASSUME NEW c \in Chunks, WriteChunk(c)
      PROVE  EmissionReserved'
  BY <1>3, WriteChunkReserves
<1>4. ASSUME NEW c \in Chunks, WriteChunkRefused(c)
      PROVE  EmissionReserved'
  <2>1. writerAccount'["container_bytes"] = bytesWritten'
    BY <1>0, <1>4, BytesRecorded, ResourceNames, ChunkSizes
    DEF WriteChunkRefused, EmissionReserved
  <2>2. Idle' /\ writerState' = "failed"
    BY <1>4 DEF WriteChunkRefused, MayCall, Idle
  <2> QED
    BY <2>1, <2>2 DEF EmissionReserved
<1>5. CASE Finish
  BY <1>5, FinishReserves
<1>6. ASSUME NEW n \in WriteResults, TargetAccepts(n)
      PROVE  EmissionReserved'
  BY <1>6, TargetAcceptsReserves
<1>7. ASSUME NEW n \in WriteResults, ChargeRefused(n)
      PROVE  EmissionReserved'
  BY <1>7, ChargeNeverRefused
<1>8. ASSUME NEW n, TargetRaises(n)
      PROVE  EmissionReserved'
  BY <1>8 DEF TargetRaises, Broken, EmissionReserved, Idle
<1>9. ASSUME NEW r \in SharedResources, NEW n \in 1 .. SharedBound,
             ForeignCharge(r, n)
      PROVE  EmissionReserved'
  <2>1. writerAccount'["container_bytes"] = bytesWritten'
    BY <1>0, <1>9, BytesRecorded, ResourceNames, WriterAssumption
    DEF ForeignCharge, EmissionReserved, PrivateBytes
  <2> QED
    BY <1>9, <2>1 DEF ForeignCharge, EmissionReserved, Idle, CanFinish, HasRoom
<1>10. CASE UNCHANGED writerVars
  BY <1>10 DEF writerVars, EmissionReserved, Idle, CanFinish, HasRoom,
               Outstanding, TotalsAfter
<1> QED
  BY <1>1, <1>2, <1>3, <1>4, <1>5, <1>6, <1>7, <1>8, <1>9, <1>10
  DEF WriterNext, SessionNext, WriteStep

\* While a record is being sent, room for its rest and for the commit stays
\* reserved: the inductive heart of the two theorems below.
THEOREM WriterReserves ==
  ASSUME PrivateBytes
  PROVE  WriterSpec => []EmissionReserved
BY InitReserved, ReservedStep, ShapeAlways, PTL DEF WriterSpec

\* Whatever chunks write_chunk() accepted, finish() is never refused: neither
\* by the ceilings, nor by the accountant, nor by a wire integer.
THEOREM FinishNeverRefused ==
  ASSUME PrivateBytes
  PROVE  WriterSpec => []FinishAlwaysPossible
<1>1. Shape /\ EmissionReserved => FinishAlwaysPossible
  BY ResourceNames
  DEF EmissionReserved, FinishAlwaysPossible, CanFinish, HasRoom, CanRecord,
      Projected
<1> QED
  BY <1>1, ShapeAlways, WriterReserves, PTL

\* No record is cut off by a policy: bytes after the last complete record are
\* the doing of a target that raised.
THEOREM PolicyNeverTearsARecord ==
  ASSUME PrivateBytes
  PROVE  WriterSpec => []NoTornRecordWithoutFault
<1>1. WriterInit => NoTornRecordWithoutFault
  BY DEF WriterInit, NoTornRecordWithoutFault
<1>2. ASSUME Shape, EmissionReserved, NoTornRecordWithoutFault,
             [WriterNext]_writerVars
      PROVE  NoTornRecordWithoutFault'
  <2> USE DEF NoTornRecordWithoutFault
  <2>1. CASE Construct(Declarations)
    <3>1. outgoing'.record.kind = "preamble"
      BY <2>1, OutgoingKinds DEF Construct, Sending
    <3> QED
      BY <3>1, OutgoingKinds DEF Idle
  <2>2. CASE ConstructRefused(Declarations)
    BY <1>2, <2>2 DEF ConstructRefused, Idle
  <2>3. ASSUME NEW c \in Chunks, WriteChunk(c)
        PROVE  NoTornRecordWithoutFault'
    <3>1. outgoing'.record.kind = "chunk"
      BY <2>3, OutgoingKinds DEF WriteChunk, Sending
    <3> QED
      BY <3>1, OutgoingKinds DEF Idle
  <2>4. ASSUME NEW c \in Chunks, WriteChunkRefused(c)
        PROVE  NoTornRecordWithoutFault'
    BY <1>2, <2>4 DEF WriteChunkRefused, Idle
  <2>5. CASE Finish
    <3>1. outgoing'.record.kind = "commit"
      BY <2>5, OutgoingKinds DEF Finish, Sending
    <3> QED
      BY <3>1, OutgoingKinds DEF Idle
  <2>6. ASSUME NEW n \in WriteResults, TargetAccepts(n)
        PROVE  NoTornRecordWithoutFault'
    <3>1. CASE n = outgoing.remaining
      BY <2>6, <3>1 DEF TargetAccepts, Accepted
    <3>2. CASE n # outgoing.remaining
      <4>1. outgoing'.record = outgoing.record /\ ~Idle
        BY <1>2, <2>6, <3>2 DEF TargetAccepts, Shape, IsOutgoing
      <4> QED
        BY <1>2, <4>1, BusyKinds, OutgoingKinds DEF Idle, Shape
    <3> QED
      BY <3>1, <3>2
  <2>7. ASSUME NEW n \in WriteResults, ChargeRefused(n)
        PROVE  NoTornRecordWithoutFault'
    BY <1>2, <2>7, ChargeNeverRefused
  <2>8. ASSUME NEW n, TargetRaises(n)
        PROVE  NoTornRecordWithoutFault'
    BY <2>8 DEF TargetRaises
  <2>9. ASSUME NEW r, NEW n, ForeignCharge(r, n)
        PROVE  NoTornRecordWithoutFault'
    BY <1>2, <2>9 DEF ForeignCharge, Idle
  <2>10. CASE UNCHANGED writerVars
    BY <1>2, <2>10 DEF writerVars, Idle
  <2> QED
    BY <1>2, <2>1, <2>2, <2>3, <2>4, <2>5, <2>6, <2>7, <2>8, <2>9, <2>10
    DEF WriterNext, SessionNext, WriteStep
<1> QED
  BY <1>1, <1>2, ShapeAlways, WriterReserves, PTL DEF WriterSpec
-----------------------------------------------------------------------------
(* What the target holds.                                                  *)

\* Records that precede a commit.
Contents == {Preamble} \cup {ChunkRecord(c) : c \in Chunks}

\* r may be sent after the complete records that the target holds.
MayFollow(r) ==
  \/ r = Preamble /\ target = <<>>
  \/ /\ ValidContent(target)
     /\ \/ \E c \in Chunks :
             /\ r = ChunkRecord(c)
             /\ c.stream \in StreamIds
             /\ c.recipe \in RecipeIds
             /\ c.sequence = nextSequences[c.stream]
        \/ r = CommitRecord(TotalsOf(target), SizeOf(target), target)

\* The counters of a session in use are those of the records on its target,
\* and a record that is being sent may follow them.
TargetInv ==
  /\ writerState \in {"new", "writing"} =>
       /\ target \in Seq(Contents)
       /\ writerTotals = TotalsOf(target)
       /\ bytesWritten = SizeOf(target) + torn
       /\ \A s \in StreamIds :
            nextSequences[s] = Cardinality(Numbered(target, s))
       /\ Idle => torn = 0
  /\ writerState = "new" => Idle /\ target = <<>>
  /\ writerState = "writing" /\ Idle => ValidContent(target)
  /\ ~Idle =>
       /\ torn + outgoing.remaining = RecordSize(outgoing.record)
       /\ MayFollow(outgoing.record)
  /\ CompletedContainerIsValid

\* What is written before the commit are records.
LEMMA ContentsAreRecords == \A r \in Contents : IsRecord(r)
<1>1. IsRecord(Preamble)
  BY DEF IsRecord
<1>2. ASSUME NEW c \in Chunks
      PROVE  IsRecord(ChunkRecord(c))
  BY WriterAssumption, RecordKinds DEF IsRecord
<1> QED
  BY <1>1, <1>2 DEF Contents

\* A record is a container's next one when all its bytes are on the target.
LEMMA RecordLands ==
  ASSUME Shape, TargetInv, ~Idle, Returned(outgoing.record),
         target' = Append(target, outgoing.record), torn' = 0,
         outgoing' = NotSending,
         bytesWritten' = bytesWritten + outgoing.remaining
  PROVE  TargetInv'
<1> DEFINE r == outgoing.record
<1>1. /\ writerState = "writing" /\ target \in Seq(Contents)
      /\ writerTotals = TotalsOf(target)
      /\ bytesWritten = SizeOf(target) + torn
      /\ \A s \in StreamIds :
           nextSequences[s] = Cardinality(Numbered(target, s))
      /\ torn + outgoing.remaining = RecordSize(r)
      /\ MayFollow(r)
      /\ torn \in Nat /\ outgoing.remaining \in Nat
      /\ nextSequences \in [StreamIds -> Nat]
  BY DEF Shape, TypeOK, TargetInv
<1>2. /\ nextSequences' = IF r.kind = "chunk"
                            THEN [nextSequences EXCEPT
                                    ![r.chunk.stream] = r.chunk.sequence + 1]
                            ELSE nextSequences
      /\ writerTotals' = TotalsAfter(r)
      /\ writerState' = IF r.kind = "commit" THEN "complete" ELSE writerState
      /\ target' = Append(target, r) /\ Idle'
  BY DEF Returned, Idle
<1> HIDE DEF r
<1>3. bytesWritten' = SizeOf(target) + RecordSize(r) /\ SizeOf(target) \in Nat
  <2>1. SizeOf(target) \in Nat
    <3>1. Preamble \in Contents
      BY DEF Contents
    <3> QED
      BY <1>1, <3>1, ContentsAreRecords, SizeOfOneMore
  <2>2. bytesWritten' = SizeOf(target) + torn + outgoing.remaining
    BY <1>1
  <2> QED
    BY <1>1, <2>1, <2>2
<1>4. CASE r = Preamble /\ target = <<>>
  <2>1. r.kind = "preamble" /\ RecordSize(r) = PreambleSize
        /\ Preamble \in Contents /\ target' = Append(<<>>, Preamble)
    BY <1>2, <1>4, RecordKinds DEF Contents
  <2>2. /\ TotalsOf(target') = NoTotals /\ SizeOf(target') = PreambleSize
        /\ \A s \in StreamIds : Cardinality(Numbered(target', s)) = 0
        /\ ValidContent(target')
    BY <2>1, ContentsAreRecords, PreambleFirst
  <2>3. /\ writerTotals' = NoTotals /\ writerState' = "writing"
        /\ \A s \in StreamIds : nextSequences'[s] = 0
        /\ SizeOf(target) = 0
    BY <1>1, <1>2, <1>4, <2>1, NothingYet DEF TotalsAfter
  <2>4. bytesWritten' = SizeOf(target') + torn'
    BY <1>3, <2>1, <2>2, <2>3, SizesAreNaturals
  <2>5. target' \in Seq(Contents)
    BY <1>1, <2>1
  <2> QED
    BY <1>2, <2>2, <2>3, <2>4, <2>5
    DEF TargetInv, CompletedContainerIsValid
<1>5. ASSUME ValidContent(target), NEW c \in Chunks, r = ChunkRecord(c),
             c.stream \in StreamIds, c.recipe \in RecipeIds,
             c.sequence = nextSequences[c.stream]
      PROVE  TargetInv'
  <2>1. /\ r.kind = "chunk" /\ r.chunk = c
        /\ r \in Contents /\ ChunkRecord(c) \in Contents
        /\ target' = Append(target, ChunkRecord(c))
    BY <1>2, <1>5, RecordKinds DEF Contents
  <2>2. /\ TotalsOf(target') = AddTotals(TotalsOf(target), c)
        /\ SizeOf(target') = SizeOf(target) + RecordSize(r)
    <3>1. TotalsOf(Append(target, r)) =
            IF r.kind = "chunk" THEN AddTotals(TotalsOf(target), r.chunk)
                                ELSE TotalsOf(target)
      BY <1>1, <2>1, ContentsAreRecords, TotalsOfOneMore
    <3>2. SizeOf(Append(target, r)) = SizeOf(target) + RecordSize(r)
      BY <1>1, <2>1, ContentsAreRecords, SizeOfOneMore
    <3> QED
      BY <1>2, <2>1, <3>1, <3>2
  <2>3. /\ writerTotals' = TotalsOf(target') /\ writerState' = "writing"
        /\ bytesWritten' = SizeOf(target') + torn'
    BY <1>1, <1>2, <1>3, <2>1, <2>2, SizesAreNaturals, ChunkSizes,
       RecordKinds, <1>5 DEF TotalsAfter
  <2>4. ASSUME NEW s \in StreamIds
        PROVE  nextSequences'[s] = Cardinality(Numbered(target', s))
    <3>1. /\ Cardinality(Numbered(target', s)) =
               Cardinality(Numbered(target, s))
                 + (IF c.stream = s THEN 1 ELSE 0)
          /\ Cardinality(Numbered(target, s)) \in Nat
      BY <1>1, <2>1, NumberedOfOneMore
    <3>2. nextSequences' = [nextSequences EXCEPT ![c.stream] = c.sequence + 1]
      BY <1>2, <2>1
    <3> QED
      BY <1>1, <1>5, <3>1, <3>2
  <2>5. ValidContent(target')
    <3>1. Len(target) >= 1
      <4>1. target # <<>>
        BY <1>5 DEF ValidContent
      <4> QED
        BY <1>1, <4>1
    <3>2. c.sequence = Cardinality(Numbered(target, c.stream))
      BY <1>1, <1>5
    <3> QED
      BY <1>1, <1>5, <2>1, <3>1, <3>2, ContentOfOneMore
  <2>6. target' \in Seq(Contents)
    BY <1>1, <2>1
  <2> QED
    BY <1>2, <2>3, <2>4, <2>5, <2>6 DEF TargetInv, CompletedContainerIsValid
<1>6. CASE /\ ValidContent(target)
           /\ r = CommitRecord(TotalsOf(target), SizeOf(target), target)
  <2>1. r.kind = "commit" /\ writerState' = "complete"
    BY <1>2, <1>6, RecordKinds
  <2>2. /\ Len(target') >= 2 /\ target'[Len(target')] = r
        /\ SubSeq(target', 1, Len(target') - 1) = target
    <3>1. target # <<>> /\ target \in Seq(Contents \cup {r})
      BY <1>1, <1>6 DEF ValidContent
    <3> QED
      BY <1>2, <3>1
  <2>3. ValidContainer(target')
    BY <1>6, <2>2 DEF ValidContainer
  <2> QED
    BY <1>2, <2>1, <2>3 DEF TargetInv, CompletedContainerIsValid
<1> QED
  BY <1>1, <1>4, <1>5, <1>6 DEF MayFollow

\* At first the target is empty.
LEMMA InitTarget == WriterInit => TargetInv
<1> SUFFICES ASSUME WriterInit PROVE TargetInv
  OBVIOUS
<1>1. /\ target = <<>> /\ writerTotals = NoTotals /\ bytesWritten = 0
      /\ torn = 0 /\ writerState = "new" /\ Idle
      /\ \A s \in StreamIds : nextSequences[s] = 0
  BY DEF WriterInit, Idle
<1>2. /\ TotalsOf(target) = NoTotals /\ SizeOf(target) = 0
      /\ \A s \in StreamIds : Cardinality(Numbered(target, s)) = 0
      /\ target \in Seq(Contents)
  BY <1>1, NothingYet
<1> QED
  BY <1>1, <1>2 DEF TargetInv, CompletedContainerIsValid

\* A call that raises leaves a session nothing is said about.
LEMMA FailureKeepsTarget ==
  ASSUME writerState' \in {"failed", "raised"}, Idle'
  PROVE  TargetInv'
BY DEF TargetInv, CompletedContainerIsValid

\* A record starts being sent behind the complete ones.
LEMMA SendingKeepsTarget ==
  ASSUME TargetInv, Idle, writerState \in {"new", "writing"},
         NEW r, MayFollow(r), r.kind # "none", outgoing' = Sending(r),
         RecordSize(r) \in Nat, writerState' = "writing",
         UNCHANGED <<nextSequences, writerTotals, bytesWritten, target, torn>>
  PROVE  TargetInv'
<1>1. outgoing'.record = r /\ outgoing'.remaining = RecordSize(r)
  BY DEF Sending
<1>2. ~Idle'
  BY <1>1, OutgoingKinds DEF Idle
<1>3. MayFollow(r)'
  BY DEF MayFollow
<1>4. torn = 0
  BY DEF TargetInv
<1> QED
  BY <1>1, <1>2, <1>3, <1>4 DEF TargetInv, CompletedContainerIsValid

\* A call that begins to send leaves the target as it is.
LEMMA CallsKeepTarget ==
  ASSUME Shape, TargetInv, NEW counts,
         Construct(counts) \/ Finish \/ \E c \in Chunks : WriteChunk(c)
  PROVE  TargetInv'
<1>1. CASE Construct(counts)
  <2>1. MayFollow(Preamble) /\ Idle
    BY <1>1 DEF Construct, TargetInv, MayFollow
  <2>2. Preamble.kind # "none" /\ RecordSize(Preamble) \in Nat
    BY RecordKinds, SizesAreNaturals
  <2> QED
    BY <1>1, <2>1, <2>2, SendingKeepsTarget DEF Construct
<1>2. CASE Finish
  <2> DEFINE r == CommitRecord(writerTotals, bytesWritten, target)
  <2>1. Idle /\ writerState = "writing"
    BY <1>2 DEF Finish, MayCall
  <2>2. /\ ValidContent(target) /\ torn = 0 /\ writerTotals = TotalsOf(target)
        /\ bytesWritten = SizeOf(target) + torn
        /\ target \in Seq(Contents)
    BY <2>1 DEF TargetInv
  <2>3. bytesWritten = SizeOf(target)
    <3>1. bytesWritten \in Nat /\ SizeOf(target) \in Nat
      <4>1. Preamble \in Contents
        BY DEF Contents
      <4> QED
        BY <2>2, <4>1, ContentsAreRecords, SizeOfOneMore
        DEF Shape, TypeOK
    <3> QED
      BY <2>2, <3>1
  <2>4. MayFollow(r) /\ r.kind # "none" /\ RecordSize(r) \in Nat
    BY <2>2, <2>3, RecordKinds, SizesAreNaturals DEF MayFollow
  <2> HIDE DEF r
  <2>5. outgoing' = Sending(r)
    BY <1>2 DEF Finish, r
  <2> QED
    BY <1>2, <2>1, <2>4, <2>5, SendingKeepsTarget DEF Finish
<1>3. ASSUME NEW c \in Chunks, WriteChunk(c)
      PROVE  TargetInv'
  <2>1. /\ Idle /\ writerState = "writing" /\ c.stream \in StreamIds
        /\ c.recipe \in RecipeIds /\ c.sequence = nextSequences[c.stream]
    BY <1>3 DEF WriteChunk, MayCall, Admissible
  <2>2. MayFollow(ChunkRecord(c))
    BY <2>1 DEF TargetInv, MayFollow
  <2>3. /\ ChunkRecord(c).kind # "none"
        /\ RecordSize(ChunkRecord(c)) \in Nat
    BY RecordKinds, ChunkSizes
  <2> QED
    BY <1>3, <2>1, <2>2, <2>3, SendingKeepsTarget DEF WriteChunk
<1> QED
  BY <1>1, <1>2, <1>3

\* Every step keeps the counters in agreement with the target.
LEMMA TargetStep ==
  ASSUME Shape, TargetInv, NEW counts, [SessionNext(counts)]_writerVars
  PROVE  TargetInv'
<1>1. CASE Construct(counts) \/ Finish \/ \E c \in Chunks : WriteChunk(c)
  BY <1>1, CallsKeepTarget
<1>2. CASE ConstructRefused(counts)
  <2>1. Idle' /\ writerState' = "raised"
    BY <1>2 DEF ConstructRefused, TargetInv, Idle
  <2> QED
    BY <2>1, FailureKeepsTarget
<1>3. ASSUME NEW c \in Chunks, WriteChunkRefused(c)
      PROVE  TargetInv'
  <2>1. Idle' /\ writerState' = "failed"
    BY <1>3 DEF WriteChunkRefused, MayCall, Idle
  <2> QED
    BY <2>1, FailureKeepsTarget
<1>4. ASSUME NEW n \in WriteResults, TargetAccepts(n)
      PROVE  TargetInv'
  <2>1. /\ n \in Nat /\ outgoing.remaining \in Nat /\ torn \in Nat
        /\ bytesWritten \in Nat /\ n <= outgoing.remaining
        /\ ~Idle /\ writerState = "writing" /\ IsOutgoing(outgoing)
        /\ bytesWritten' = bytesWritten + n
    BY <1>4 DEF WriteResults, Shape, TypeOK, TargetAccepts
  <2>2. CASE n = outgoing.remaining
    BY <1>4, <2>1, <2>2, RecordLands DEF TargetAccepts, Accepted
  <2>3. CASE n # outgoing.remaining
    <3>1. /\ outgoing' = [record |-> outgoing.record,
                          remaining |-> outgoing.remaining - n]
          /\ UNCHANGED <<nextSequences, writerTotals, writerState, target>>
          /\ torn' = torn + n
      BY <1>4, <2>1, <2>3 DEF TargetAccepts, Accepted, IsOutgoing
    <3>2. ~Idle'
      BY <2>1, <3>1, BusyKinds, OutgoingKinds DEF Idle
    <3>3. MayFollow(outgoing.record)'
      <4>1. MayFollow(outgoing.record)
        BY <2>1 DEF TargetInv
      <4> QED
        BY <3>1, <4>1 DEF MayFollow
    <3>4. torn' + outgoing'.remaining = RecordSize(outgoing'.record)
      <4>1. torn + outgoing.remaining = RecordSize(outgoing.record)
        BY <2>1 DEF TargetInv
      <4>2. torn' + outgoing'.remaining = torn + outgoing.remaining
        BY <2>1, <3>1
      <4> QED
        BY <3>1, <4>1, <4>2
    <3>5. bytesWritten' = SizeOf(target') + torn'
      <4>1. target \in Seq(Contents) /\ bytesWritten = SizeOf(target) + torn
        BY <2>1 DEF TargetInv
      <4>2. SizeOf(target) \in Nat
        <5>1. Preamble \in Contents
          BY DEF Contents
        <5> QED
          BY <4>1, <5>1, ContentsAreRecords, SizeOfOneMore
      <4> QED
        BY <2>1, <3>1, <4>1, <4>2
    <3> QED
      BY <2>1, <3>1, <3>2, <3>3, <3>4, <3>5
      DEF TargetInv, CompletedContainerIsValid
  <2> QED
    BY <2>2, <2>3
<1>5. ASSUME NEW n, ChargeRefused(n) \/ TargetRaises(n)
      PROVE  TargetInv'
  <2>1. Idle' /\ writerState' \in {"failed", "raised"}
    BY <1>5 DEF ChargeRefused, TargetRaises, Broken, Idle
  <2> QED
    BY <2>1, FailureKeepsTarget
<1>6. CASE \/ UNCHANGED writerVars
           \/ \E r \in SharedResources : \E n \in 1 .. SharedBound :
                ForeignCharge(r, n)
  <2>1. UNCHANGED <<writerState, nextSequences, writerTotals, bytesWritten,
                    outgoing, target, torn>>
    BY <1>6 DEF writerVars, ForeignCharge
  <2> QED
    BY <2>1 DEF TargetInv, CompletedContainerIsValid, Idle, MayFollow
<1> QED
  BY <1>1, <1>2, <1>3, <1>4, <1>5, <1>6 DEF SessionNext, WriteStep

\* What a completed session left on its target is a valid container, for every
\* policy, target and caller, and whoever shares the accountant.
THEOREM CompletedIsValid == WriterSpec => []CompletedContainerIsValid
<1>1. TargetInv => CompletedContainerIsValid
  BY DEF TargetInv
<1>2. Shape /\ TargetInv /\ [WriterNext]_writerVars => TargetInv'
  BY TargetStep DEF WriterNext
<1> QED
  BY <1>1, <1>2, InitTarget, ShapeAlways, PTL DEF WriterSpec

-----------------------------------------------------------------------------
(* What the target holds at any moment, and what the ceilings let through. *)

\* The records before the last one.
BodyOf(w) == SubSeq(w, 1, Len(w) - 1)

\* The target holds the beginning of a container or, from the end of the
\* session on, a whole one.
DepositInv ==
  \/ /\ target \in Seq(Contents)
     /\ target = <<>> \/ ValidContent(target)
  \/ /\ writerState \notin {"new", "writing"}
     /\ ValidContainer(target)
     /\ target = Append(BodyOf(target), target[Len(target)])
     /\ BodyOf(target) \in Seq(Contents)

\* A container that needs no more than a policy allows.
MeetsPolicy(policy, records) ==
  /\ Allows(policy, "manifest_bytes", ManifestSize)
  /\ Allows(policy, "container_bytes", SizeOf(records))
  /\ Allows(policy, "chunks", TotalsOf(records).chunks)
  /\ \A i \in ChunkPositions(records) :
       /\ Allows(policy, "encoded_chunk_bytes", records[i].chunk.encoded)
       /\ Allows(policy, "logical_chunk_bytes", records[i].chunk.logical)

\* The target with the record that is being sent to it.
InFlight == IF Idle THEN target ELSE Append(target, outgoing.record)

\* Whatever reaches the target was checked against the ceilings before.
SpentInv ==
  /\ target # <<>> => MeetsPolicy(writerPolicy, target)
  /\ InFlight # <<>> => MeetsPolicy(writerPolicy, InFlight)
  /\ writerState = "writing" =>
       TotalsOf(InFlight).chunks <= writerAccount["chunks"]

\* A record that is sent makes a valid whole with those before it.
LEMMA SentIsValid ==
  ASSUME Shape, TargetInv, ~Idle
  PROVE  LET r == outgoing.record IN
         /\ target \in Seq(Contents)
         /\ target = <<>> \/ ValidContent(target)
         /\ \/ r \in Contents /\ ValidContent(Append(target, r))
            \/ /\ r = CommitRecord(TotalsOf(target), SizeOf(target), target)
               /\ ValidContainer(Append(target, r))
               /\ BodyOf(Append(target, r)) = target
               /\ target # <<>>
<1> DEFINE r == outgoing.record
<1>1. /\ target \in Seq(Contents) /\ MayFollow(r)
      /\ \A s \in StreamIds :
           nextSequences[s] = Cardinality(Numbered(target, s))
  BY DEF Shape, TargetInv
<1> HIDE DEF r
<1>2. CASE r = Preamble /\ target = <<>>
  <2>1. Preamble \in Contents
    BY DEF Contents
  <2>2. ValidContent(Append(<<>>, Preamble))
    BY <2>1, ContentsAreRecords, PreambleFirst
  <2> QED
    BY <1>1, <1>2, <2>1, <2>2 DEF r
<1>3. ASSUME ValidContent(target), NEW c \in Chunks, r = ChunkRecord(c),
             c.stream \in StreamIds, c.recipe \in RecipeIds,
             c.sequence = nextSequences[c.stream]
      PROVE  r \in Contents /\ ValidContent(Append(target, r))
  <2>1. ChunkRecord(c) \in Contents
    BY DEF Contents
  <2>2. Len(target) >= 1
    <3>1. target # <<>>
      BY <1>3 DEF ValidContent
    <3> QED
      BY <1>1, <3>1
  <2> QED
    BY <1>1, <1>3, <2>1, <2>2, ContentOfOneMore
<1>4. CASE /\ ValidContent(target)
           /\ r = CommitRecord(TotalsOf(target), SizeOf(target), target)
  <2> DEFINE w == Append(target, r)
  <2>1. target # <<>> /\ target \in Seq(Contents \cup {r})
    BY <1>1, <1>4 DEF ValidContent
  <2>2. Len(w) >= 2 /\ w[Len(w)] = r /\ SubSeq(w, 1, Len(w) - 1) = target
    BY <2>1
  <2> HIDE DEF w
  <2>3. ValidContainer(w)
    BY <1>4, <2>2 DEF ValidContainer
  <2> QED
    BY <1>1, <1>4, <2>1, <2>2, <2>3 DEF BodyOf, w, r
<1> QED
  BY <1>1, <1>2, <1>3, <1>4 DEF MayFollow, r

\* The target only grows, by the record that was being sent; with a commit,
\* the session has ended.
LEMMA TargetGrows ==
  ASSUME Shape, NEW counts, [SessionNext(counts)]_writerVars
  PROVE  \/ target' = target
         \/ /\ ~Idle /\ writerState = "writing"
            /\ target' = Append(target, outgoing.record)
            /\ outgoing.record.kind = "commit" =>
                 writerState' \notin {"new", "writing"}
<1>1. CASE WriteStep
  <2>1. ASSUME NEW n, TargetAccepts(n)
        PROVE  \/ target' = target
               \/ /\ target' = Append(target, outgoing.record)
                  /\ outgoing.record.kind = "commit" =>
                       writerState' = "complete"
    BY <2>1 DEF TargetAccepts, Accepted, Returned
  <2>2. ASSUME NEW n, ChargeRefused(n) \/ TargetRaises(n)
        PROVE  /\ \/ target' = target
                  \/ target' = Append(target, outgoing.record)
               /\ writerState' \in {"failed", "raised"}
    BY <2>2 DEF ChargeRefused, TargetRaises, Accepted, Broken
  <2>3. ~Idle
    BY <1>1 DEF WriteStep, TargetAccepts, ChargeRefused, TargetRaises
  <2> QED
    BY <1>1, <2>1, <2>2, <2>3 DEF WriteStep, Shape
<1>2. CASE ~WriteStep
  BY <1>2 DEF SessionNext, Construct, ConstructRefused, WriteChunk,
              WriteChunkRefused, Finish, ForeignCharge, writerVars
<1> QED
  BY <1>1, <1>2

\* At first the target is empty.
LEMMA InitDeposit == WriterInit => DepositInv
<1>1. <<>> \in Seq(Contents)
  OBVIOUS
<1> QED
  BY <1>1 DEF WriterInit, DepositInv

\* The target never holds anything else than a container or its beginning.
LEMMA DepositStep ==
  ASSUME Shape, TargetInv, DepositInv,
         NEW counts, [SessionNext(counts)]_writerVars
  PROVE  DepositInv'
<1>1. CASE target' = target
  <2>1. writerState \notin {"new", "writing"} => UNCHANGED writerState
    BY EndedStaysEnded DEF Shape, TypeOK
  <2> QED
    BY <1>1, <2>1 DEF DepositInv
<1>2. CASE /\ ~Idle /\ writerState = "writing"
           /\ target' = Append(target, outgoing.record)
           /\ outgoing.record.kind = "commit" =>
                writerState' \notin {"new", "writing"}
  <2> DEFINE r == outgoing.record
  <2>1. /\ target \in Seq(Contents)
        /\ \/ r \in Contents /\ ValidContent(Append(target, r))
           \/ /\ r = CommitRecord(TotalsOf(target), SizeOf(target), target)
              /\ ValidContainer(Append(target, r))
              /\ BodyOf(Append(target, r)) = target
    BY <1>2, SentIsValid
  <2> HIDE DEF r
  <2>2. CASE r \in Contents /\ ValidContent(Append(target, r))
    <3>1. Append(target, r) \in Seq(Contents)
      BY <2>1, <2>2
    <3> QED
      BY <1>2, <2>2, <3>1 DEF DepositInv, r
  <2>3. CASE /\ r = CommitRecord(TotalsOf(target), SizeOf(target), target)
             /\ ValidContainer(Append(target, r))
             /\ BodyOf(Append(target, r)) = target
    <3>1. r.kind = "commit"
      BY <2>3, RecordKinds
    <3>2. Append(target, r)[Len(Append(target, r))] = r
      BY <2>1
    <3>3. target' = Append(target, r) /\ writerState' \notin {"new", "writing"}
      BY <1>2, <3>1 DEF r
    <3>4. BodyOf(target)' = target /\ ValidContainer(target)'
          /\ target'[Len(target')] = r
      BY <2>3, <3>2, <3>3
    <3> QED
      BY <2>1, <3>3, <3>4 DEF DepositInv
  <2> QED
    BY <2>1, <2>2, <2>3
<1> QED
  BY <1>1, <1>2, TargetGrows

\* A preamble for which there is room.
LEMMA PreambleMeetsPolicy ==
  ASSUME NEW policy \in Policy,
         Allows(policy, "manifest_bytes", ManifestSize),
         Allows(policy, "container_bytes", PreambleSize)
  PROVE  /\ MeetsPolicy(policy, Append(<<>>, Preamble))
         /\ TotalsOf(Append(<<>>, Preamble)).chunks = 0
<1> DEFINE w == Append(<<>>, Preamble)
<1>1. Preamble \in Contents
  BY DEF Contents
<1>2. TotalsOf(w) = NoTotals /\ SizeOf(w) = PreambleSize
  BY <1>1, ContentsAreRecords, PreambleFirst
<1>3. ChunkPositions(w) = {}
  <2>1. DOMAIN w = {1} /\ w[1] = Preamble
    OBVIOUS
  <2> QED
    BY <2>1, RecordKinds DEF ChunkPositions
<1>4. Allows(policy, "chunks", 0)
  <2>1. policy["chunks"] \in Nat \cup {Unbounded}
    BY DEF Policy, CoreResource, TotalResources
  <2> QED
    BY <2>1 DEF Allows
<1> HIDE DEF w
<1>5. TotalsOf(w).chunks = 0
  BY <1>2 DEF NoTotals
<1>6. MeetsPolicy(policy, w)
  BY <1>2, <1>3, <1>4, <1>5 DEF MeetsPolicy
<1> QED
  BY <1>5, <1>6 DEF w

\* One more record for which there is room.
LEMMA OneMoreMeetsPolicy ==
  ASSUME NEW policy, NEW R, \A x \in R : IsRecord(x),
         NEW w \in Seq(R), NEW r \in R,
         MeetsPolicy(policy, w),
         Allows(policy, "container_bytes", SizeOf(w) + RecordSize(r)),
         r.kind = "chunk" =>
           /\ Allows(policy, "chunks", TotalsOf(w).chunks + 1)
           /\ Allows(policy, "encoded_chunk_bytes", r.chunk.encoded)
           /\ Allows(policy, "logical_chunk_bytes", r.chunk.logical)
  PROVE  /\ MeetsPolicy(policy, Append(w, r))
         /\ TotalsOf(Append(w, r)).chunks =
              TotalsOf(w).chunks + (IF r.kind = "chunk" THEN 1 ELSE 0)
<1> DEFINE v == Append(w, r)
<1>1. SizeOf(v) = SizeOf(w) + RecordSize(r)
  BY SizeOfOneMore
<1>2. /\ TotalsOf(v) = IF r.kind = "chunk" THEN AddTotals(TotalsOf(w), r.chunk)
                                           ELSE TotalsOf(w)
      /\ TotalsOf(w).chunks \in Nat
  <2>1. TotalsOf(w).chunks = Len(ChunksOf(w))
    BY DEF TotalsOf
  <2>2. ChunksOf(w) \in Seq(ChunkSet(R))
    BY ChunksAreChunks
  <2> QED
    BY <2>1, <2>2, TotalsOfOneMore
<1>3. ChunkPositions(v) =
        ChunkPositions(w) \cup (IF r.kind = "chunk" THEN {Len(w) + 1} ELSE {})
  BY PositionsOfOneMore
<1>4. /\ \A i \in 1 .. Len(w) : v[i] = w[i]
      /\ v[Len(w) + 1] = r
      /\ ChunkPositions(w) \in SUBSET (1 .. Len(w))
  BY Positions
<1> HIDE DEF v
<1>5. TotalsOf(v).chunks =
        TotalsOf(w).chunks + (IF r.kind = "chunk" THEN 1 ELSE 0)
  BY <1>2 DEF AddTotals
<1>6. Allows(policy, "chunks", TotalsOf(v).chunks)
  BY <1>2, <1>5 DEF MeetsPolicy
<1>7. ASSUME NEW i \in ChunkPositions(v)
      PROVE  /\ Allows(policy, "encoded_chunk_bytes", v[i].chunk.encoded)
             /\ Allows(policy, "logical_chunk_bytes", v[i].chunk.logical)
  <2>1. CASE i \in ChunkPositions(w)
    <3>1. v[i] = w[i]
      BY <1>4, <2>1
    <3> QED
      BY <2>1, <3>1 DEF MeetsPolicy
  <2>2. CASE i \notin ChunkPositions(w)
    <3>1. r.kind = "chunk" /\ v[i] = r
      BY <1>3, <1>4, <2>2
    <3> QED
      BY <3>1
  <2> QED
    BY <2>1, <2>2
<1>8. MeetsPolicy(policy, v)
  BY <1>1, <1>6, <1>7 DEF MeetsPolicy
<1> QED
  BY <1>5, <1>8 DEF v

\* At first nothing is spent.
LEMMA InitSpent == WriterInit => SpentInv
BY DEF WriterInit, SpentInv, InFlight, Idle

\* A call begins to send only what the ceilings leave room for.
LEMMA CallsKeepWithin ==
  ASSUME Shape, TargetInv, DepositInv, SpentInv, NEW counts \in PeakCharges,
         Construct(counts) \/ Finish \/ \E c \in Chunks : WriteChunk(c)
  PROVE  SpentInv'
<1>1. writerPolicy \in Policy /\ writerAccount \in Account
  BY WriterAssumption DEF Shape, TypeOK
<1>2. ASSUME NEW r, r.kind # "none", outgoing' = Sending(r), UNCHANGED target
      PROVE  InFlight' = Append(target, r)
  BY <1>2, OutgoingKinds DEF InFlight, Idle, Sending
<1>3. /\ Idle /\ torn = 0 /\ target \in Seq(Contents)
      /\ bytesWritten = SizeOf(target) /\ writerTotals = TotalsOf(target)
      /\ SizeOf(target) \in Nat /\ TotalsOf(target).chunks \in Nat
  <2>1. Idle /\ writerState \in {"new", "writing"}
    BY DEF Construct, Finish, WriteChunk, MayCall, TargetInv
  <2>2. /\ target \in Seq(Contents) /\ writerTotals = TotalsOf(target)
        /\ bytesWritten = SizeOf(target) + torn /\ torn = 0
    BY <2>1 DEF TargetInv
  <2>3. SizeOf(target) \in Nat
    <3>1. Preamble \in Contents
      BY DEF Contents
    <3> QED
      BY <2>2, <3>1, ContentsAreRecords, SizeOfOneMore
  <2>4. TotalsOf(target).chunks \in Nat
    BY <2>2 DEF Shape, TypeOK
  <2> QED
    BY <2>1, <2>2, <2>3, <2>4
<1>4. CASE Construct(counts)
  <2>1. target = <<>> /\ InFlight' = Append(<<>>, Preamble) /\ target' = <<>>
    BY <1>2, <1>4, RecordKinds DEF Construct, TargetInv
  <2>2. Allows(writerPolicy, "manifest_bytes", ManifestSize)
    BY <1>4, ManifestCharged
  <2>3. Allows(writerPolicy, "container_bytes", PreambleSize)
    <3>1. SizeOf(target) = 0
      BY <2>1, NothingYet
    <3> QED
      BY <1>1, <1>3, <1>4, <3>1, SizesAreNaturals, ResourceNames, AllowsLess
      DEF Construct, HasRoom
  <2>4. writerAccount' \in Account
    BY <1>4, ManifestCharged
  <2>5. writerAccount'["chunks"] \in Nat
    BY <2>4 DEF Account, CoreResource, TotalResources
  <2>6. /\ MeetsPolicy(writerPolicy, InFlight')
        /\ TotalsOf(InFlight').chunks = 0
    BY <1>1, <2>1, <2>2, <2>3, PreambleMeetsPolicy
  <2>7. UNCHANGED writerPolicy
    BY <1>4 DEF Construct
  <2>8. TotalsOf(InFlight)'.chunks <= writerAccount'["chunks"]
    BY <2>5, <2>6
  <2> QED
    BY <2>1, <2>6, <2>7, <2>8 DEF SpentInv
<1>5. CASE Finish
  <2> DEFINE r == CommitRecord(writerTotals, bytesWritten, target)
  <2>1. /\ r.kind = "commit" /\ RecordSize(r) = RecordHeaderSize /\ IsRecord(r)
    BY RecordKinds DEF IsRecord, CommitRecord
  <2>2. /\ outgoing' = Sending(r) /\ HasRoom(RecordHeaderSize)
        /\ UNCHANGED <<target, writerPolicy, writerAccount>>
        /\ writerState = "writing"
    BY <1>5 DEF Finish, CanFinish, MayCall
  <2> HIDE DEF r
  <2>3. InFlight' = Append(target, r)
    BY <1>2, <2>1, <2>2
  <2>4. /\ MeetsPolicy(writerPolicy, target)
        /\ TotalsOf(target).chunks <= writerAccount["chunks"]
    <3>1. target # <<>>
      BY <1>3, <2>2 DEF TargetInv, ValidContent
    <3> QED
      BY <1>3, <2>2, <3>1 DEF SpentInv, InFlight
  <2>5. /\ MeetsPolicy(writerPolicy, Append(target, r))
        /\ TotalsOf(Append(target, r)).chunks = TotalsOf(target).chunks
    <3> DEFINE R == Contents \cup {r}
    <3>1. (\A x \in R : IsRecord(x)) /\ r \in R /\ target \in Seq(R)
      BY <1>3, <2>1, ContentsAreRecords
    <3>2. Allows(writerPolicy, "container_bytes",
                 SizeOf(target) + RecordSize(r))
      BY <1>3, <2>1, <2>2 DEF HasRoom
    <3>3. r.kind # "chunk"
      BY <2>1
    <3> HIDE DEF R
    <3>4. /\ MeetsPolicy(writerPolicy, Append(target, r))
          /\ TotalsOf(Append(target, r)).chunks =
               TotalsOf(target).chunks + (IF r.kind = "chunk" THEN 1 ELSE 0)
      BY <2>4, <3>1, <3>2, <3>3, OneMoreMeetsPolicy
    <3> QED
      BY <1>3, <3>3, <3>4
  <2> QED
    BY <2>2, <2>3, <2>4, <2>5 DEF SpentInv
<1>6. ASSUME NEW c \in Chunks, WriteChunk(c)
      PROVE  SpentInv'
  <2> DEFINE r == ChunkRecord(c)
  <2>1. /\ r.kind = "chunk" /\ r.chunk = c /\ RecordSize(r) = ChunkSize(c)
        /\ r \in Contents
    BY RecordKinds DEF Contents
  <2>2. /\ outgoing' = Sending(r) /\ HasRoom(RoomForChunk(c))
        /\ UNCHANGED <<target, writerPolicy>> /\ writerState = "writing"
        /\ writerAccount' = ChargedForChunk(c)
        /\ FitsChunkCapacity(c) /\ EncodedRecordable(c)
    BY <1>6 DEF WriteChunk, Emittable, MayCall, Admissible
  <2> HIDE DEF r
  <2>3. InFlight' = Append(target, r)
    BY <1>2, <2>1, <2>2
  <2>4. /\ MeetsPolicy(writerPolicy, target)
        /\ TotalsOf(target).chunks <= writerAccount["chunks"]
    <3>1. target # <<>>
      BY <1>3, <2>2 DEF TargetInv, ValidContent
    <3> QED
      BY <1>3, <2>2, <3>1 DEF SpentInv, InFlight
  <2>5. writerAccount["chunks"] \in Nat
    BY <1>1 DEF Account, CoreResource, TotalResources
  <2>6. Allows(writerPolicy, "container_bytes", SizeOf(target) + RecordSize(r))
    BY <1>1, <1>3, <2>1, <2>2, SizesAreNaturals, ChunkSizes, ResourceNames,
       AllowsLess DEF HasRoom, RoomForChunk
  <2>7. Allows(writerPolicy, "chunks", TotalsOf(target).chunks + 1)
    <3>1. "chunks" \in CoreResource
      BY DEF CoreResource, TotalResources
    <3> QED
      BY <1>1, <1>3, <2>2, <2>4, <2>5, <3>1, AllowsLess DEF FitsChunkCapacity
  <2>8. /\ Allows(writerPolicy, "encoded_chunk_bytes", c.encoded)
        /\ Allows(writerPolicy, "logical_chunk_bytes", c.logical)
    <3>1. writerAccount["encoded_chunk_bytes"] \in Nat
      BY <1>1 DEF Account, CoreResource, PeakResources
    <3> QED
      BY <1>1, <2>2, <3>1, ChunkSizes, ResourceNames, AllowsLess
      DEF FitsChunkCapacity, EncodedRecordable, CanRecord, Projected,
          TotalResources
  <2>9. /\ MeetsPolicy(writerPolicy, Append(target, r))
        /\ TotalsOf(Append(target, r)).chunks = TotalsOf(target).chunks + 1
    BY <1>3, <2>1, <2>4, <2>6, <2>7, <2>8, ContentsAreRecords,
       OneMoreMeetsPolicy
  <2>10. writerAccount'["chunks"] = writerAccount["chunks"] + 1
    BY <1>1, <2>2, ChargedForChunkFacts
  <2>11. TotalsOf(InFlight)'.chunks <= writerAccount'["chunks"]
    BY <1>3, <2>3, <2>4, <2>5, <2>9, <2>10
  <2> QED
    BY <2>2, <2>3, <2>4, <2>9, <2>11 DEF SpentInv
<1> QED
  BY <1>4, <1>5, <1>6

\* No step spends more than the ceilings let through.
LEMMA SpentStep ==
  ASSUME Shape, TargetInv, DepositInv, SpentInv,
         NEW counts \in PeakCharges, [SessionNext(counts)]_writerVars
  PROVE  SpentInv'
<1>0. writerAccount \in Account /\ "chunks" \in CoreResource
  BY DEF Shape, TypeOK, CoreResource, TotalResources
<1>1. CASE Construct(counts) \/ Finish \/ \E c \in Chunks : WriteChunk(c)
  BY <1>1, CallsKeepWithin
<1>2. ASSUME Idle', writerState' # "writing", UNCHANGED writerPolicy,
             target' = target \/ target' = InFlight
      PROVE  SpentInv'
  BY <1>2 DEF SpentInv, InFlight
<1>3. CASE ConstructRefused(counts)
  <2>1. Idle
    BY <1>3 DEF ConstructRefused, TargetInv
  <2> QED
    BY <1>2, <1>3, <2>1 DEF ConstructRefused, Idle
<1>4. ASSUME NEW c \in Chunks, WriteChunkRefused(c)
      PROVE  SpentInv'
  BY <1>2, <1>4 DEF WriteChunkRefused, MayCall, Idle
<1>5. ASSUME NEW n \in WriteResults, TargetAccepts(n)
      PROVE  SpentInv'
  <2>1. /\ n \in Nat /\ ~Idle /\ writerState = "writing"
        /\ IsOutgoing(outgoing) /\ outgoing.remaining \in Nat
    BY <1>5 DEF WriteResults, Shape, TypeOK, TargetAccepts
  <2>2. writerAccount'["chunks"] = writerAccount["chunks"]
    BY <1>0, <1>5, <2>1, ResourceNames, RecordedElsewhere DEF TargetAccepts
  <2>3. InFlight' = InFlight /\ (target' = target \/ target' = InFlight)
    <3>1. CASE n = outgoing.remaining
      BY <1>5, <2>1, <3>1 DEF TargetAccepts, Accepted, InFlight, Idle
    <3>2. CASE n # outgoing.remaining
      <4>1. /\ outgoing' = [record |-> outgoing.record,
                            remaining |-> outgoing.remaining - n]
            /\ target' = target
        BY <1>5, <2>1, <3>2 DEF TargetAccepts, Accepted, IsOutgoing
      <4>2. ~Idle'
        BY <2>1, <4>1, BusyKinds, OutgoingKinds DEF Idle
      <4> QED
        BY <2>1, <4>1, <4>2 DEF InFlight
    <3> QED
      BY <3>1, <3>2
  <2>4. UNCHANGED writerPolicy
    BY <1>5 DEF TargetAccepts
  <2> QED
    BY <2>1, <2>2, <2>3, <2>4 DEF SpentInv
<1>6. ASSUME NEW n, ChargeRefused(n) \/ TargetRaises(n)
      PROVE  SpentInv'
  <2>1. /\ Idle' /\ writerState' # "writing" /\ UNCHANGED writerPolicy
        /\ target' = target \/ target' = Append(target, outgoing.record)
        /\ ~Idle
    BY <1>6 DEF ChargeRefused, TargetRaises, Accepted, Broken, Idle
  <2> QED
    BY <1>2, <2>1 DEF InFlight
<1>7. ASSUME NEW r \in SharedResources, NEW n \in 1 .. SharedBound,
             ForeignCharge(r, n)
      PROVE  SpentInv'
  <2>1. /\ r \in CoreResource /\ n \in Nat
    BY WriterAssumption, ResourceNames
  <2>2. /\ writerAccount["chunks"] <= writerAccount'["chunks"]
        /\ writerAccount["chunks"] \in Nat /\ writerAccount'["chunks"] \in Nat
        /\ UNCHANGED <<writerPolicy, writerState, target, outgoing>>
    BY <1>0, <1>7, <2>1, RecordedNeverLower, RecordedIsAccount
    DEF ForeignCharge, Account
  <2>3. InFlight' = InFlight
    BY <2>2 DEF InFlight, Idle
  <2>4. writerState = "writing" => TotalsOf(InFlight).chunks \in Nat
    <3>1. ASSUME writerState = "writing" PROVE InFlight = target
      BY <1>7 DEF ForeignCharge, InFlight
    <3>2. writerState = "writing" => writerTotals = TotalsOf(target)
      BY DEF TargetInv
    <3> QED
      BY <3>1, <3>2 DEF Shape, TypeOK
  <2> QED
    BY <2>2, <2>3, <2>4 DEF SpentInv
<1>8. CASE UNCHANGED writerVars
  BY <1>8 DEF writerVars, SpentInv, InFlight, Idle
<1> QED
  BY <1>1, <1>3, <1>4, <1>5, <1>6, <1>7, <1>8 DEF SessionNext, WriteStep

\* A session that began to write has a manifest whose counts are allowed.
DeclaredInv ==
  InFlight # <<>> =>
    \A i \in 1 .. Len(Declarations) :
      Allows(writerPolicy, Declarations[i][1], Declarations[i][2])

LEMMA InitDeclared == WriterInit => DeclaredInv
BY DEF WriterInit, DeclaredInv, InFlight, Idle

\* Only the constructor begins to write.
LEMMA DeclaredStep ==
  ASSUME Shape, TargetInv, DeclaredInv, [WriterNext]_writerVars
  PROVE  DeclaredInv'
<1>1. UNCHANGED writerPolicy
  BY DEF WriterNext, SessionNext, Construct, ConstructRefused, WriteChunk,
         WriteChunkRefused, Finish, WriteStep, TargetAccepts, ChargeRefused,
         TargetRaises, ForeignCharge, writerVars
<1>2. CASE Construct(Declarations)
  BY <1>1, <1>2, ManifestCharged, DeclarationsAreCharged DEF DeclaredInv
<1>3. CASE InFlight # <<>>
  BY <1>1, <1>3 DEF DeclaredInv
<1>4. CASE ~Construct(Declarations) /\ InFlight = <<>>
  <2>1. Idle /\ target = <<>>
    BY <1>4 DEF InFlight
  <2>2. writerState # "writing"
    BY <2>1 DEF TargetInv, ValidContent
  <2>3. ~MayCall /\ ~WriteStep
    BY <2>1, <2>2 DEF MayCall, WriteStep, TargetAccepts, ChargeRefused,
                      TargetRaises
  <2>4. InFlight' = <<>>
    BY <1>4, <2>1, <2>3
    DEF WriterNext, SessionNext, ConstructRefused, WriteChunk,
        WriteChunkRefused, Finish, ForeignCharge, writerVars, InFlight, Idle
  <2> QED
    BY <2>4 DEF DeclaredInv
<1> QED
  BY <1>2, <1>3, <1>4
=============================================================================
