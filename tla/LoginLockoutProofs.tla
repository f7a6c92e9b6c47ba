------------------------- MODULE LoginLockoutProofs -------------------------
(***************************************************************************)
(* The bound on parallel password guessing, for any number of requests in  *)
(* flight and any limit.                                                   *)
(*                                                                         *)
(* Neither ThresholdLocks nor AttemptsBounded is inductive.  What is, is a *)
(* ledger: while no lock is written, each failure past the limit is owned  *)
(* by a request that is about to write one (or by one that died); once a   *)
(* lock is written nobody new reaches the password check, so the counter   *)
(* plus the requests still in that check can no longer grow.               *)
(***************************************************************************)
EXTENDS LoginLockout, FiniteSetTheorems, TLAPS

InPc(pc) == {w \in Workers : At(w, pc)}

Ledger ==
    IF lockedUntil = NULL
    THEN attempts <= MaxLoginAttempts - 1 + Cardinality(InPc("lock")) + lost
    ELSE attempts + Cardinality(InPc("verify")) <=
             MaxLoginAttempts - 1 + Cardinality(Workers) + lost

\* What a request is about to write is a date.
LocksAreDated == \A w \in Workers : At(w, "lock") => req[w].until # NULL

\* A lock that is still to be written answers a full count, unless that count
\* was cleared meanwhile.
Earned ==
    /\ LockIsEarned
    /\ \A w \in Workers : At(w, "lock") /\ w \notin overtaken => attempts >= MaxLoginAttempts

IInv == TypeOK /\ LocksAreDated /\ Ledger /\ Earned

-----------------------------------------------------------------------------
(* How a step of one worker moves the two counts. *)

\* The workers at a pc are finitely many.
LEMMA CountsAreNat ==
    ASSUME NEW pc
    PROVE  IsFiniteSet(InPc(pc)) /\ Cardinality(InPc(pc)) \in Nat
<1>1. InPc(pc) \subseteq Workers  BY DEF InPc
<1>2. IsFiniteSet(InPc(pc))  BY <1>1, FS_Subset, FiniteWorkers
<1> QED  BY <1>2, FS_CardinalityType

\* The two counts are of disjoint sets of workers.
LEMMA CountsAreDisjoint ==
    Cardinality(InPc("lock")) + Cardinality(InPc("verify")) <= Cardinality(Workers)
<1> DEFINE L == InPc("lock")
           V == InPc("verify")
<1>1. IsFiniteSet(L) /\ IsFiniteSet(V)  BY CountsAreNat
<1>2. L \cap V = {}  BY DEF InPc, At
<1>3. L \cup V \subseteq Workers  BY DEF InPc
<1>4. Cardinality(L \cup V) = Cardinality(L) + Cardinality(V) - Cardinality(L \cap V)
  BY <1>1, FS_Union
<1>5. Cardinality(L \cap V) = 0  BY <1>2, FS_EmptySet
<1>6. Cardinality(L \cup V) <= Cardinality(Workers)  BY <1>3, FS_Subset, FiniteWorkers
<1>7. Cardinality(L) \in Nat /\ Cardinality(V) \in Nat  BY CountsAreNat
<1> QED  BY <1>4, <1>5, <1>6, <1>7

\* A worker that stays out of a pc, or stays in it, changes nothing there.
LEMMA CountUnchanged ==
    ASSUME NEW pc, NEW w \in Workers,
           \A v \in Workers : v # w => req'[v] = req[v],
           At(w, pc)' <=> At(w, pc)
    PROVE  InPc(pc)' = InPc(pc)
BY DEF InPc, At

\* A worker that leaves a pc.
LEMMA CountLeaves ==
    ASSUME NEW pc, NEW w \in Workers,
           \A v \in Workers : v # w => req'[v] = req[v],
           At(w, pc), ~At(w, pc)'
    PROVE  Cardinality(InPc(pc)') = Cardinality(InPc(pc)) - 1
<1>1. InPc(pc)' = InPc(pc) \ {w}  BY DEF InPc, At
<1>2. w \in InPc(pc)  BY DEF InPc
<1>3. IsFiniteSet(InPc(pc))  BY CountsAreNat
<1> QED  BY <1>1, <1>2, <1>3, FS_RemoveElement

\* A worker that enters a pc.
LEMMA CountEnters ==
    ASSUME NEW pc, NEW w \in Workers,
           \A v \in Workers : v # w => req'[v] = req[v],
           ~At(w, pc), At(w, pc)'
    PROVE  Cardinality(InPc(pc)') = Cardinality(InPc(pc)) + 1
<1>1. InPc(pc)' = InPc(pc) \cup {w}  BY DEF InPc, At
<1>2. w \notin InPc(pc)  BY DEF InPc
<1>3. IsFiniteSet(InPc(pc))  BY CountsAreNat
<1> QED  BY <1>1, <1>2, <1>3, FS_AddElement

-----------------------------------------------------------------------------
(* The invariant. *)

LEMMA InitIInv == Init => IInv
<1> SUFFICES ASSUME Init PROVE IInv
  OBVIOUS
<1>1. TypeOK  BY DEF Init, TypeOK, NoRequest, Request, PCs, NULL
<1>2. Cardinality(InPc("lock")) \in Nat  BY CountsAreNat
<1>3. Ledger  BY <1>2, LimitsArePositive DEF Init, Ledger, NULL
<1>4. LocksAreDated  BY DEF Init, LocksAreDated, At, NoRequest
<1>5. Earned  BY DEF Init, Earned, LockIsEarned, At, NoRequest
<1> QED  BY <1>1, <1>3, <1>4, <1>5 DEF IInv

LEMMA TypeStep == TypeOK /\ [Next]_vars => TypeOK'
<1> SUFFICES ASSUME TypeOK, [Next]_vars PROVE TypeOK'
  OBVIOUS
<1> USE LimitsArePositive
        DEF TypeOK, Request, PCs, NoRequest, NULL, At, Goto, Reply, columns, history, ClearColumns
<1>1. ASSUME NEW w \in Workers, ReceiveLogin(w) PROVE TypeOK'
  <2>1. PICK good \in BOOLEAN :
            req' = [req EXCEPT ![w] = [NoRequest EXCEPT !.pc = "get_user", !.good = good]]
    BY <1>1, Zenon DEF ReceiveLogin
  <2>2. [NoRequest EXCEPT !.pc = "get_user", !.good = good] \in Request  OBVIOUS
  <2>3. req' \in [Workers -> Request]  BY <2>1, <2>2
  <2> QED  BY <1>1, <2>3 DEF ReceiveLogin
<1>2. ASSUME NEW w \in Workers, ReceiveOther(w) PROVE TypeOK'
  BY <1>2 DEF ReceiveOther
<1>3. ASSUME NEW w \in Workers, GetUser(w) PROVE TypeOK'
  <2>1. Reply(w) \/ Goto(w, "reset") \/ Goto(w, "verify")  BY <1>3 DEF GetUser
  <2>2. req' \in [Workers -> Request]
    <3>1. CASE Reply(w)  BY <3>1
    <3>2. CASE Goto(w, "reset")  BY <3>2
    <3>3. CASE Goto(w, "verify")  BY <3>3
    <3> QED  BY <2>1, <3>1, <3>2, <3>3
  <2> QED  BY <1>3, <2>2 DEF GetUser
<1>4. ASSUME NEW w \in Workers, Reset(w) PROVE TypeOK'
  BY <1>4 DEF Reset
<1>5. ASSUME NEW w \in Workers, Accept(w) PROVE TypeOK'
  <2>1. Reply(w) \/ Goto(w, "update_last_login")  BY <1>5 DEF Accept
  <2>2. req' \in [Workers -> Request]
    <3>1. CASE Reply(w)  BY <3>1
    <3>2. CASE Goto(w, "update_last_login")  BY <3>2
    <3> QED  BY <2>1, <3>1, <3>2
  <2> QED  BY <1>5, <2>2 DEF Accept
<1>6. ASSUME NEW w \in Workers, Increment(w) PROVE TypeOK'
  <2>1. \/ Reply(w)
        \/ req' = [req EXCEPT ![w].pc = "lock", ![w].until = now + LockoutDuration]
    BY <1>6 DEF Increment
  <2>2. now + LockoutDuration \in Nat  OBVIOUS
  <2>3. req' \in [Workers -> Request]
    <3>1. CASE Reply(w)  BY <3>1
    <3>2. CASE req' = [req EXCEPT ![w].pc = "lock", ![w].until = now + LockoutDuration]
      BY <2>2, <3>2
    <3> QED  BY <2>1, <3>1, <3>2
  <2> QED  BY <1>6, <2>3 DEF Increment
<1>7. ASSUME NEW w \in Workers, LockUser(w) PROVE TypeOK'
  BY <1>7 DEF LockUser
<1>8. ASSUME NEW w \in Workers, UpdateLastLogin(w) PROVE TypeOK'
  BY <1>8 DEF UpdateLastLogin
<1>9. ASSUME NEW w \in Workers, Crash(w) PROVE TypeOK'
  BY <1>9 DEF Crash
<1>10. ASSUME Tick PROVE TypeOK'
  BY <1>10 DEF Tick
<1>11. CASE UNCHANGED vars
  BY <1>11 DEF vars
<1>12. ASSUME NEW w \in Workers, Unknown(w) PROVE TypeOK'
  BY <1>12 DEF Unknown
<1> QED
  BY <1>1, <1>2, <1>3, <1>4, <1>5, <1>6, <1>7, <1>8, <1>9, <1>10, <1>11, <1>12 DEF Next, Step

\* A request is about to write a lock because it was, or because it has just
\* counted a wrong password at the limit.
LEMMA NewLock ==
    ASSUME TypeOK, [Next]_vars, NEW v \in Workers, At(v, "lock")'
    PROVE  req'[v] = req[v] \/ req'[v].until = now + LockoutDuration
<1>1. req \in [Workers -> Request]  BY DEF TypeOK
<1>2. ASSUME NEW w \in Workers, Increment(w)
      PROVE  req'[v] = req[v] \/ req'[v].until = now + LockoutDuration
  BY <1>1, <1>2 DEF Increment, Reply, NoRequest, At, Request
<1>3. ASSUME NEW w \in Workers, ReceiveLogin(w) \/ ReceiveOther(w) \/ GetUser(w) \/ Unknown(w)
                                \/ Reset(w) \/ Accept(w) \/ LockUser(w) \/ UpdateLastLogin(w) \/ Crash(w)
      PROVE  req'[v] = req[v]
  <2>1. req'[w].pc # "lock"
    <3>1. \/ Reply(w) \/ Goto(w, "reset") \/ Goto(w, "verify") \/ Goto(w, "update_last_login")
          \/ ReceiveLogin(w)
      BY <1>3 DEF ReceiveOther, GetUser, Unknown, Reset, Accept, LockUser, UpdateLastLogin, Crash
    <3>2. CASE Reply(w)  BY <1>1, <3>2 DEF Reply, NoRequest
    <3>3. CASE Goto(w, "reset")  BY <1>1, <3>3 DEF Goto, Request
    <3>4. CASE Goto(w, "verify")  BY <1>1, <3>4 DEF Goto, Request
    <3>5. CASE Goto(w, "update_last_login")  BY <1>1, <3>5 DEF Goto, Request
    <3>6. CASE ReceiveLogin(w)  BY <1>1, <3>6 DEF ReceiveLogin, NoRequest
    <3> QED  BY <3>1, <3>2, <3>3, <3>4, <3>5, <3>6
  <2>2. v # w  BY <2>1 DEF At
  <2> QED
    BY <1>1, <1>3, <2>2 DEF ReceiveLogin, ReceiveOther, GetUser, Unknown, Reset, Accept,
                            LockUser, UpdateLastLogin, Crash, Goto, Reply
<1>4. ASSUME Tick \/ UNCHANGED vars PROVE req'[v] = req[v]
  BY <1>4 DEF Tick, vars
<1> QED  BY <1>2, <1>3, <1>4 DEF Next, Step

LEMMA DatedStep == TypeOK /\ LocksAreDated /\ [Next]_vars => LocksAreDated'
<1> SUFFICES ASSUME TypeOK, LocksAreDated, [Next]_vars, NEW v \in Workers, At(v, "lock")'
             PROVE  req'[v].until # NULL
  BY DEF LocksAreDated, At
<1>1. CASE req'[v] = req[v]
  BY <1>1 DEF LocksAreDated, At
<1>2. CASE req'[v].until = now + LockoutDuration
  BY <1>2, LimitsArePositive DEF TypeOK, NULL
<1> QED  BY <1>1, <1>2, NewLock

LEMMA LedgerStep == IInv /\ [Next]_vars => Ledger'
<1> SUFFICES ASSUME IInv, [Next]_vars PROVE Ledger'
  OBVIOUS
<1> DEFINE L == Cardinality(InPc("lock"))
           V == Cardinality(InPc("verify"))
           N == Cardinality(Workers)
<1>a. TypeOK /\ TypeOK' /\ Ledger  BY TypeStep DEF IInv
<1> HIDE DEF L, V, N
<1>b. /\ L \in Nat /\ V \in Nat /\ N \in Nat
      /\ L' \in Nat /\ V' \in Nat
  <2>1. L \in Nat /\ V \in Nat  BY CountsAreNat DEF L, V
  <2>2. L' \in Nat /\ V' \in Nat
    <3>1. InPc("lock")' \subseteq Workers /\ InPc("verify")' \subseteq Workers  BY DEF InPc
    <3> QED  BY <3>1, FS_Subset, FS_CardinalityType, FiniteWorkers DEF L, V
  <2>3. N \in Nat  BY FiniteWorkers, FS_CardinalityType DEF N
  <2> QED  BY <2>1, <2>2, <2>3
<1>c. L + V <= N  BY CountsAreDisjoint DEF L, V, N
<1>d. /\ lockedUntil = NULL => attempts <= MaxLoginAttempts - 1 + L + lost
      /\ lockedUntil # NULL => attempts + V <= MaxLoginAttempts - 1 + N + lost
  BY <1>a DEF Ledger, L, V, N
<1>e. /\ attempts \in Nat /\ attempts' \in Nat /\ lost \in Nat /\ lost' \in Nat
      /\ MaxLoginAttempts \in Nat \ {0}
  BY <1>a, LimitsArePositive DEF TypeOK
<1>f. SUFFICES /\ lockedUntil' = NULL => attempts' <= MaxLoginAttempts - 1 + L' + lost'
               /\ lockedUntil' # NULL => attempts' + V' <= MaxLoginAttempts - 1 + N + lost'
  BY DEF Ledger, NULL, L, V, N
<1>g. req \in [Workers -> Request]  BY <1>a DEF TypeOK
<1> USE DEF columns, history, ClearColumns
\* Both counts stay.
<1>1. ASSUME NEW w \in Workers, ReceiveLogin(w) \/ ReceiveOther(w)
      PROVE  L' = L /\ V' = V /\ UNCHANGED <<attempts, lockedUntil, lost>>
  <2>1. /\ \A v \in Workers : v # w => req'[v] = req[v]
        /\ At(w, "idle") /\ (At(w, "get_user")' \/ At(w, "update_last_login")')
    <3>1. CASE ReceiveLogin(w)
      BY <3>1, <1>g DEF ReceiveLogin, At, NoRequest, Request
    <3>2. CASE ReceiveOther(w)
      BY <3>2, <1>g DEF ReceiveOther, At, Goto, Request
    <3> QED  BY <1>1, <3>1, <3>2
  <2> QED  BY <1>1, <2>1, CountUnchanged DEF L, V, At, ReceiveLogin, ReceiveOther
<1>2. ASSUME NEW w \in Workers, GetUser(w) \/ Unknown(w)
      PROVE  /\ L' = L
             /\ V' = V \/ lockedUntil = NULL
             /\ UNCHANGED <<attempts, lockedUntil, lost>>
  <2>1. /\ \A v \in Workers : v # w => req'[v] = req[v]
        /\ At(w, "get_user")
        /\ At(w, "idle")' \/ At(w, "reset")' \/ (At(w, "verify")' /\ lockedUntil = NULL)
    <3>1. CASE GetUser(w)
      BY <3>1, <1>g DEF GetUser, At, Goto, Reply, NoRequest, Request
    <3>2. CASE Unknown(w)
      BY <3>2, <1>g DEF Unknown, At, Reply, NoRequest, Request
    <3> QED  BY <1>2, <3>1, <3>2
  <2> QED  BY <1>2, <2>1, CountUnchanged DEF L, V, At, GetUser, Unknown
<1>3. ASSUME NEW w \in Workers, Accept(w)
      PROVE  L' = L /\ V' = V - 1 /\ UNCHANGED <<attempts, lockedUntil, lost>>
  <2>1. /\ \A v \in Workers : v # w => req'[v] = req[v]
        /\ At(w, "verify")
        /\ At(w, "idle")' \/ At(w, "update_last_login")'
    BY <1>3, <1>g DEF Accept, At, Goto, Reply, NoRequest, Request
  <2>2. L' = L  BY <2>1, CountUnchanged DEF L, At
  <2>3. V' = V - 1  BY <2>1, CountLeaves DEF V, At
  <2> QED  BY <1>3, <2>2, <2>3 DEF Accept
\* The counter is zeroed together with the lock.
<1>4. ASSUME NEW w \in Workers, Reset(w) \/ UpdateLastLogin(w)
      PROVE  attempts' = 0 /\ lockedUntil' = NULL /\ lost' = lost
  BY <1>4 DEF Reset, UpdateLastLogin
\* A wrong password leaves "verify", and enters "lock" if it is at the limit.
<1>5. ASSUME NEW w \in Workers, Increment(w)
      PROVE  /\ attempts' = attempts + 1 /\ lockedUntil' = lockedUntil /\ lost' = lost
             /\ V' = V - 1
             /\ attempts' < MaxLoginAttempts \/ L' = L + 1
  <2>1. /\ \A v \in Workers : v # w => req'[v] = req[v]
        /\ At(w, "verify")
        /\ IF attempts' >= MaxLoginAttempts THEN At(w, "lock")' ELSE At(w, "idle")'
    BY <1>5, <1>g DEF Increment, At, Goto, Reply, NoRequest, Request
  <2>2. V' = V - 1
    <3>1. ~At(w, "verify")'  BY <2>1 DEF At
    <3> QED  BY <2>1, <3>1, CountLeaves DEF V
  <2>3. ASSUME attempts' >= MaxLoginAttempts PROVE L' = L + 1
    <3>1. ~At(w, "lock") /\ At(w, "lock")'  BY <2>1, <2>3 DEF At
    <3> QED  BY <2>1, <3>1, CountEnters DEF L
  <2> QED  BY <1>5, <1>e, <2>2, <2>3 DEF Increment
\* The lock is written: the ledger changes sides.
<1>6. ASSUME NEW w \in Workers, LockUser(w)
      PROVE  /\ attempts' = attempts /\ lost' = lost /\ L >= 1 /\ V' = V
  <2>1. /\ \A v \in Workers : v # w => req'[v] = req[v]
        /\ At(w, "lock") /\ At(w, "idle")'
    BY <1>6, <1>g DEF LockUser, At, Reply, NoRequest, Request
  <2>2. V' = V  BY <2>1, CountUnchanged DEF V, At
  <2>3. L' = L - 1
    <3>1. ~At(w, "lock")'  BY <2>1 DEF At
    <3> QED  BY <2>1, <3>1, CountLeaves DEF L
  <2> QED  BY <1>6, <1>b, <2>2, <2>3 DEF LockUser
<1>7. ASSUME NEW w \in Workers, Crash(w)
      PROVE  /\ attempts' = attempts /\ lockedUntil' = lockedUntil
             /\ V' = V \/ V' = V - 1
             /\ (L' = L /\ lost' = lost) \/ (L' = L - 1 /\ lost' = lost + 1)
  <2>1. /\ \A v \in Workers : v # w => req'[v] = req[v]
        /\ At(w, "idle")'
    BY <1>7, <1>g DEF Crash, At, Reply, NoRequest, Request
  <2>2. V' = V \/ V' = V - 1
    <3>1. ~At(w, "verify")'  BY <2>1 DEF At
    <3> QED  BY <2>1, <3>1, CountLeaves, CountUnchanged DEF V
  <2>3. ~At(w, "lock")'  BY <2>1 DEF At
  <2>4. CASE At(w, "lock")
    <3>1. L' = L - 1  BY <2>1, <2>3, <2>4, CountLeaves DEF L
    <3> QED  BY <1>7, <2>2, <2>4, <3>1 DEF Crash
  <2>5. CASE ~At(w, "lock")
    <3>1. L' = L  BY <2>1, <2>3, <2>5, CountUnchanged DEF L
    <3> QED  BY <1>7, <2>2, <2>5, <3>1 DEF Crash
  <2> QED  BY <2>4, <2>5
<1>8. ASSUME Tick \/ UNCHANGED vars
      PROVE  L' = L /\ V' = V /\ UNCHANGED <<attempts, lockedUntil, lost>>
  BY <1>8 DEF Tick, vars, L, V, InPc, At
<1>9. CASE \E w \in Workers : ReceiveLogin(w) \/ ReceiveOther(w)
  BY <1>1, <1>9, <1>d
<1>10. CASE \E w \in Workers : GetUser(w) \/ Unknown(w)
  BY <1>2, <1>10, <1>d
<1>11. CASE \E w \in Workers : Accept(w)
  <2>1. L' = L /\ V' = V - 1 /\ UNCHANGED <<attempts, lockedUntil, lost>>
    BY <1>3, <1>11
  <2> QED  BY <2>1, <1>b, <1>d, <1>e
<1>12. CASE \E w \in Workers : Reset(w) \/ UpdateLastLogin(w)
  <2>1. attempts' = 0 /\ lockedUntil' = NULL /\ lost' = lost
    BY <1>4, <1>12
  <2>2. \A l, k, m \in Nat : m # 0 => 0 <= m - 1 + l + k
    OBVIOUS
  <2> QED  BY <2>1, <2>2, <1>b, <1>e
<1>13. CASE \E w \in Workers : Increment(w)
  <2>1. /\ attempts' = attempts + 1 /\ lockedUntil' = lockedUntil /\ lost' = lost
        /\ V' = V - 1
        /\ attempts' < MaxLoginAttempts \/ L' = L + 1
    BY <1>5, <1>13
  <2>2. CASE L' = L + 1
    BY <2>1, <2>2, <1>b, <1>d, <1>e
  <2>3. CASE attempts' < MaxLoginAttempts
    <3>1. \A a, l, k, m \in Nat : a < m => a <= m - 1 + l + k
      OBVIOUS
    <3>2. attempts' <= MaxLoginAttempts - 1 + L' + lost'
      BY <2>3, <3>1, <1>b, <1>e
    <3>3. lockedUntil' # NULL => attempts' + V' <= MaxLoginAttempts - 1 + N + lost'
      BY <2>1, <1>b, <1>d, <1>e
    <3> QED  BY <3>2, <3>3
  <2> QED  BY <2>1, <2>2, <2>3
<1>14. CASE \E w \in Workers : LockUser(w)
  <2>1. PICK w \in Workers : LockUser(w)  BY <1>14
  <2>2. lockedUntil' # NULL => attempts' + V' <= MaxLoginAttempts - 1 + N + lost'
    <3>1. attempts' = attempts /\ lost' = lost /\ L >= 1 /\ V' = V  BY <1>6, <2>1
    <3> QED  BY <3>1, <1>b, <1>c, <1>d, <1>e
  <2>3. lockedUntil' = NULL => attempts' <= MaxLoginAttempts - 1 + L' + lost'
    <3>1. lockedUntil' # NULL  BY <2>1 DEF LockUser, IInv, LocksAreDated
    <3> QED  BY <3>1
  <2> QED  BY <2>2, <2>3
<1>15. CASE \E w \in Workers : Crash(w)
  <2>1. /\ attempts' = attempts /\ lockedUntil' = lockedUntil
        /\ V' = V \/ V' = V - 1
        /\ (L' = L /\ lost' = lost) \/ (L' = L - 1 /\ lost' = lost + 1)
    BY <1>7, <1>15
  <2>2. CASE V' = V /\ L' = L /\ lost' = lost
    BY <2>1, <2>2, <1>d
  <2>3. CASE V' = V - 1 /\ L' = L /\ lost' = lost
    BY <2>1, <2>3, <1>b, <1>d, <1>e
  <2>4. CASE V' = V /\ L' = L - 1 /\ lost' = lost + 1
    BY <2>1, <2>4, <1>b, <1>d, <1>e
  <2>5. CASE V' = V - 1 /\ L' = L - 1 /\ lost' = lost + 1
    BY <2>1, <2>5, <1>b, <1>d, <1>e
  <2> QED  BY <2>1, <2>2, <2>3, <2>4, <2>5
<1>16. CASE Tick \/ UNCHANGED vars
  BY <1>8, <1>16, <1>d
<1> QED
  BY <1>9, <1>10, <1>11, <1>12, <1>13, <1>14, <1>15, <1>16 DEF Next, Step

\* Nothing but a clear lowers the count, and a clear overtakes every lock
\* that is still to be written.
LEMMA EarnedStep == TypeOK /\ Earned /\ [Next]_vars => Earned'
<1> SUFFICES ASSUME TypeOK, Earned, [Next]_vars PROVE Earned'
  OBVIOUS
<1> USE DEF columns, history
<1>1. /\ req \in [Workers -> Request] /\ attempts \in Nat
      /\ MaxLoginAttempts \in Nat
  BY LimitsArePositive DEF TypeOK
<1>2. ASSUME NEW w \in Workers,
             ReceiveLogin(w) \/ ReceiveOther(w) \/ GetUser(w) \/ Unknown(w) \/ Accept(w) \/ Crash(w)
      PROVE  Earned'
  <2>1. UNCHANGED <<attempts, lockedUntil, lateLock>> /\ overtaken' \in {overtaken, overtaken \ {w}}
    BY <1>2 DEF ReceiveLogin, ReceiveOther, GetUser, Unknown, Accept, Crash
  <2>2. \A v \in Workers : v # w => req'[v] = req[v]
    BY <1>1, <1>2 DEF ReceiveLogin, ReceiveOther, GetUser, Unknown, Accept, Crash, Goto, Reply
  <2>3. ~At(w, "lock")'
    <3>1. \/ Reply(w) \/ Goto(w, "reset") \/ Goto(w, "verify") \/ Goto(w, "update_last_login")
          \/ ReceiveLogin(w)
      BY <1>2 DEF ReceiveOther, GetUser, Unknown, Accept, Crash
    <3>2. CASE Reply(w)  BY <1>1, <3>2 DEF Reply, NoRequest, At
    <3>3. CASE Goto(w, "reset")  BY <1>1, <3>3 DEF Goto, Request, At
    <3>4. CASE Goto(w, "verify")  BY <1>1, <3>4 DEF Goto, Request, At
    <3>5. CASE Goto(w, "update_last_login")  BY <1>1, <3>5 DEF Goto, Request, At
    <3>6. CASE ReceiveLogin(w)  BY <1>1, <3>6 DEF ReceiveLogin, NoRequest, At
    <3> QED  BY <3>1, <3>2, <3>3, <3>4, <3>5, <3>6
  <2> QED  BY <2>1, <2>2, <2>3 DEF Earned, LockIsEarned, At
<1>3. ASSUME NEW w \in Workers, Reset(w) \/ UpdateLastLogin(w) PROVE Earned'
  <2>1. lockedUntil' = NULL /\ overtaken' = {v \in Workers : At(v, "lock")}
    BY <1>3 DEF Reset, UpdateLastLogin, ClearColumns
  <2>2. \A v \in Workers : At(v, "lock")' => At(v, "lock")
    BY <1>1, <1>3 DEF Reset, UpdateLastLogin, Goto, Reply, NoRequest, At, Request
  <2> QED  BY <2>1, <2>2 DEF Earned, LockIsEarned
<1>4. ASSUME NEW w \in Workers, Increment(w) PROVE Earned'
  <2>1. attempts' = attempts + 1 /\ UNCHANGED <<lockedUntil, lateLock, overtaken>>
    BY <1>4 DEF Increment
  <2>2. At(w, "lock")' => attempts' >= MaxLoginAttempts
    BY <1>1, <1>4 DEF Increment, Reply, NoRequest, At
  <2>3. \A v \in Workers : v # w => req'[v] = req[v]
    BY <1>1, <1>4 DEF Increment, Reply
  <2> QED  BY <1>1, <2>1, <2>2, <2>3 DEF Earned, LockIsEarned, At
<1>5. ASSUME NEW w \in Workers, LockUser(w) PROVE Earned'
  <2>1. /\ At(w, "lock") /\ UNCHANGED attempts
        /\ lateLock' = (w \in overtaken) /\ overtaken' = overtaken \ {w}
    BY <1>5 DEF LockUser
  <2>2. \A v \in Workers : At(v, "lock")' => v # w /\ At(v, "lock")
    BY <1>1, <1>5 DEF LockUser, Reply, NoRequest, At
  <2>3. w \notin overtaken => attempts >= MaxLoginAttempts
    BY <2>1 DEF Earned
  <2>4. LockIsEarned'
    <3>1. CASE w \in overtaken  BY <2>1, <3>1 DEF LockIsEarned
    <3>2. CASE w \notin overtaken  BY <2>1, <2>3, <3>2 DEF LockIsEarned
    <3> QED  BY <3>1, <3>2
  <2> QED  BY <2>1, <2>2, <2>4 DEF Earned
<1>6. CASE Tick \/ UNCHANGED vars
  BY <1>6 DEF Tick, vars, Earned, LockIsEarned, At
<1> QED  BY <1>2, <1>3, <1>4, <1>5, <1>6 DEF Next, Step

\* The ledger holds in every state.
LEMMA LedgerHolds == Spec => []IInv
<1>1. Init => IInv  BY InitIInv
<1>2. IInv /\ [Next]_vars => IInv'  BY TypeStep, DatedStep, LedgerStep, EarnedStep DEF IInv
<1> QED  BY <1>1, <1>2, PTL DEF Spec

-----------------------------------------------------------------------------
(* What the ledger says. *)

\* The columns, the clock and every request keep their types.
THEOREM LockoutTypeCorrect == Spec => []TypeOK
<1>1. IInv => TypeOK  BY DEF IInv
<1> QED  BY <1>1, LedgerHolds, PTL

\* login locks an account at MAX_LOGIN_ATTEMPTS, is about to, or died first.
THEOREM ThresholdLocksHolds == Spec => []ThresholdLocks
<1>1. IInv => ThresholdLocks
  <2> SUFFICES ASSUME IInv, attempts >= MaxLoginAttempts, lockedUntil = NULL, ~(lost > 0)
               PROVE  \E w \in Workers : At(w, "lock")
    BY DEF ThresholdLocks
  <2>1. attempts \in Nat /\ lost \in Nat /\ MaxLoginAttempts \in Nat
    BY LimitsArePositive DEF IInv, TypeOK
  <2>2. Cardinality(InPc("lock")) \in Nat  BY CountsAreNat
  <2>3. attempts <= MaxLoginAttempts - 1 + Cardinality(InPc("lock")) + lost
    BY DEF IInv, Ledger
  <2>4. Cardinality(InPc("lock")) # 0  BY <2>1, <2>2, <2>3
  <2>5. InPc("lock") # {}  BY <2>4, FS_EmptySet
  <2> QED  BY <2>5 DEF InPc
<1> QED  BY <1>1, LedgerHolds, PTL

\* increment_failed_login_attempts never counts more than one password past
\* the limit for each request in flight and each lock that was lost.
THEOREM AttemptsBoundedHolds == Spec => []AttemptsBounded
<1>1. IInv => AttemptsBounded
  <2> SUFFICES ASSUME IInv PROVE AttemptsBounded
    OBVIOUS
  <2>1. attempts \in Nat /\ lost \in Nat /\ MaxLoginAttempts \in Nat
    BY LimitsArePositive DEF IInv, TypeOK
  <2>2. /\ Cardinality(InPc("lock")) \in Nat
        /\ Cardinality(InPc("verify")) \in Nat
        /\ Cardinality(Workers) \in Nat
    BY CountsAreNat, FS_CardinalityType, FiniteWorkers
  <2>3. Cardinality(InPc("lock")) + Cardinality(InPc("verify")) <= Cardinality(Workers)
    BY CountsAreDisjoint
  <2> QED  BY <2>1, <2>2, <2>3 DEF IInv, Ledger, AttemptsBounded
<1> QED  BY <1>1, LedgerHolds, PTL

\* lock_user only ever answers a full count, but for the one that a success
\* overtook.
THEOREM LockIsEarnedHolds == Spec => []LockIsEarned
<1>1. IInv => LockIsEarned  BY DEF IInv, Earned
<1> QED  BY <1>1, LedgerHolds, PTL
-----------------------------------------------------------------------------
(* What a lock is worth.  LockHolds is broken by requests that were past   *)
(* the lock's test when it was written (run lockout_holds) and by sign-ins *)
(* that do not test it; by nothing else.                                   *)

\* A request that will clear the columns without looking at them again.
PastTheTest(w) ==
    \/ At(w, "reset") \/ At(w, "update_last_login")
    \/ At(w, "verify") /\ req[w].good

\* A lock is written when nobody is past its test, and while it lasts nobody
\* signs in by refresh or MFA, which do not test it.
LocksUnopposed ==
    \A w \in Workers :
        /\ LockUser(w) => \A v \in Workers : ~PastTheTest(v)
        /\ ReceiveOther(w) => ~Locked

LockInv == Locked => \A w \in Workers : ~PastTheTest(w)

\* A step that writes no lock puts nobody past the test of a standing one.
LEMMA LockInvStep ==
    TypeOK /\ LockInv /\ LocksUnopposed /\ [Next]_vars => LockInv'
<1> SUFFICES ASSUME TypeOK, LockInv, LocksUnopposed, [Next]_vars, Locked',
                    NEW v \in Workers, PastTheTest(v)'
             PROVE  FALSE
  BY DEF LockInv
<1> USE DEF TypeOK, columns, history
<1>1. ASSUME NEW w \in Workers, ReceiveLogin(w) \/ ReceiveOther(w) \/ Step(w) \/ Crash(w)
      PROVE  v = w \/ req'[v] = req[v]
  <2>1. \/ Reply(w) \/ Goto(w, "reset") \/ Goto(w, "verify") \/ Goto(w, "update_last_login")
        \/ ReceiveLogin(w) \/ Increment(w)
    BY <1>1 DEF Step, ReceiveOther, GetUser, Unknown, Reset, Accept, LockUser, UpdateLastLogin, Crash
  <2> QED  BY <2>1 DEF Reply, Goto, ReceiveLogin, Increment
<1>2. ASSUME ~Locked PROVE \E w \in Workers : LockUser(w)
  <2>1. lockedUntil' = NULL \/ lockedUntil' = lockedUntil \/ \E w \in Workers : LockUser(w)
    BY DEF Next, Step, vars, ReceiveLogin, ReceiveOther, GetUser, Unknown, Reset, Accept, Increment,
           UpdateLastLogin, ClearColumns, Crash, Tick
  <2>2. now' \in {now, now + 1}
    BY DEF Next, Step, vars, ReceiveLogin, ReceiveOther, GetUser, Unknown, Reset, Accept, Increment,
           LockUser, UpdateLastLogin, Crash, Tick
  <2> QED  BY <1>2, <2>1, <2>2 DEF Locked, NULL
<1>3. CASE \E w \in Workers : LockUser(w)
  <2>1. PICK w \in Workers : LockUser(w)  BY <1>3
  <2>2. ~PastTheTest(v)  BY <2>1 DEF LocksUnopposed
  <2>3. req'[w].pc = "idle"  BY <2>1 DEF LockUser, Reply, NoRequest
  <2>4. v # w  BY <2>3 DEF PastTheTest, At
  <2> QED  BY <1>1, <2>1, <2>2, <2>4 DEF PastTheTest, At, Step
<1>4. CASE Locked /\ ~\E w \in Workers : LockUser(w)
  <2>1. \A w \in Workers : ~PastTheTest(w)  BY <1>4 DEF LockInv
  <2>2. req'[v] # req[v]  BY <2>1 DEF PastTheTest, At
  <2>3. PICK w \in Workers : ReceiveLogin(w) \/ ReceiveOther(w) \/ Step(w) \/ Crash(w)
    BY <2>2 DEF Next, Tick, vars
  <2>4. v = w  BY <1>1, <2>2, <2>3
  <2>5. ~ReceiveOther(w)  BY <1>4 DEF LocksUnopposed
  <2>6. ~Reset(w) /\ ~UpdateLastLogin(w) /\ ~Accept(w)
    BY <2>1 DEF PastTheTest, Reset, UpdateLastLogin, Accept
  <2>7. req'[w].pc \in {"idle", "get_user", "lock"}
    <3>1. CASE ReceiveLogin(w)  BY <3>1 DEF ReceiveLogin, NoRequest
    <3>2. CASE Increment(w)  BY <3>2 DEF Increment, Reply, NoRequest, Request
    <3>3. CASE Reply(w)  BY <3>3 DEF Reply, NoRequest
    <3>4. GetUser(w) => Reply(w)  BY <1>4 DEF GetUser, Locked, NULL
    <3> QED
      BY <1>4, <2>3, <2>5, <2>6, <3>1, <3>2, <3>3, <3>4 DEF Step, Unknown, Crash
  <2> QED  BY <2>4, <2>7 DEF PastTheTest, At
<1> QED  BY <1>2, <1>3, <1>4

\* test_locked_account_rejects_correct_password says that a lock stands until
\* it lapses.  It does, if no sign-in was past login's test when the lock was
\* written and none goes round the test while it stands.
THEOREM LockHoldsUnopposed ==
    Spec /\ [][LocksUnopposed]_vars => LockHolds
<1>1. Init => LockInv  BY DEF Init, LockInv, Locked, NULL
<1>2. IInv => TypeOK /\ LocksAreDated  BY DEF IInv
<1>3. LockInv /\ UNCHANGED vars => LockInv'
  BY DEF LockInv, vars, Locked, PastTheTest, At
<1>4. TypeOK /\ LockInv /\ LocksAreDated /\ [Next]_vars => [Locked => lockedUntil' # NULL]_vars
  <2> SUFFICES ASSUME TypeOK, LockInv, LocksAreDated, Next, Locked PROVE lockedUntil' # NULL
    OBVIOUS
  <2>1. lockedUntil # NULL  BY DEF Locked, NULL, TypeOK
  <2>2. ASSUME NEW w \in Workers, LockUser(w) PROVE lockedUntil' # NULL
    BY <2>2 DEF LockUser, LocksAreDated
  <2>3. ASSUME NEW w \in Workers PROVE ~Reset(w) /\ ~UpdateLastLogin(w)
    BY DEF LockInv, PastTheTest, Reset, UpdateLastLogin
  <2> QED
    BY <2>1, <2>2, <2>3 DEF Next, Step, columns, ReceiveLogin, ReceiveOther, GetUser, Unknown, Accept,
                            Increment, Crash, Tick
<1> QED  BY <1>1, <1>2, <1>3, <1>4, LockInvStep, LedgerHolds, PTL DEF Spec, LockHolds

\* Neither the lock in the row nor one still to be written ends later than
\* LockoutDuration from now.
LapseInv ==
    /\ lockedUntil <= now + LockoutDuration
    /\ \A w \in Workers : At(w, "lock") => req[w].until <= now + LockoutDuration

\* A lock is written late at worst, never long: no account is shut out for
\* more than LOCKOUT_DURATION_SECONDS from any moment on.
THEOREM LockoutLapses == Spec => [](lockedUntil <= now + LockoutDuration)
<1>1. Init => LapseInv  BY LimitsArePositive DEF Init, LapseInv, NoRequest, At, NULL
<1>2. TypeOK /\ LapseInv /\ [Next]_vars => LapseInv'
  <2> SUFFICES ASSUME TypeOK, LapseInv, [Next]_vars PROVE LapseInv'
    OBVIOUS
  <2>3. ASSUME NEW v \in Workers, At(v, "lock")'
        PROVE  req'[v] = req[v] \/ req'[v].until = now + LockoutDuration
    BY <2>3, NewLock
  <2> USE LimitsArePositive DEF TypeOK, columns, history
  <2>1. now' \in Nat /\ now <= now'
    <3>1. now' \in {now, now + 1}
      BY DEF Next, Step, vars, ReceiveLogin, ReceiveOther, GetUser, Unknown, Reset, Accept, Increment,
             LockUser, UpdateLastLogin, Crash, Tick
    <3> QED  BY <3>1
  <2>2. \/ lockedUntil' \in {NULL, lockedUntil}
        \/ \E w \in Workers : At(w, "lock") /\ lockedUntil' = req[w].until
    BY DEF Next, Step, vars, ReceiveLogin, ReceiveOther, GetUser, Unknown, Reset, Accept, Increment,
           LockUser, UpdateLastLogin, ClearColumns, Crash, Tick
  <2>4. \A w \in Workers : req[w].until \in Nat
    BY DEF Request
  <2> HIDE DEF TypeOK
  <2>5. now \in Nat /\ lockedUntil \in Nat  BY DEF TypeOK
  <2>6. ASSUME NEW n \in Nat, n <= now + LockoutDuration PROVE n <= now' + LockoutDuration
    <3>1. \A a, b, c, d \in Nat : a <= b + c /\ b <= d => a <= d + c
      OBVIOUS
    <3>2. LockoutDuration \in Nat  OBVIOUS
    <3> QED  BY <2>1, <2>5, <2>6, <3>1, <3>2
  <2>7. lockedUntil' <= now' + LockoutDuration
    <3>1. NULL <= now + LockoutDuration /\ NULL \in Nat  BY <2>5 DEF NULL
    <3> QED  BY <2>2, <2>4, <2>5, <2>6, <3>1 DEF LapseInv
  <2>8. ASSUME NEW v \in Workers, At(v, "lock")' PROVE req'[v].until <= now' + LockoutDuration
    <3>1. CASE req'[v] = req[v]
      BY <2>4, <2>6, <2>8, <3>1 DEF LapseInv, At
    <3>2. CASE req'[v].until = now + LockoutDuration
      BY <2>1, <2>5, <3>2
    <3> QED  BY <2>3, <2>8, <3>1, <3>2
  <2> QED  BY <2>7, <2>8 DEF LapseInv
<1>3. IInv => TypeOK  BY DEF IInv
<1>4. LapseInv => lockedUntil <= now + LockoutDuration  BY DEF LapseInv
<1> QED  BY <1>1, <1>2, <1>3, <1>4, LedgerHolds, PTL DEF Spec

=============================================================================
