------------------------ MODULE TokenBlacklistProofs ------------------------
(***************************************************************************)
(* Logout invalidates, for any lifetime and any TTL at least as long.      *)
(*                                                                         *)
(* The argument: a token is issued for at most Lifetime, so an entry       *)
(* written later for BlacklistTtl ends no earlier (Covered); a request     *)
(* that comes after logout finds either that entry or an expired token.    *)
(***************************************************************************)
EXTENDS TokenBlacklist, TLAPS

\* What a request knows about the token it carries.
RequestsOK ==
    \A w \in Workers : ~At(w, "idle") =>
        LET j == req[w].jti
        IN  /\ j \in Jtis
            /\ exp[j] # 0
            /\ req[w].late => j \in answered
            /\ At(w, "revoke_refresh") \/ At(w, "audit") => j \in marked \cup failed
            /\ At(w, "audit") => j \in signedOut

IssuedInTime ==
    \A j \in Jtis : exp[j] <= now + Lifetime /\ (j \in marked => exp[j] # 0)

Covered == \A j \in marked \ failed : entry[j] >= exp[j]

IInv ==
    /\ TypeOK
    /\ RequestsOK
    /\ IssuedInTime
    /\ Covered
    /\ LogoutIsWhole
    /\ LogoutInvalidates

-----------------------------------------------------------------------------
LEMMA InitIInv == Init => IInv
<1> SUFFICES ASSUME Init PROVE IInv
  OBVIOUS
<1>1. TypeOK  BY DEF Init, TypeOK, Request, PCs, NoRequest
<1>2. \A w \in Workers : At(w, "idle")  BY DEF Init, At, NoRequest
<1>3. RequestsOK  BY <1>2 DEF RequestsOK
<1>4. IssuedInTime  BY TtlCoversLifetime DEF Init, IssuedInTime
<1>5. Covered /\ LogoutIsWhole  BY DEF Init, Covered, LogoutIsWhole
<1>6. LogoutInvalidates  BY <1>2 DEF LogoutInvalidates, At
<1> QED  BY <1>1, <1>3, <1>4, <1>5, <1>6 DEF IInv

LEMMA TypeStep == TypeOK /\ RequestsOK /\ [Next]_vars => TypeOK'
<1> SUFFICES ASSUME TypeOK, RequestsOK, [Next]_vars PROVE TypeOK'
  OBVIOUS
<1>1. \A w \in Workers : ~At(w, "idle") => req[w].jti \in Jtis  BY DEF RequestsOK
<1>2. now + Lifetime \in Nat /\ now + BlacklistTtl \in Nat /\ now + 1 \in Nat \ {0}
  BY TtlCoversLifetime DEF TypeOK
<1>3. ASSUME NEW w \in Workers, Reply(w) PROVE req' \in [Workers -> Request]
  BY <1>3 DEF Reply, TypeOK, NoRequest, Request, PCs
<1>4. ASSUME NEW w \in Workers, NEW pc \in PCs, Goto(w, pc) PROVE req' \in [Workers -> Request]
  BY <1>4 DEF Goto, TypeOK, Request
<1>5. PCs = {"idle", "decode", "check_blacklist", "load_user",
             "blacklist_token", "revoke_refresh", "audit"}
  BY DEF PCs
<1>6. ASSUME NEW j \in Jtis, CreateAccessToken(j) \/ Evict(j) PROVE TypeOK'
  BY <1>2, <1>6 DEF CreateAccessToken, Evict, TypeOK, history
<1>7. ASSUME NEW w \in Workers, Receive(w) PROVE TypeOK'
  BY <1>7 DEF Receive, TypeOK, history, Request, PCs
<1>8. ASSUME NEW w \in Workers, Decode(w) PROVE TypeOK'
  BY <1>3, <1>4, <1>5, <1>8 DEF Decode, TypeOK, history
<1>9. ASSUME NEW w \in Workers, CheckBlacklist(w) PROVE TypeOK'
  <2>1. req' \in [Workers -> Request]  BY <1>3, <1>4, <1>5, <1>9 DEF CheckBlacklist
  <2>2. req[w].jti \in Jtis  BY <1>1, <1>9 DEF CheckBlacklist, At
  <2> QED  BY <1>9, <2>1, <2>2 DEF CheckBlacklist, TypeOK
<1>10. ASSUME NEW w \in Workers, UserRefused(w) \/ Accept(w) \/ DecodeAgain(w) PROVE TypeOK'
  BY <1>3, <1>4, <1>5, <1>10 DEF UserRefused, Accept, DecodeAgain, TypeOK, history
<1>11. ASSUME NEW w \in Workers, BlacklistToken(w) PROVE TypeOK'
  <2>1. req' \in [Workers -> Request]  BY <1>4, <1>5, <1>11 DEF BlacklistToken
  <2>2. req[w].jti \in Jtis  BY <1>1, <1>11 DEF BlacklistToken, At
  <2> QED  BY <1>2, <1>11, <2>1, <2>2 DEF BlacklistToken, TypeOK
<1>12. ASSUME NEW w \in Workers, RevokeRefresh(w) PROVE TypeOK'
  <2>1. req' \in [Workers -> Request]  BY <1>4, <1>5, <1>12 DEF RevokeRefresh
  <2>2. req[w].jti \in Jtis  BY <1>1, <1>12 DEF RevokeRefresh, At
  <2> QED  BY <1>12, <2>1, <2>2 DEF RevokeRefresh, TypeOK
<1>13. ASSUME NEW w \in Workers, LogoutReply(w) \/ Crash(w) PROVE TypeOK'
  <2>1. req' \in [Workers -> Request]  BY <1>3, <1>13 DEF LogoutReply, Crash
  <2>2. req[w].jti \in Jtis  BY <1>1, <1>13 DEF LogoutReply, Crash, At
  <2> QED  BY <1>13, <2>1, <2>2 DEF LogoutReply, Crash, TypeOK
<1>14. ASSUME Tick \/ UNCHANGED vars PROVE TypeOK'
  BY <1>2, <1>14 DEF Tick, vars, TypeOK, history
<1> QED
  BY <1>6, <1>7, <1>8, <1>9, <1>10, <1>11, <1>12, <1>13, <1>14 DEF Next

\* Every step leaves the other workers' requests alone, and moves its own in
\* one of these ways.
LEMMA MoveOf ==
    ASSUME TypeOK, NEW w \in Workers, NEW v \in Workers,
           Reply(w) \/ \E pc \in PCs : Goto(w, pc)
    PROVE  /\ v # w => req'[v] = req[v]
           /\ ~At(v, "idle")' => /\ req'[v].jti = req[v].jti /\ req'[v].late = req[v].late
                                 /\ req'[v].op = req[v].op
<1>1. req \in [Workers -> Request]  BY DEF TypeOK
<1>2. CASE Reply(w)  BY <1>1, <1>2 DEF Reply, At, NoRequest
<1>3. ASSUME NEW pc \in PCs, Goto(w, pc)
      PROVE  /\ v # w => req'[v] = req[v]
             /\ req'[v].jti = req[v].jti /\ req'[v].late = req[v].late /\ req'[v].op = req[v].op
  BY <1>1, <1>3 DEF Goto, Request
<1> QED  BY <1>2, <1>3

\* A step that only moves a request on, short of revoke_refresh.
LEMMA QuietStep ==
    ASSUME IInv, TypeOK', NEW w \in Workers,
           UNCHANGED <<now, exp, entry, history>>,
           ~At(w, "idle"), ~At(w, "revoke_refresh"),
           \/ Reply(w) \/ Goto(w, "check_blacklist") \/ Goto(w, "blacklist_token")
           \/ Goto(w, "load_user") /\ (req[w].late => req[w].jti \in failed \/ Expired(req[w].jti))
    PROVE  IInv'
<1>1. \A v \in Workers :
        /\ v # w => req'[v] = req[v]
        /\ ~At(v, "idle")' => req'[v].jti = req[v].jti /\ req'[v].late = req[v].late
  BY MoveOf DEF IInv, PCs
<1>2. \A v \in Workers : v = w =>
         /\ ~At(v, "revoke_refresh")' /\ ~At(v, "audit")'
         /\ At(v, "load_user")' => (req[w].late => req[w].jti \in failed \/ Expired(req[w].jti))
  <2>1. req \in [Workers -> Request]  BY DEF IInv, TypeOK
  <2>2. CASE Reply(w)  BY <2>1, <2>2 DEF Reply, NoRequest, At
  <2>3. CASE Goto(w, "check_blacklist")  BY <2>1, <2>3 DEF Goto, Request, At
  <2>4. CASE Goto(w, "blacklist_token")  BY <2>1, <2>4 DEF Goto, Request, At
  <2>5. CASE Goto(w, "load_user") /\ (req[w].late => req[w].jti \in failed \/ Expired(req[w].jti))
    BY <2>1, <2>5 DEF Goto, Request, At
  <2> QED  BY <2>2, <2>3, <2>4, <2>5
<1>3. \A v \in Workers : At(v, "load_user")' => ~At(v, "idle")'  BY DEF At
<1>4. RequestsOK'
  BY <1>1, <1>2 DEF RequestsOK, At, history, IInv
<1>5. IssuedInTime' /\ Covered'
  BY DEF IInv, IssuedInTime, Covered, history
<1>6. LogoutIsWhole'
  BY <1>1 DEF IInv, LogoutIsWhole, At, history
<1>7. LogoutInvalidates'
  BY <1>1, <1>2, <1>3 DEF IInv, LogoutInvalidates, Expired, At, history
<1> QED  BY <1>4, <1>5, <1>6, <1>7 DEF IInv

LEMMA IssueStep ==
    ASSUME IInv, TypeOK', NEW i \in Jtis, CreateAccessToken(i)
    PROVE  IInv'
<1>0. req' = req /\ now' = now /\ UNCHANGED history  BY DEF CreateAccessToken
<1>1. \A j \in Jtis : exp[j] # 0 => exp'[j] = exp[j]  BY DEF CreateAccessToken, IInv, TypeOK
<1>2. i \notin marked  BY DEF CreateAccessToken, IInv, IssuedInTime
<1>3. now + Lifetime # 0 /\ now + Lifetime <= now + Lifetime
  BY TtlCoversLifetime DEF IInv, TypeOK
<1>4. RequestsOK'  BY <1>0, <1>1 DEF IInv, RequestsOK, At, history
<1>5. IssuedInTime'
  <2> SUFFICES ASSUME NEW j \in Jtis PROVE exp'[j] <= now + Lifetime /\ (j \in marked => exp'[j] # 0)
    BY <1>0 DEF IssuedInTime, history
  <2>1. CASE j = i  BY <2>1, <1>2, <1>3 DEF CreateAccessToken, IInv, TypeOK
  <2>2. CASE j # i  BY <2>2 DEF CreateAccessToken, IInv, TypeOK, IssuedInTime
  <2> QED  BY <2>1, <2>2
<1>6. Covered'
  BY <1>0, <1>1, <1>2 DEF CreateAccessToken, IInv, TypeOK, IssuedInTime, Covered, history
<1>7. LogoutIsWhole'  BY <1>0 DEF IInv, LogoutIsWhole, At, history
<1>8. LogoutInvalidates'
  BY <1>0, <1>1 DEF IInv, LogoutInvalidates, RequestsOK, Expired, At, history
<1> QED  BY <1>4, <1>5, <1>6, <1>7, <1>8 DEF IInv

LEMMA ReceiveStep ==
    ASSUME IInv, TypeOK', NEW w \in Workers, Receive(w)
    PROVE  IInv'
<1>0. UNCHANGED <<now, exp, entry, history>>  BY DEF Receive
<1>1. /\ \A v \in Workers : v # w => req'[v] = req[v]
      /\ req'[w].pc = "decode" /\ req'[w].jti \in Jtis /\ exp[req'[w].jti] # 0
      /\ req'[w].late => req'[w].jti \in answered
      /\ At(w, "idle")
  <2>1. PICK j \in Jtis, op \in {"use", "logout"} :
            /\ At(w, "idle") /\ exp[j] # 0
            /\ req' = [req EXCEPT ![w] = [op |-> op, pc |-> "decode", jti |-> j,
                                          late |-> j \in answered]]
    BY DEF Receive
  <2> QED  BY <2>1 DEF IInv, TypeOK
<1>2. RequestsOK'  BY <1>0, <1>1 DEF IInv, RequestsOK, At, history
<1>3. IssuedInTime' /\ Covered'  BY <1>0 DEF IInv, IssuedInTime, Covered, history
<1>4. LogoutIsWhole'  BY <1>0, <1>1 DEF IInv, LogoutIsWhole, At, history
<1>5. LogoutInvalidates'  BY <1>0, <1>1 DEF IInv, LogoutInvalidates, Expired, At, history
<1> QED  BY <1>2, <1>3, <1>4, <1>5 DEF IInv

\* The step the theorem is about: a late request that Redis lets through.
LEMMA CheckStep ==
    ASSUME IInv, TypeOK', NEW w \in Workers, CheckBlacklist(w)
    PROVE  IInv'
<1> DEFINE j == req[w].jti
<1>0. j \in Jtis /\ ~At(w, "idle") /\ ~At(w, "revoke_refresh")
  BY DEF CheckBlacklist, IInv, RequestsOK, At
<1>1. UNCHANGED <<now, exp, entry, marked, signedOut, answered, died>>  BY DEF CheckBlacklist
<1>2. CASE UNCHANGED failed
  <2>1. ASSUME ~InBlacklist(j), req[w].late, j \notin failed PROVE Expired(j)
    <3>1. j \in marked  BY <2>1, <1>0 DEF IInv, RequestsOK, LogoutIsWhole
    <3>2. entry[j] >= exp[j]  BY <3>1, <2>1 DEF IInv, Covered
    <3> QED  BY <3>2, <2>1, <1>0 DEF InBlacklist, Expired, IInv, TypeOK
  <2>2. CASE Reply(w)  BY <2>2, <1>0, <1>1, <1>2, QuietStep DEF history
  <2>3. CASE Goto(w, "load_user") /\ ~InBlacklist(j)
    BY <2>1, <2>3, <1>0, <1>1, <1>2, QuietStep DEF history
  <2>4. CASE failed' = failed \cup {j} /\ Goto(w, "load_user")
    <3>1. j \in failed  BY <2>4, <1>2
    <3> QED  BY <3>1, <2>4, <1>0, <1>1, <1>2, QuietStep DEF history
  <2> QED  BY <2>2, <2>3, <2>4 DEF CheckBlacklist
<1>3. CASE failed' = failed \cup {j} /\ Goto(w, "load_user")
  <2>1. req \in [Workers -> Request]  BY DEF IInv, TypeOK
  <2>2. /\ \A v \in Workers : v # w => req'[v] = req[v]
        /\ req'[w].pc = "load_user" /\ req'[w].jti = j /\ req'[w].late = req[w].late
    BY <2>1, <1>3 DEF Goto, Request
  <2>3. RequestsOK'  BY <2>2, <1>0, <1>1, <1>3 DEF IInv, RequestsOK, At
  <2>4. IssuedInTime'  BY <1>1 DEF IInv, IssuedInTime
  <2>5. Covered'  BY <1>1, <1>3 DEF IInv, Covered
  <2>6. LogoutIsWhole'  BY <2>2, <1>0, <1>1, <1>3 DEF IInv, LogoutIsWhole, At
  <2>7. LogoutInvalidates'  BY <2>2, <1>1, <1>3 DEF IInv, LogoutInvalidates, Expired, At
  <2> QED  BY <2>3, <2>4, <2>5, <2>6, <2>7 DEF IInv
<1> QED  BY <1>2, <1>3 DEF CheckBlacklist

\* The entry covers the token because it was issued before now.
LEMMA BlacklistStep ==
    ASSUME IInv, TypeOK', NEW w \in Workers, BlacklistToken(w)
    PROVE  IInv'
<1> DEFINE j == req[w].jti
<1>0. j \in Jtis /\ exp[j] # 0  BY DEF BlacklistToken, IInv, RequestsOK, At
<1>1. UNCHANGED <<now, exp, signedOut, answered, died>>  BY DEF BlacklistToken
<1>2. /\ marked \subseteq marked' /\ failed \subseteq failed'
      /\ j \in marked' \cup failed'
      /\ marked' \subseteq marked \cup {j}
  BY DEF BlacklistToken
<1>3. /\ \A v \in Workers : v # w => req'[v] = req[v]
      /\ req'[w].pc = "revoke_refresh" /\ req'[w].jti = j /\ req'[w].late = req[w].late
      /\ req[w].pc = "blacklist_token"
  BY DEF BlacklistToken, Goto, At, IInv, TypeOK, Request
<1>4. RequestsOK'
  BY <1>0, <1>1, <1>2, <1>3 DEF IInv, RequestsOK, At
<1>5. IssuedInTime'  BY <1>0, <1>1, <1>2 DEF IInv, IssuedInTime
<1>6. Covered'
  <2>1. exp[j] <= now + BlacklistTtl
    BY <1>0, TtlCoversLifetime DEF IInv, IssuedInTime, TypeOK
  <2>2. CASE entry' = [entry EXCEPT ![j] = now + BlacklistTtl] /\ marked' = marked \cup {j}
             /\ failed' = failed
    BY <2>1, <2>2, <1>0, <1>1 DEF IInv, Covered, TypeOK
  <2>3. CASE failed' = failed \cup {j} /\ UNCHANGED <<entry, marked>>
    BY <2>3, <1>1 DEF IInv, Covered
  <2> QED  BY <2>2, <2>3 DEF BlacklistToken
<1>7. LogoutIsWhole'
  <2>1. ASSUME NEW i \in marked'
        PROVE  \/ i \in signedOut' \/ i \in died'
               \/ \E v \in Workers : At(v, "revoke_refresh")' /\ req'[v].jti = i
    <3>1. CASE i = j  BY <3>1, <1>3 DEF At
    <3>2. CASE i # j
      <4>1. i \in marked  BY <3>2, <2>1, <1>2
      <4>2. \A v \in Workers : At(v, "revoke_refresh") => v # w  BY <1>3 DEF At
      <4> QED  BY <4>1, <4>2, <1>1, <1>3 DEF IInv, LogoutIsWhole, At
    <3> QED  BY <3>1, <3>2
  <2>2. answered' \subseteq signedOut' \cap (marked' \cup failed')
    BY <1>1, <1>2 DEF IInv, LogoutIsWhole
  <2> QED  BY <2>1, <2>2 DEF LogoutIsWhole
<1>8. LogoutInvalidates'
  BY <1>1, <1>2, <1>3 DEF IInv, LogoutInvalidates, Expired, At
<1> QED  BY <1>4, <1>5, <1>6, <1>7, <1>8 DEF IInv

LEMMA RevokeStep ==
    ASSUME IInv, TypeOK', NEW w \in Workers, RevokeRefresh(w)
    PROVE  IInv'
<1>1. /\ UNCHANGED <<now, exp, entry, marked, answered, failed, died>>
      /\ signedOut' = signedOut \cup {req[w].jti}
  BY DEF RevokeRefresh
<1>2. /\ \A v \in Workers : v # w => req'[v] = req[v]
      /\ req'[w].pc = "audit" /\ req'[w].jti = req[w].jti /\ req'[w].late = req[w].late
      /\ req[w].pc = "revoke_refresh"
  BY DEF RevokeRefresh, Goto, At, IInv, TypeOK, Request
<1>3. RequestsOK'  BY <1>1, <1>2 DEF IInv, RequestsOK, At
<1>4. IssuedInTime' /\ Covered'  BY <1>1 DEF IInv, IssuedInTime, Covered
<1>5. LogoutIsWhole'  BY <1>1, <1>2 DEF IInv, LogoutIsWhole, At
<1>6. LogoutInvalidates'  BY <1>1, <1>2 DEF IInv, LogoutInvalidates, Expired, At
<1> QED  BY <1>3, <1>4, <1>5, <1>6 DEF IInv

LEMMA LeaveStep ==
    ASSUME IInv, TypeOK', NEW w \in Workers, LogoutReply(w) \/ Crash(w)
    PROVE  IInv'
<1>1. UNCHANGED <<now, exp, entry, marked, signedOut, failed>>  BY DEF LogoutReply, Crash
<1>2. /\ answered \subseteq answered' /\ died \subseteq died'
      /\ At(w, "revoke_refresh") => req[w].jti \in died'
      /\ answered' # answered => At(w, "audit") /\ answered' = answered \cup {req[w].jti}
  BY DEF LogoutReply, Crash, At
<1>3. (\A v \in Workers : v # w => req'[v] = req[v]) /\ req'[w].pc = "idle"
  BY DEF LogoutReply, Crash, Reply, NoRequest, IInv, TypeOK
<1>4. RequestsOK'  BY <1>1, <1>2, <1>3 DEF IInv, RequestsOK, At
<1>5. IssuedInTime' /\ Covered'  BY <1>1 DEF IInv, IssuedInTime, Covered
<1>6. LogoutIsWhole'
  <2>1. ASSUME NEW i \in marked
        PROVE  \/ i \in signedOut \/ i \in died'
               \/ \E v \in Workers : At(v, "revoke_refresh")' /\ req'[v].jti = i
    BY <1>2, <1>3 DEF IInv, LogoutIsWhole, At
  <2>2. answered' \subseteq signedOut \cap (marked \cup failed)
    <3>1. At(w, "audit") => req[w].jti \in signedOut \cap (marked \cup failed)
      BY DEF IInv, RequestsOK, At
    <3> QED  BY <1>2, <3>1 DEF IInv, LogoutIsWhole
  <2> QED  BY <1>1, <2>1, <2>2 DEF LogoutIsWhole
<1>7. LogoutInvalidates'  BY <1>1, <1>3 DEF IInv, LogoutInvalidates, Expired, At
<1> QED  BY <1>4, <1>5, <1>6, <1>7 DEF IInv

\* An eviction is a failure of Redis for that token; time only expires more.
LEMMA EnvironmentStep ==
    ASSUME IInv, TypeOK', (\E j \in Jtis : Evict(j)) \/ Tick \/ UNCHANGED vars
    PROVE  IInv'
<1>1. ASSUME NEW j \in Jtis, Evict(j) PROVE IInv'
  <2>1. UNCHANGED <<now, exp, req, marked, signedOut, answered, died>>
        /\ failed' = failed \cup {j} /\ entry' = [entry EXCEPT ![j] = 0]
    BY <1>1 DEF Evict
  <2>2. RequestsOK' /\ IssuedInTime' /\ LogoutIsWhole' /\ LogoutInvalidates'
    BY <2>1 DEF IInv, RequestsOK, IssuedInTime, LogoutIsWhole, LogoutInvalidates, Expired, At
  <2>3. Covered'  BY <2>1 DEF IInv, Covered, TypeOK
  <2> QED  BY <2>2, <2>3 DEF IInv
<1>2. CASE Tick
  <2>1. now' = now + 1 /\ UNCHANGED <<exp, entry, req, history>>  BY <1>2 DEF Tick
  <2>2. RequestsOK' /\ Covered' /\ LogoutIsWhole'
    BY <2>1 DEF IInv, RequestsOK, Covered, LogoutIsWhole, At, history
  <2>3. IssuedInTime'
    BY <2>1, TtlCoversLifetime DEF IInv, IssuedInTime, TypeOK, history
  <2>4. LogoutInvalidates'
    <3>1. \A w \in Workers : At(w, "load_user") => req[w].jti \in Jtis
      BY DEF IInv, RequestsOK, At
    <3> QED  BY <2>1, <3>1 DEF IInv, LogoutInvalidates, Expired, TypeOK, At, history
  <2> QED  BY <2>2, <2>3, <2>4 DEF IInv
<1>3. CASE UNCHANGED vars
  BY <1>3 DEF IInv, vars, RequestsOK, IssuedInTime, Covered, LogoutIsWhole, LogoutInvalidates,
              Expired, At
<1> QED  BY <1>1, <1>2, <1>3

\* The invariant holds in every state.
LEMMA Invariance == Spec => []IInv
<1>1. Init => IInv  BY InitIInv
<1>2. IInv /\ [Next]_vars => IInv'
  <2> SUFFICES ASSUME IInv, [Next]_vars PROVE IInv'
    OBVIOUS
  <2>0. TypeOK'  BY TypeStep DEF IInv
  <2>1. ASSUME NEW w \in Workers, Decode(w) \/ UserRefused(w) \/ Accept(w) \/ DecodeAgain(w)
        PROVE  IInv'
    <3>1. /\ UNCHANGED <<now, exp, entry, history>>
          /\ ~At(w, "idle") /\ ~At(w, "revoke_refresh")
          /\ Reply(w) \/ Goto(w, "check_blacklist") \/ Goto(w, "blacklist_token")
      BY <2>1 DEF Decode, UserRefused, Accept, DecodeAgain, At
    <3> QED  BY <2>0, <3>1, QuietStep
  <2> QED
    BY <2>0, <2>1, IssueStep, ReceiveStep, CheckStep, BlacklistStep, RevokeStep, LeaveStep,
       EnvironmentStep DEF Next
<1> QED  BY <1>1, <1>2, PTL DEF Spec

-----------------------------------------------------------------------------
(* What it says. *)

\* The clock, the claims, Redis and every request keep their types.
THEOREM BlacklistTypeCorrect == Spec => []TypeOK
<1>1. IInv => TypeOK  BY DEF IInv
<1> QED  BY <1>1, Invariance, PTL

\* A blacklist entry of blacklist_token outlives the access token it is for,
\* whenever REDIS_BLACKLIST_TTL_SECONDS is at least the token's lifetime.
THEOREM EntryOutlivesTokenHolds == Spec => []EntryOutlivesToken
<1>1. IInv => EntryOutlivesToken
  <2> SUFFICES ASSUME IInv, NEW j \in marked \ failed PROVE Expired(j) \/ InBlacklist(j)
    BY DEF EntryOutlivesToken
  <2>1. j \in Jtis /\ entry[j] >= exp[j]  BY DEF IInv, TypeOK, Covered
  <2> QED  BY <2>1 DEF IInv, TypeOK, Expired, InBlacklist
<1> QED  BY <1>1, Invariance, PTL

\* After logout answered, get_current_user lets no new request through, unless
\* Redis failed or the token expired while the request was in flight.
THEOREM LogoutInvalidatesHolds == Spec => []LogoutInvalidates
<1>1. IInv => LogoutInvalidates  BY DEF IInv
<1> QED  BY <1>1, Invariance, PTL

\* logout signs out both the access token and the refresh token, or dies.
THEOREM LogoutIsWholeHolds == Spec => []LogoutIsWhole
<1>1. IInv => LogoutIsWhole  BY DEF IInv
<1> QED  BY <1>1, Invariance, PTL

\* While Redis answers and keeps what it was given, a request made after logout
\* gets past the blacklist only with a token that has expired since its decode,
\* and every logout that answered has left its entry until the token expires.
THEOREM LogoutInvalidatesWhileRedisKeeps ==
    ASSUME RedisMayFail = FALSE
    PROVE  Spec => [](/\ \A w \in Workers : At(w, "load_user") /\ req[w].late => Expired(req[w].jti)
                      /\ \A j \in answered : Expired(j) \/ InBlacklist(j))
<1> DEFINE NoneFailed == failed = {}
           Promise == /\ \A w \in Workers : At(w, "load_user") /\ req[w].late => Expired(req[w].jti)
                      /\ \A j \in answered : Expired(j) \/ InBlacklist(j)
<1>1. Init => NoneFailed  BY DEF Init
<1>2. NoneFailed /\ [Next]_vars => NoneFailed'
  BY DEF Next, vars, history, CreateAccessToken, Evict, Receive, Decode, CheckBlacklist, UserRefused,
         Accept, DecodeAgain, BlacklistToken, RevokeRefresh, LogoutReply, Crash, Tick
<1>3. EntryOutlivesToken /\ LogoutInvalidates /\ LogoutIsWhole /\ NoneFailed => Promise
  BY DEF EntryOutlivesToken, LogoutInvalidates, LogoutIsWhole
<1> HIDE DEF NoneFailed
<1>4. Spec => []Promise
  BY <1>1, <1>2, <1>3, EntryOutlivesTokenHolds, LogoutInvalidatesHolds, LogoutIsWholeHolds, PTL DEF Spec
<1> QED  BY <1>4
=============================================================================
