---------------------------- MODULE TokenPromises ----------------------------
(***************************************************************************)
(* The promises about tokens that the documentation makes and concurrent   *)
(* requests can break (runs tokens_rotation_race, tokens_revoked_session): *)
(* under which condition each of them holds for any number of requests,    *)
(* and how far it can fail without the condition.                          *)
(***************************************************************************)
EXTENDS TokenLifecycleProofs, FiniteSetTheorems

(***************************************************************************)
(* 1. Single use.  Two requests that present one token while both are past *)
(* their lookups are the only way to two successors.                       *)
(***************************************************************************)
Presents(w, t) == req[w].pc \in MintingPCs /\ req[w].refresh = t

\* No two requests rotate one token at once.
Apart == \A t \in Tokens, v, w \in Workers : Presents(v, t) /\ Presents(w, t) => v = w

\* A request about to insert into a session is alone there, and the only live
\* token of the session, if there is one, is the one it presents.
ApartInv ==
    /\ OneLivePerSession
    /\ AtMostOneSuccessor
    /\ \A v, w \in Workers, s \in Sessions : Minting(v, s) /\ Minting(w, s) => v = w
    /\ \A w \in Workers, t \in Tokens :
         /\ Live(t) /\ Minting(w, token[t].session) => Presents(w, t)
         /\ Presents(w, t) => \A c \in Tokens : parent[c] # t

\* How a request comes to stand before an insert into session s: it stood
\* there, it has just found a live token of s, or it has just created s.
LEMMA MintingKinds ==
    ASSUME TypeInv, OwnerInv, [Next]_vars, NEW w \in Workers, NEW s \in Sessions, Minting(w, s)'
    PROVE  \/ Minting(w, s) /\ req'[w].refresh = req[w].refresh
           \/ /\ req'[w].refresh \in Tokens /\ Live(req'[w].refresh)
              /\ token[req'[w].refresh].session = s
           \/ /\ s \in FreshSessions /\ \A v \in Workers \ {w} : req'[v] = req[v]
              /\ req'[w] # req[w] /\ req'[w].refresh = req[w].refresh
<1> USE DEF TypeInv, TypeOK
<1>1. req'[w].pc \in MintingPCs /\ req'[w].session = s /\ s # None
  BY NoneIsNoId DEF Minting, MintingPCs
<1>2. CASE req'[w] = req[w]
  BY <1>1, <1>2 DEF Minting, MintingPCs
<1>3. CASE /\ LookupFound(w) /\ req'[w].refresh = req[w].refresh /\ Found(req[w].refresh)
           /\ req'[w].session = token[req[w].refresh].session
  BY <1>1, <1>3 DEF Found, Request
<1>4. CASE (LoadUser(w) \/ RevokeOld(w)) /\ SameLocals(w)
  BY <1>1, <1>4 DEF LoadUser, RevokeOld, At, SameLocals, Minting
<1>5. CASE IssueSession(w) /\ req'[w].refresh = req[w].refresh /\ req'[w].session \in FreshSessions
  <2>1. req[w].session = None
    BY <1>5 DEF IssueSession
  <2>2. \A v \in Workers \ {w} : req'[v] = req[v]
    BY <1>5, OthersWait DEF Step
  <2>3. QED
    BY <1>1, <1>5, <2>1, <2>2
<1>6. QED
  BY <1>1, <1>2, <1>3, <1>4, <1>5, MintingMoves

\* How a request comes to present token t.
LEMMA PresentingKinds ==
    ASSUME TypeInv, [Next]_vars, NEW w \in Workers, NEW t \in Tokens, Presents(w, t)'
    PROVE  Presents(w, t) \/ Live(t)
<1>1. t # None
  BY NoneIsNoId
<1>2. QED
  BY <1>1, MintingMoves DEF Presents, MintingPCs, LoadUser, RevokeOld, IssueSession, At, SameLocals, Found

\* A token that was rotated is not live.
LEMMA RotatedIsRevoked ==
    ASSUME RotationInv, NEW t \in Tokens, NEW c \in Tokens, parent[c] = t
    PROVE  ~Live(t)
BY NoneIsNoId DEF RotationInv, RotationOrder, Live

\* A live token of a session, and a request about to insert into one, mean
\* that create_session has run.
LEMMA InUseIsNotFresh ==
    ASSUME TypeInv, OwnerInv, NEW s \in FreshSessions
    PROVE  /\ \A t \in Tokens : Live(t) => token[t].session # s
           /\ \A w \in Workers : ~Minting(w, s)
<1>1. s \in Sessions /\ s # None
  BY NoneIsNoId DEF FreshSessions
<1>2. QED
  BY <1>1 DEF OwnerInv, TokenSessionOwner, Live, FreshTokens, Minting, MintingPCs

LEMMA ApartStep ==
    TypeInv /\ RotationInv /\ OwnerInv /\ Apart /\ Apart' /\ ApartInv /\ [Next]_vars => ApartInv'
<1> SUFFICES ASSUME TypeInv, RotationInv, OwnerInv, Apart, Apart', ApartInv, [Next]_vars
             PROVE  ApartInv'
  OBVIOUS
<1> USE DEF TypeInv, TypeOK, TablesTypeOK
<1>1. ASSUME NEW w \in Workers, IssueTokens(w) PROVE ApartInv'
  <2> DEFINE r == req[w].refresh
             s == req[w].session
  <2>1. PICK t \in Tokens :
          /\ ~Live(t)
          /\ token' = [token EXCEPT ![t] = [user |-> req[w].user, session |-> s, state |-> "live"]]
          /\ parent' = [parent EXCEPT ![t] = r]
    BY <1>1 DEF IssueTokens, CreateRefreshToken, FreshTokens, Live
  <2>2. At(w, "issue") /\ s \in Sessions /\ r \in Tokens \cup {None}
    BY <1>1 DEF IssueTokens, Request
  <2>3. req'[w].pc \notin MintingPCs /\ \A v \in Workers \ {w} : req'[v] = req[v]
    <3>1. \A v \in Workers \ {w} : req'[v] = req[v]
      BY <1>1, OthersWait DEF Step
    <3>2. req'[w].pc = "update_last_login"
      BY <1>1 DEF IssueTokens, Request
    <3>3. QED
      BY <3>1, <3>2 DEF MintingPCs
  <2>4. Minting(w, s) /\ (r # None => Presents(w, r))
    BY <2>2 DEF Minting, Presents, MintingPCs, At
  <2>5. ASSUME NEW x \in Tokens, Live(x) PROVE token[x].session # s
    <3>1. token[x].session = s => Presents(w, x)
      BY <2>4, <2>5 DEF ApartInv
    <3>2. ~Presents(w, x)
      BY <2>2, <2>5, NoneIsNoId DEF RotationInv, Presents, Live
    <3>3. QED
      BY <3>1, <3>2
  <2>6. OneLivePerSession'
    BY <2>1, <2>5 DEF ApartInv, OneLivePerSession, Live
  <2>7. r # None => \A c \in Tokens : parent[c] # r
    BY <2>2, <2>4 DEF ApartInv
  <2>8. AtMostOneSuccessor'
    BY <2>1, <2>7 DEF ApartInv, AtMostOneSuccessor
  <2>9. ASSUME NEW v \in Workers, req'[v].pc \in MintingPCs
        PROVE  v # w /\ req'[v] = req[v]
    BY <2>3, <2>9
  <2>10. \A v, u \in Workers, x \in Sessions : (Minting(v, x) /\ Minting(u, x))' => v = u
    BY <2>9 DEF Minting, MintingPCs, ApartInv
  <2>11. ASSUME NEW v \in Workers, NEW x \in Tokens, Live(x)', Minting(v, token[x].session)'
         PROVE  Presents(v, x)'
    <3>1. v # w /\ req'[v] = req[v] /\ Minting(v, token'[x].session)
      BY <2>9, <2>11 DEF Minting, MintingPCs
    <3>2. x # t
      BY <2>1, <2>2, <2>4, <3>1 DEF ApartInv
    <3>3. Live(x) /\ token'[x] = token[x]
      BY <2>1, <2>11, <3>2 DEF Live
    <3>4. QED
      BY <3>1, <3>3 DEF ApartInv, Presents
  <2>12. ASSUME NEW v \in Workers, NEW x \in Tokens, Presents(v, x)', NEW c \in Tokens
         PROVE  parent'[c] # x
    <3>1. v # w /\ Presents(v, x)
      BY <2>9, <2>12 DEF Presents
    <3>2. x # r
      BY <2>4, <3>1, NoneIsNoId DEF Apart
    <3>3. QED
      BY <2>1, <3>1, <3>2 DEF ApartInv
  <2>13. QED
    BY <2>6, <2>8, <2>10, <2>11, <2>12 DEF ApartInv
<1>2. ASSUME \A w \in Workers : ~IssueTokens(w) PROVE ApartInv'
  <2>1. UNCHANGED parent
    BY <1>2, Writers
  <2>2. \A t \in Tokens : Live(t)' => Live(t) /\ token'[t] = token[t]
    BY <1>2, TokensMoveForward DEF Live
  <2>3. OneLivePerSession' /\ AtMostOneSuccessor'
    BY <2>1, <2>2 DEF ApartInv, OneLivePerSession, AtMostOneSuccessor
  \* Whoever stands before an insert presents the live token there was.
  <2>4. ASSUME NEW w \in Workers, NEW s \in Sessions, Minting(w, s)',
               NEW t \in Tokens, Live(t), token[t].session = s
        PROVE  Presents(w, t)'
    <3>1. req'[w].pc \in MintingPCs
      BY <2>4 DEF Minting, MintingPCs
    <3>2. CASE Minting(w, s) /\ req'[w].refresh = req[w].refresh
      BY <2>4, <3>1, <3>2 DEF ApartInv, Presents
    <3>3. CASE /\ req'[w].refresh \in Tokens /\ Live(req'[w].refresh)
               /\ token[req'[w].refresh].session = s
      BY <2>4, <3>1, <3>3 DEF ApartInv, OneLivePerSession, Presents
    <3>4. s \notin FreshSessions
      BY <2>4, InUseIsNotFresh
    <3>5. QED
      BY <2>4, <3>2, <3>3, <3>4, MintingKinds
  <2>5. ASSUME NEW v \in Workers, NEW w \in Workers, NEW s \in Sessions, Minting(v, s)', Minting(w, s)'
        PROVE  v = w
    <3>1. ASSUME NEW t \in Tokens, Live(t), token[t].session = s PROVE v = w
      <4>1. Presents(v, t)' /\ Presents(w, t)'
        BY <2>4, <2>5, <3>1
      <4>2. QED
        BY <4>1 DEF Apart
    <3>2. CASE Minting(v, s) /\ Minting(w, s)
      BY <3>2 DEF ApartInv
    <3>3. CASE s \in FreshSessions
      <4>1. ~Minting(v, s) /\ ~Minting(w, s) /\ \A t \in Tokens : Live(t) => token[t].session # s
        BY <3>3, InUseIsNotFresh
      <4>2. /\ req'[v] # req[v] /\ \A u \in Workers \ {v} : req'[u] = req[u]
            /\ req'[w] # req[w] /\ \A u \in Workers \ {w} : req'[u] = req[u]
        BY <2>5, <4>1, MintingKinds
      <4>3. QED
        BY <4>2
    <3>4. QED
      BY <2>5, <3>1, <3>2, <3>3, MintingKinds
  <2>6. ASSUME NEW w \in Workers, NEW t \in Tokens, Presents(w, t)', NEW c \in Tokens
        PROVE  parent'[c] # t
    BY <2>1, <2>6, PresentingKinds, RotatedIsRevoked DEF ApartInv
  <2>7. ASSUME NEW w \in Workers, NEW t \in Tokens, Live(t)', Minting(w, token[t].session)'
        PROVE  Presents(w, t)'
    <3>1. Live(t) /\ token'[t] = token[t] /\ token[t].session \in Sessions
      BY <2>2, <2>7 DEF RowsFilled, Live
    <3>2. QED
      BY <2>4, <2>7, <3>1 DEF Minting
  <2>8. QED
    BY <2>3, <2>5, <2>6, <2>7 DEF ApartInv
<1>3. QED
  BY <1>1, <1>2

\* Where requests start there is nothing to keep apart.
LEMMA ApartInit == Init => TypeInv /\ RotationInv /\ OwnerInv /\ ApartInv
BY TypeInit DEF Init, RotationInv, RotationOrder, OwnerInv, TokenSessionOwner, ApartInv,
       OneLivePerSession, AtMostOneSuccessor, EmptyTables, FreshTokens, Live, NoRequest,
       MintingPCs, Minting, Presents, At

LEMMA ApartHolds == Spec /\ []Apart => []ApartInv
BY ApartInit, ApartStep, TypeStep, RotationStep, OwnerStep, PTL DEF Spec

\* A refresh token is good for one rotation, whatever else runs and wherever
\* requests die, unless two requests present it at once: between the lookup
\* and create_refresh_token.
THEOREM SingleUseWhenApart == Spec /\ []Apart => []AtMostOneSuccessor
<1>1. ApartInv => AtMostOneSuccessor
  BY DEF ApartInv
<1>2. QED
  BY <1>1, ApartHolds, PTL

\* Under the same condition a session never has two live refresh tokens.
THEOREM OneLiveWhenApart == Spec /\ []Apart => []OneLivePerSession
<1>1. ApartInv => OneLivePerSession
  BY DEF ApartInv
<1>2. QED
  BY <1>1, ApartHolds, PTL
(***************************************************************************)
(* 2. How far a race can go.  All rotations of one token that succeed were *)
(* past their lookups before the first of them revoked it.                 *)
(***************************************************************************)
Successors(t) == {c \in Tokens : parent[c] = t}
Rotating(t)   == {w \in Workers : Presents(w, t)}

\* One token is never rotated more often than there are requests in flight.
SuccessorsBounded ==
    \A t \in Tokens : Cardinality(Successors(t)) <= Cardinality(Workers)

\* What has been inserted for a token and what may still be.
Spread(t) ==
    /\ IsFiniteSet(Successors(t))
    /\ Cardinality(Successors(t)) + Cardinality(Rotating(t)) <= Cardinality(Workers)

LEMMA SizesAreNat ==
    ASSUME IsFiniteSet(Workers), NEW t
    PROVE  /\ IsFiniteSet(Rotating(t)) /\ Cardinality(Rotating(t)) \in Nat
           /\ Cardinality(Workers) \in Nat
           /\ Cardinality(Rotating(t)) <= Cardinality(Workers)
<1>1. Rotating(t) \subseteq Workers
  BY DEF Rotating
<1>2. QED
  BY <1>1, FS_Subset, FS_CardinalityType

LEMMA SpreadStep ==
    ASSUME IsFiniteSet(Workers), TypeInv, RotationInv, [Next]_vars, NEW t \in Tokens, Spread(t)
    PROVE  Spread(t)'
<1> USE DEF TypeInv, TypeOK
<1> DEFINE S  == Successors(t)
           R  == Rotating(t)
           SS == Successors(t)'
           RR == Rotating(t)'
<1>1. /\ IsFiniteSet(S) /\ Cardinality(S) \in Nat
      /\ IsFiniteSet(R) /\ Cardinality(R) \in Nat
      /\ Cardinality(S) + Cardinality(R) <= Cardinality(Workers) /\ Cardinality(Workers) \in Nat
  BY SizesAreNat, FS_CardinalityType DEF Spread
<1>2. IsFiniteSet(RR) /\ Cardinality(RR) \in Nat /\ Cardinality(RR) <= Cardinality(Workers)
  <2>1. RR \subseteq Workers
    BY DEF Rotating
  <2>2. QED
    BY <1>1, <2>1, FS_Subset, FS_CardinalityType
<1>3. t # None
  BY NoneIsNoId
<1>4. ASSUME SS = S PROVE IsFiniteSet(SS) /\ Cardinality(SS) + Cardinality(RR) <= Cardinality(Workers)
  <2>1. CASE RR \subseteq R
    <3> HIDE DEF S, R, SS, RR
    <3>1. Cardinality(RR) <= Cardinality(R)
      BY <1>1, <2>1, FS_Subset
    <3>2. QED
      BY <1>1, <1>2, <1>4, <3>1
  <2>2. CASE ~(RR \subseteq R)
    <3>1. PICK w \in Workers : Presents(w, t)' /\ ~Presents(w, t)
      BY <2>2 DEF Rotating
    <3>2. S = {}
      BY <3>1, PresentingKinds, RotatedIsRevoked DEF Successors
    <3> HIDE DEF S, R, SS, RR
    <3>3. Cardinality(S) = 0
      BY <3>2, FS_EmptySet
    <3>4. QED
      BY <1>1, <1>2, <1>4, <3>3
  <2>3. QED
    BY <2>1, <2>2
<1>5. CASE UNCHANGED parent
  BY <1>4, <1>5 DEF Successors, Spread
<1>6. ASSUME NEW w \in Workers, IssueTokens(w) PROVE Spread(t)'
  <2>1. PICK c \in Tokens : parent' = [parent EXCEPT ![c] = req[w].refresh] /\ c \in FreshTokens
    BY <1>6 DEF IssueTokens, CreateRefreshToken
  <2>2. /\ req'[w].pc \notin MintingPCs /\ req[w].pc \in MintingPCs
        /\ \A v \in Workers \ {w} : req'[v] = req[v]
    <3>1. req'[w].pc = "update_last_login" /\ At(w, "issue")
      BY <1>6 DEF IssueTokens, Request
    <3>2. QED
      BY <1>6, <3>1, OthersWait DEF Step, MintingPCs, At
  <2>3. CASE req[w].refresh = t
    <3>1. SS = S \cup {c} /\ RR = R \ {w} /\ w \in R
      BY <2>1, <2>2, <2>3 DEF Successors, Rotating, Presents
    <3> HIDE DEF S, R, SS, RR
    <3>2. IsFiniteSet(SS) /\ Cardinality(SS) \in Nat /\ Cardinality(SS) <= Cardinality(S) + 1
      <4>1. IsFiniteSet(S \cup {c}) /\ Cardinality(S \cup {c}) =
               IF c \in S THEN Cardinality(S) ELSE Cardinality(S) + 1
        BY <1>1, FS_AddElement, Zenon
      <4>2. QED
        BY <1>1, <3>1, <4>1
    <3>3. Cardinality(RR) = Cardinality(R) - 1
      BY <1>1, <3>1, FS_RemoveElement
    <3>4. IsFiniteSet(SS) /\ Cardinality(SS) + Cardinality(RR) <= Cardinality(Workers)
      BY <1>1, <1>2, <3>2, <3>3
    <3>5. QED
      BY <3>4 DEF Spread, SS, RR
  <2>4. CASE req[w].refresh # t
    <3>1. SS \subseteq S /\ RR \subseteq R
      BY <2>1, <2>2, <2>4 DEF Successors, Rotating, Presents
    <3> HIDE DEF S, R, SS, RR
    <3>2. /\ IsFiniteSet(SS) /\ Cardinality(SS) <= Cardinality(S) /\ Cardinality(SS) \in Nat
          /\ Cardinality(RR) <= Cardinality(R)
      BY <1>1, <3>1, FS_Subset, FS_CardinalityType
    <3>3. IsFiniteSet(SS) /\ Cardinality(SS) + Cardinality(RR) <= Cardinality(Workers)
      BY <1>1, <1>2, <3>2
    <3>4. QED
      BY <3>3 DEF Spread, SS, RR
  <2>5. QED
    BY <2>3, <2>4
<1>7. QED
  BY <1>5, <1>6, Writers

\* Concurrent rotations of one token give it as many successors as there are
\* requests in flight at most; a rotation that comes later finds it revoked.
THEOREM SuccessorsBoundedHolds ==
    ASSUME IsFiniteSet(Workers)
    PROVE  Spec => []SuccessorsBounded
<1>1. Init => TypeInv /\ RotationInv /\ \A t \in Tokens : Spread(t)
  <2>1. ASSUME Init, NEW t \in Tokens PROVE Spread(t)
    <3>1. Successors(t) = {} /\ Rotating(t) = {}
      BY <2>1, NoneIsNoId DEF Init, Successors, Rotating, Presents, NoRequest, MintingPCs
    <3>2. QED
      BY <3>1, FS_EmptySet, FS_CardinalityType DEF Spread
  <2>2. QED
    BY <2>1, ApartInit
<1>2. TypeInv /\ RotationInv /\ (\A t \in Tokens : Spread(t)) /\ [Next]_vars => (\A t \in Tokens : Spread(t))'
  BY SpreadStep
<1>3. (\A t \in Tokens : Spread(t)) => SuccessorsBounded
  <2>1. ASSUME NEW t \in Tokens, Spread(t) PROVE Cardinality(Successors(t)) <= Cardinality(Workers)
    BY <2>1, SizesAreNat, FS_CardinalityType DEF Spread
  <2>2. QED
    BY <2>1 DEF SuccessorsBounded
<1>4. QED
  BY <1>1, <1>2, <1>3, TypeStep, RotationStep, PTL DEF Spec
(***************************************************************************)
(* 3. Sign-out.  What revoke_session and logout_all have revoked comes     *)
(* back only through a request that was let in to issue for the same       *)
(* session or user, and has not done so.                                   *)
(***************************************************************************)
\* Each sign-out stays in its own handler.
OpInv == \A w \in Workers :
    /\ req[w].pc \in {"find_presented", "revoke_presented", "deactivate"} => req[w].op = "logout"
    /\ req[w].pc \in {"revoke_all", "deactivate_all"} => req[w].op = "logout_all"
    /\ req[w].pc \in {"get_session", "revoke_session", "revoke_tokens"} => req[w].op = "revoke_session"

\* What a sign-out that has revoked its tokens has still to find revoked when
\* it answers.
SignedOutInv == \A w \in Workers, t \in Tokens :
    /\ req[w].pc \in {"deactivate_all", "audit"} /\ req[w].op = "logout_all"
          => (token[t].user = req[w].user => ~Live(t))
    /\ At(w, "audit") /\ req[w].op = "revoke_session"
          => (token[t].session = req[w].session => ~Live(t))

\* How a request moves through its handler: one step, or none.
LEMMA HandlerMoves ==
    ASSUME TypeInv, [Next]_vars, NEW w \in Workers
    PROVE  req'[w] = req[w] \/ Arrive(w) \/ Step(w) \/ req'[w] = NoRequest
<1> USE DEF TypeInv, TypeOK
<1>1. CASE UNCHANGED vars
  BY <1>1 DEF vars
<1>2. ASSUME NEW v \in Workers, v # w, Arrive(v) \/ Step(v) \/ Crash(v) PROVE req'[w] = req[w]
  BY <1>2, OthersWait
<1>3. CASE Crash(w)
  BY <1>3 DEF Crash, Reply
<1>4. ASSUME \/ \E t \in Tokens : Expire(t)
             \/ \E u \in Users : DisableUser(u)
      PROVE  req'[w] = req[w]
  BY <1>4 DEF Expire, DisableUser
<1>5. QED
  BY <1>1, <1>2, <1>3, <1>4 DEF Next

\* Where a request arrives, and where an insert leaves it.
LEMMA ArriveAndIssue ==
    ASSUME TypeInv, NEW w \in Workers
    PROVE  /\ Arrive(w) => req'[w].pc \in {"find_user", "lookup", "authenticate"}
           /\ IssueTokens(w) => req'[w].pc = "update_last_login"
           /\ IssueSession(w) => req'[w].pc = "issue"
<1> USE DEF TypeInv, TypeOK
<1>0. req[w] \in Request /\ DOMAIN req = Workers
  OBVIOUS
<1>1. Arrive(w) => req'[w].pc \in {"find_user", "lookup", "authenticate"}
  BY DEF Arrive, ReceiveLogin, ReceiveRefresh, ReceiveLogout, ReceiveLogoutAll,
         ReceiveRevokeSession, Receive, NoRequest
<1>2. ASSUME IssueTokens(w) PROVE req'[w].pc = "update_last_login"
  BY <1>0, <1>2 DEF IssueTokens, Request
<1>3. ASSUME IssueSession(w) PROVE req'[w].pc = "issue"
  <2>1. PICK s \in Sessions : req' = [req EXCEPT ![w].session = s]
    BY <1>3 DEF IssueSession
  <2>2. req[w].pc = "issue"
    BY <1>3 DEF IssueSession, At
  <2>3. req'[w] = [req[w] EXCEPT !.session = s]
    BY <1>0, <2>1
  <2>4. QED
    BY <1>0, <2>2, <2>3 DEF Request
<1>4. QED
  BY <1>1, <1>2, <1>3

LEMMA OpStep == TypeInv /\ OpInv /\ [Next]_vars => OpInv'
<1> SUFFICES ASSUME TypeInv, OpInv, [Next]_vars, NEW w \in Workers
             PROVE  LET pc == req'[w].pc IN
                    /\ pc \in {"find_presented", "revoke_presented", "deactivate"} => req'[w].op = "logout"
                    /\ pc \in {"revoke_all", "deactivate_all"} => req'[w].op = "logout_all"
                    /\ pc \in {"get_session", "revoke_session", "revoke_tokens"}
                          => req'[w].op = "revoke_session"
  BY DEF OpInv
<1> USE DEF TypeInv, TypeOK, At, Goto, Reply
<1>0. req[w] \in Request /\ Sane(req[w])
  BY DEF RequestsSane
<1>1. CASE req'[w] = req[w]
  BY <1>1 DEF OpInv
<1>2. CASE req'[w] = NoRequest
  BY <1>2 DEF NoRequest
<1>3. CASE Arrive(w)
  BY <1>3, ArriveAndIssue
<1>4. CASE Step(w)
  <2>1. CASE CurrentUser(w)
    BY <1>0, <2>1 DEF CurrentUser, FirstStep, Request, Sane
  <2>2. CASE CurrentUserRefused(w) \/ LoginRefused(w) \/ LookupRejected(w) \/ RevokeExpired(w)
             \/ IssueReply(w) \/ SessionNotFound(w) \/ AuditReply(w)
    BY <2>2 DEF CurrentUserRefused, LoginRefused, LookupRejected, RevokeExpired, IssueReply,
                SessionNotFound, AuditReply, NoRequest
  <2>3. CASE LookupFound(w) \/ LoadUser(w) \/ LoginVerified(w) \/ RevokeOld(w)
    BY <1>0, <2>3 DEF LookupFound, LoadUser, LoginVerified, RevokeOld, NoRequest, Request
  <2>4. CASE IssueSession(w) \/ IssueTokens(w)
    BY <2>4, ArriveAndIssue
  <2>5. CASE LogoutLookup(w) \/ LogoutRevoke(w) \/ LogoutDeactivate(w)
    BY <1>0, <2>5 DEF LogoutLookup, LogoutRevoke, LogoutDeactivate, OpInv, Request
  <2>6. CASE LogoutAllRevoke(w) \/ LogoutAllDeactivate(w)
    BY <1>0, <2>6 DEF LogoutAllRevoke, LogoutAllDeactivate, OpInv, Request
  <2>7. CASE SessionFound(w) \/ RevokeSession(w) \/ RevokeSessionTokens(w)
    BY <1>0, <2>7 DEF SessionFound, RevokeSession, RevokeSessionTokens, OpInv, Request
  <2>8. QED
    BY <1>4, <2>1, <2>2, <2>3, <2>4, <2>5, <2>6, <2>7 DEF Step
<1>5. QED
  BY <1>1, <1>2, <1>3, <1>4, HandlerMoves

\* The ways to the end of a sign-out.
LEMMA SigningOutMoves ==
    ASSUME TypeInv, [Next]_vars, NEW w \in Workers, req'[w].pc \in {"deactivate_all", "audit"}
    PROVE  \/ req'[w] = req[w]
           \/ /\ \/ LogoutLookup(w) \/ LogoutDeactivate(w)
                 \/ LogoutAllRevoke(w) /\ req'[w].pc = "deactivate_all"
                 \/ LogoutAllDeactivate(w)
                 \/ RevokeSessionTokens(w)
              /\ req'[w].op = req[w].op /\ req'[w].user = req[w].user /\ req'[w].session = req[w].session
<1> USE DEF TypeInv, TypeOK, At, Goto, Reply
<1>0. req[w] \in Request /\ Sane(req[w])
  BY DEF RequestsSane
<1>1. ~Arrive(w) /\ req'[w] # NoRequest
  BY ArriveAndIssue DEF NoRequest
<1>2. CASE Step(w)
  <2>1. ~CurrentUser(w)
    BY <1>0 DEF CurrentUser, FirstStep, Request, Sane
  <2>2. ~(CurrentUserRefused(w) \/ LoginRefused(w) \/ LookupRejected(w) \/ RevokeExpired(w)
          \/ IssueReply(w) \/ SessionNotFound(w) \/ AuditReply(w))
    BY DEF CurrentUserRefused, LoginRefused, LookupRejected, RevokeExpired, IssueReply,
           SessionNotFound, AuditReply, NoRequest
  <2>3. ~(LookupFound(w) \/ LoadUser(w) \/ LoginVerified(w) \/ RevokeOld(w) \/ LogoutRevoke(w))
    BY <1>0 DEF LookupFound, LoadUser, LoginVerified, RevokeOld, LogoutRevoke, NoRequest, Request
  <2>4. ~(IssueSession(w) \/ IssueTokens(w))
    BY ArriveAndIssue
  <2>5. ~(SessionFound(w) \/ RevokeSession(w))
    BY <1>0 DEF SessionFound, RevokeSession, Request
  <2>6. CASE LogoutLookup(w)
    BY <1>0, <2>6 DEF LogoutLookup, Request
  <2>7. CASE LogoutDeactivate(w) \/ LogoutAllRevoke(w) \/ LogoutAllDeactivate(w) \/ RevokeSessionTokens(w)
    BY <1>0, <2>7 DEF LogoutDeactivate, LogoutAllRevoke, LogoutAllDeactivate,
                      RevokeSessionTokens, Request
  <2>8. QED
    BY <1>2, <2>1, <2>2, <2>3, <2>4, <2>5, <2>6, <2>7 DEF Step
<1>3. QED
  BY <1>1, <1>2, HandlerMoves

\* Request v is past its credential check or its lookup, and what it will
\* insert is of the user, or the session, that w has revoked and not answered.
InTheWay(v, w) ==
    /\ req[v].pc \in MintingPCs
    /\ \/ /\ req[w].op = "logout_all" /\ req[w].pc \in {"deactivate_all", "audit"}
          /\ req[v].user = req[w].user
       \/ /\ req[w].op = "revoke_session" /\ At(w, "audit")
          /\ req[v].session = req[w].session

\* No sign-out has anybody in its way.
Undisturbed == \A v, w \in Workers : ~InTheWay(v, w)

LEMMA SignedOutStep == TypeInv /\ OpInv /\ Undisturbed /\ SignedOutInv /\ [Next]_vars => SignedOutInv'
<1> SUFFICES ASSUME TypeInv, OpInv, Undisturbed, SignedOutInv, [Next]_vars,
                    NEW w \in Workers, NEW t \in Tokens, Live(t)', req'[w].pc \in {"deactivate_all", "audit"}
             PROVE  /\ req'[w].op = "logout_all" => token'[t].user # req'[w].user
                    /\ req'[w].pc = "audit" /\ req'[w].op = "revoke_session"
                          => token'[t].session # req'[w].session
  BY DEF SignedOutInv, At
<1> USE DEF TypeInv, TypeOK, TablesTypeOK
<1>0. req[w] \in Request /\ Sane(req[w])
  BY DEF RequestsSane
<1>1. ASSUME NEW v \in Workers, IssueTokens(v),
             token'[t] = [user |-> req[v].user, session |-> req[v].session, state |-> "live"]
      PROVE  /\ req'[w].op = "logout_all" => token'[t].user # req'[w].user
             /\ req'[w].pc = "audit" /\ req'[w].op = "revoke_session"
                   => token'[t].session # req'[w].session
  <2>1. v # w
    BY <1>1, ArriveAndIssue
  <2>2. req'[w] = req[w]
    BY <1>1, <2>1, OthersWait DEF Step
  <2>3. req[v].pc \in MintingPCs
    BY <1>1 DEF IssueTokens, At, MintingPCs
  <2>4. ~InTheWay(v, w)
    BY DEF Undisturbed
  <2>5. QED
    BY <1>1, <2>2, <2>3, <2>4 DEF InTheWay, At
<1>2. CASE Live(t) /\ token'[t] = token[t]
  <2>1. CASE req'[w] = req[w]
    BY <1>2, <2>1 DEF SignedOutInv, At
  <2>2. CASE (LogoutLookup(w) \/ LogoutDeactivate(w)) /\ req'[w].op = req[w].op
    BY <2>2 DEF LogoutLookup, LogoutDeactivate, OpInv, At
  <2>3. CASE LogoutAllRevoke(w) /\ req'[w].op = req[w].op /\ req'[w].user = req[w].user
             /\ req'[w].pc = "deactivate_all"
    <3>1. Revoke(TokensOf(req[w].user))
      BY <2>3 DEF LogoutAllRevoke, RevokeAllUserTokens
    <3>2. t \notin TokensOf(req[w].user)
      BY <1>2, <3>1, RevokeEffect DEF Live
    <3>3. QED
      BY <1>2, <2>3, <3>2 DEF TokensOf
  <2>4. CASE LogoutAllDeactivate(w) /\ req'[w].op = req[w].op /\ req'[w].user = req[w].user
    BY <1>2, <2>4 DEF LogoutAllDeactivate, SignedOutInv, OpInv, At
  <2>5. CASE RevokeSessionTokens(w) /\ req'[w].op = req[w].op /\ req'[w].session = req[w].session
    <3>1. Revoke(TokensIn(req[w].session)) /\ req[w].op = "revoke_session"
      BY <2>5 DEF RevokeSessionTokens, RevokeRefreshTokensBySession, OpInv, At
    <3>2. t \notin TokensIn(req[w].session)
      BY <1>2, <3>1, RevokeEffect DEF Live
    <3>3. QED
      BY <1>2, <2>5, <3>1, <3>2 DEF TokensIn
  <2>6. QED
    BY <2>1, <2>2, <2>3, <2>4, <2>5, SigningOutMoves
<1>3. QED
  BY <1>1, <1>2, TokensMoveForward DEF Live

\* Where requests start no sign-out is under way.
LEMMA SignOutInit == Init => OpInv /\ SignedOutInv
BY DEF Init, OpInv, SignedOutInv, NoRequest, At

\* When revoke_session or logout_all answers, nothing it was to sign out can
\* be refreshed, unless between its revocation and its answer a request was
\* about to issue for the same session or user.
THEOREM SignOutWhenUndisturbed == Spec /\ []Undisturbed => SignOutSticks
<1> DEFINE Sticks ==
        \A w \in Workers : AuditReply(w) =>
          \A t \in Tokens :
            \/ req[w].op = "revoke_session" /\ token[t].session = req[w].session
            \/ req[w].op = "logout_all" /\ token[t].user = req[w].user
            => ~Live(t)
<1>1. SignedOutInv => Sticks
  BY DEF SignedOutInv, AuditReply, At
<1>2. SignedOutInv /\ [Next]_vars => [Sticks]_vars
  BY <1>1
<1>3. QED
  BY <1>2, SignOutInit, SignedOutStep, TypeInit, TypeStep, OpStep, PTL DEF Spec, SignOutSticks

(***************************************************************************)
(* 4. A revoked session.  For revoke_session one instant decides: when its *)
(* UPDATE runs.  Nobody can be let into the session afterwards.            *)
(***************************************************************************)
\* The request keeps the session it was sent for.
LEMMA RevokerMoves ==
    ASSUME TypeInv, OpInv, [Next]_vars, NEW w \in Workers, req'[w].op = "revoke_session"
    PROVE  \/ req'[w] = req[w]
           \/ req'[w].session \in Sessions \ FreshSessions /\ req'[w].pc = "authenticate"
           \/ /\ req[w].op = "revoke_session" /\ req'[w].session = req[w].session
              /\ req'[w].pc = "audit" => RevokeSessionTokens(w)
<1> USE DEF TypeInv, TypeOK, At, Goto, Reply
<1>0. req[w] \in Request /\ Sane(req[w])
  BY DEF RequestsSane
<1>1. req'[w] # NoRequest
  BY DEF NoRequest
<1>2. CASE Arrive(w)
  BY <1>2 DEF Arrive, ReceiveLogin, ReceiveRefresh, ReceiveLogout, ReceiveLogoutAll,
              ReceiveRevokeSession, Receive, NoRequest
<1>3. CASE Step(w)
  <2>1. CASE CurrentUser(w) \/ SessionFound(w) \/ RevokeSession(w) \/ RevokeSessionTokens(w)
    BY <1>0, <2>1 DEF CurrentUser, FirstStep, SessionFound, RevokeSession, RevokeSessionTokens,
                      Request, Sane
  <2>2. ~(CurrentUserRefused(w) \/ LoginRefused(w) \/ LookupRejected(w) \/ RevokeExpired(w)
          \/ IssueReply(w) \/ SessionNotFound(w) \/ AuditReply(w))
    BY <1>1 DEF CurrentUserRefused, LoginRefused, LookupRejected, RevokeExpired, IssueReply,
                SessionNotFound, AuditReply
  <2>3. ~(LookupFound(w) \/ LoadUser(w) \/ LoginVerified(w) \/ RevokeOld(w))
    BY <1>0 DEF LookupFound, LoadUser, LoginVerified, RevokeOld, NoRequest, Request, Sane
  <2>4. ~IssueSession(w)
    BY <1>0 DEF IssueSession, Request, Sane
  <2>5. ~IssueTokens(w)
    <3>1. ASSUME IssueTokens(w) PROVE FALSE
      <4>1. req[w].op \in {"login", "refresh"}
        BY <1>0, <3>1 DEF IssueTokens, Sane
      <4>2. PICK t \in Tokens :
              req' = [req EXCEPT ![w].new = t, ![w].pc = "update_last_login",
                                 ![w].user = None, ![w].refresh = None, ![w].session = None]
        BY <3>1 DEF IssueTokens
      <4>3. req'[w] = [req[w] EXCEPT !.new = t, !.pc = "update_last_login",
                                     !.user = None, !.refresh = None, !.session = None]
        BY <4>2
      <4>4. req'[w].op = req[w].op
        BY <1>0, <4>3 DEF Request
      <4>5. QED
        BY <4>1, <4>4
    <3>2. QED
      BY <3>1
  <2>6. ~(LogoutLookup(w) \/ LogoutRevoke(w) \/ LogoutDeactivate(w)
          \/ LogoutAllRevoke(w) \/ LogoutAllDeactivate(w))
    BY <1>0 DEF LogoutLookup, LogoutRevoke, LogoutDeactivate, LogoutAllRevoke,
                LogoutAllDeactivate, OpInv, Request
  <2>7. QED
    BY <1>3, <2>1, <2>2, <2>3, <2>4, <2>5, <2>6 DEF Step
<1>4. QED
  BY <1>1, <1>2, <1>3, HandlerMoves

\* A session that is over: nothing live, nobody about to insert.
Over(s) ==
    /\ s \in Sessions \ FreshSessions
    /\ \A t \in Tokens : Live(t) => token[t].session # s
    /\ \A v \in Workers : ~Minting(v, s)

\* It stays over: a lookup needs a live token.
LEMMA OverLasts ==
    ASSUME TypeInv, OwnerInv, [Next]_vars, NEW s, Over(s)
    PROVE  Over(s)'
<1>1. s \in Sessions \ FreshSessions'
  BY SessionsMoveForward DEF Over, FreshSessions
<1>2. ASSUME NEW t \in Tokens, Live(t)' PROVE token'[t].session # s
  <2>1. CASE token'[t] = token[t]
    BY <1>2, <2>1 DEF Over, Live
  <2>2. CASE \E v \in Workers : IssueTokens(v) /\
                token'[t] = [user |-> req[v].user, session |-> req[v].session, state |-> "live"]
    <3>1. PICK v \in Workers : IssueTokens(v) /\ token'[t].session = req[v].session
      BY <2>2
    <3>2. Minting(v, req[v].session)
      BY <3>1 DEF Minting, IssueTokens, At
    <3>3. QED
      BY <3>1, <3>2 DEF Over
  <2>3. QED
    BY <1>2, <2>1, <2>2, TokensMoveForward DEF Live
<1>3. ASSUME NEW v \in Workers, Minting(v, s)' PROVE FALSE
  BY <1>1, <1>3, MintingKinds DEF Over
<1>4. QED
  BY <1>1, <1>2, <1>3 DEF Over

\* A session that revoke_session works on exists; once revoked it is over.
RevokedInv == \A w \in Workers : req[w].op = "revoke_session" =>
    /\ req[w].session \in Sessions \ FreshSessions
    /\ At(w, "audit") => Over(req[w].session)

\* When the UPDATE of revoke_session runs, nobody is about to insert into its
\* session.
RevokesAlone == \A v, w \in Workers : RevokeSessionTokens(w) => ~Minting(v, req[w].session)

LEMMA RevokedStep ==
    TypeInv /\ OwnerInv /\ OpInv /\ RevokedInv /\ [Next]_vars /\ [RevokesAlone]_vars => RevokedInv'
<1> SUFFICES ASSUME TypeInv, OwnerInv, OpInv, RevokedInv, [Next]_vars, [RevokesAlone]_vars,
                    NEW w \in Workers, req'[w].op = "revoke_session", NEW s, s = req'[w].session
             PROVE  /\ s \in Sessions \ FreshSessions'
                    /\ req'[w].pc = "audit" => Over(s)'
  <2>1. RevokedInv' <=> \A w \in Workers : req'[w].op = "revoke_session" =>
            /\ req'[w].session \in Sessions \ FreshSessions'
            /\ req'[w].pc = "audit" => /\ req'[w].session \in Sessions \ FreshSessions'
                                       /\ \A t \in Tokens : Live(t)' => token'[t].session # req'[w].session
                                       /\ \A v \in Workers : ~(/\ req'[v].session = req'[w].session
                                                               /\ req'[v].pc \in {"load_user", "revoke_old", "issue"})
    BY DEF RevokedInv, Over, At, Minting
  <2>2. \A s : Over(s)' <=> /\ s \in Sessions \ FreshSessions'
                            /\ \A t \in Tokens : Live(t)' => token'[t].session # s
                            /\ \A v \in Workers : ~(/\ req'[v].session = s
                                                    /\ req'[v].pc \in {"load_user", "revoke_old", "issue"})
    BY DEF Over, Minting
  <2>3. QED
    BY <2>1, <2>2
<1>1. \A r \in Sessions \ FreshSessions : r \in Sessions \ FreshSessions'
  BY SessionsMoveForward DEF FreshSessions
<1>2. CASE req'[w] = req[w]
  <2>1. s \in Sessions \ FreshSessions /\ (req'[w].pc = "audit" => Over(s))
    BY <1>2 DEF RevokedInv, At
  <2>2. QED
    BY <1>1, <2>1, OverLasts
<1>3. CASE req'[w].session \in Sessions \ FreshSessions /\ req'[w].pc = "authenticate"
  BY <1>1, <1>3
<1>4. CASE /\ req[w].op = "revoke_session" /\ req'[w].session = req[w].session
           /\ req'[w].pc = "audit" => RevokeSessionTokens(w)
  <2>1. s \in Sessions \ FreshSessions' /\ s = req[w].session
    BY <1>1, <1>4 DEF RevokedInv
  <2>2. ASSUME RevokeSessionTokens(w) PROVE Over(s)'
    <3>1. /\ Revoke(TokensIn(s)) /\ At(w, "revoke_tokens") /\ Goto(w, "audit")
      BY <2>1, <2>2 DEF RevokeSessionTokens, RevokeRefreshTokensBySession
    <3>2. \A t \in Tokens : Live(t)' => token'[t].session # s
      BY <3>1, RevokeEffect DEF TypeInv, TypeOK, TablesTypeOK, TokensIn, Live
    <3>3. req'[w].pc = "audit" /\ \A v \in Workers \ {w} : req'[v] = req[v]
      BY <3>1, GotoEffect DEF PCs
    <3>4. \A v \in Workers : ~Minting(v, s)
      <4>1. ~UNCHANGED vars
        BY <3>1, <3>3 DEF vars, At
      <4>2. QED
        BY <2>1, <2>2, <4>1 DEF RevokesAlone
    <3>5. ASSUME NEW v \in Workers, Minting(v, s)' PROVE FALSE
      BY <3>3, <3>4, <3>5 DEF Minting
    <3>6. QED
      BY <2>1, <3>2, <3>5 DEF Over
  <2>3. QED
    BY <1>4, <2>1, <2>2
<1>5. QED
  BY <1>2, <1>3, <1>4, RevokerMoves

\* A revoked device can mint no more tokens, as revoke_session's docstring
\* says, if no refresh of its session was past its lookup at the UPDATE: one
\* instant decides, not the whole handler, and also for later requests.
THEOREM RevokedSessionIsDeadWhenAlone ==
    Spec /\ [][RevokesAlone]_vars => RevokedSessionIsDead
<1> DEFINE Dead ==
        \A w \in Workers : AuditReply(w) /\ req[w].op = "revoke_session" =>
            \A t \in TokensIn(req[w].session) : ~Live(t)
<1>1. Init => OwnerInv /\ RevokedInv
  BY ApartInit DEF Init, RevokedInv, NoRequest
<1>2. RevokedInv => Dead
  BY DEF RevokedInv, Over, AuditReply, At, TokensIn
<1>3. RevokedInv /\ [Next]_vars => [Dead]_vars
  BY <1>2
<1>4. QED
  BY <1>1, <1>3, RevokedStep, SignOutInit, TypeInit, TypeStep, OwnerStep, OpStep, PTL
     DEF Spec, RevokedSessionIsDead
(***************************************************************************)
(* 5. What a sign-out reaches, step by step.  A session is over when the   *)
(* UPDATE of a sign-out finds nobody about to insert into it, and then for *)
(* good.                                                                   *)
(***************************************************************************)
\* The UPDATE of a sign-out that names session s, or its user.
Revokes(w, s) ==
    \/ RevokeSessionTokens(w) /\ req[w].session = s
    \/ LogoutAllRevoke(w) /\ session[s].user = req[w].user

\* Nothing brings a session back that is over: no lookup, no login, no insert.
THEOREM OverForGood == Spec => [][\A s \in Sessions : Over(s) => Over(s)']_vars
<1>1. Init => OwnerInv
  BY ApartInit
<1>2. TypeInv /\ OwnerInv /\ [Next]_vars => \A s \in Sessions : Over(s) => Over(s)'
  BY OverLasts
<1>3. QED
  BY <1>1, <1>2, TypeInit, TypeStep, OwnerStep, PTL DEF Spec

\* revoke_session ends its session and logout_all every session its user has,
\* by the one UPDATE of refresh_tokens, unless a request is about to insert.
THEOREM RevocationEndsSessions ==
    Spec => [][\A w \in Workers, s \in Sessions \ FreshSessions :
                 Revokes(w, s) /\ (\A v \in Workers : ~Minting(v, s)) => Over(s)']_vars
<1>1. Init => OwnerInv
  BY ApartInit
<1>2. ASSUME TypeInv, OwnerInv, [Next]_vars, NEW w \in Workers, NEW s \in Sessions \ FreshSessions,
             Revokes(w, s), \A v \in Workers : ~Minting(v, s)
      PROVE  Over(s)'
  <2> USE DEF TypeInv, TypeOK, TablesTypeOK
  <2>1. s \in Sessions \ FreshSessions'
    BY <1>2, SessionsMoveForward DEF FreshSessions
  <2>2. /\ req'[w].pc \notin MintingPCs
        /\ \A v \in Workers \ {w} : req'[v] = req[v]
    <3>1. Goto(w, "audit") \/ Goto(w, "deactivate_all")
      BY <1>2 DEF Revokes, RevokeSessionTokens, LogoutAllRevoke
    <3>2. QED
      BY <1>2, <3>1, GotoEffect DEF PCs, MintingPCs
  <2>3. PICK S : /\ Revoke(S)
                 /\ \A t \in Tokens : Live(t) /\ token[t].session = s => t \in S
    <3>1. CASE RevokeSessionTokens(w) /\ req[w].session = s
      BY <3>1 DEF RevokeSessionTokens, RevokeRefreshTokensBySession, TokensIn
    <3>2. CASE LogoutAllRevoke(w) /\ session[s].user = req[w].user
      <4>1. \A t \in Tokens : Live(t) => session[token[t].session].user = token[t].user
        BY <1>2 DEF OwnerInv, TokenSessionOwner, Live, FreshTokens
      <4>2. Revoke(TokensOf(req[w].user))
        BY <3>2 DEF LogoutAllRevoke, RevokeAllUserTokens
      <4>3. QED
        BY <3>2, <4>1, <4>2 DEF TokensOf
    <3>3. QED
      BY <1>2, <3>1, <3>2 DEF Revokes
  <2>4. \A t \in Tokens : Live(t)' => token'[t].session # s
    BY <1>2, <2>3, RevokeEffect DEF Live
  <2>5. ASSUME NEW v \in Workers, Minting(v, s)' PROVE FALSE
    BY <1>2, <2>2, <2>5 DEF Minting, MintingPCs
  <2>6. QED
    BY <2>1, <2>4, <2>5 DEF Over
<1>3. TypeInv /\ OwnerInv /\ [Next]_vars =>
        \A w \in Workers, s \in Sessions \ FreshSessions :
            Revokes(w, s) /\ (\A v \in Workers : ~Minting(v, s)) => Over(s)'
  BY <1>2
<1>4. QED
  BY <1>1, <1>3, TypeInit, TypeStep, OwnerStep, PTL DEF Spec

\* logout ends the session of the token it presents, if that token is still
\* live and nobody is rotating it: the session holds no other live token as
\* long as no two requests present the same one.
THEOREM LogoutEndsSession ==
    Spec /\ []Apart =>
      [][\A w \in Workers, s \in Sessions :
           /\ LogoutRevoke(w) /\ req[w].session = s /\ Live(req[w].refresh)
           /\ \A v \in Workers : ~Presents(v, req[w].refresh)
           => Over(s)']_vars
<1>1. Init => UsableInv
  BY DEF Init, UsableInv, ActiveSessionsUsable, EmptyTables, FreshTokens, NoRequest, MintingPCs, HoldingPCs, At
<1>2. ASSUME TypeInv, OwnerInv, UsableInv, ApartInv, [Next]_vars,
             NEW w \in Workers, NEW s \in Sessions,
             LogoutRevoke(w), req[w].session = s, Live(req[w].refresh),
             \A v \in Workers : ~Presents(v, req[w].refresh)
      PROVE  Over(s)'
  <2> USE DEF TypeInv, TypeOK, TablesTypeOK
  <2> DEFINE r == req[w].refresh
  <2>1. /\ At(w, "revoke_presented") /\ Revoke({r})
        /\ req' = [req EXCEPT ![w].pc = "deactivate", ![w].refresh = None]
    BY <1>2 DEF LogoutRevoke, RevokeRefreshToken
  <2>2. r \in Tokens /\ token[r].session = s
    BY <1>2, <2>1 DEF UsableInv, HoldingPCs, RequestsSane, Sane, At
  <2>3. req'[w].pc \notin MintingPCs /\ \A v \in Workers \ {w} : req'[v] = req[v]
    BY <1>2, <2>1 DEF MintingPCs, Request
  <2>4. s \notin FreshSessions
    BY <1>2, <2>2, InUseIsNotFresh
  <2>5. s \in Sessions \ FreshSessions'
    BY <1>2, <2>4, SessionsMoveForward DEF FreshSessions
  <2>6. \A t \in Tokens : Live(t)' => token'[t].session # s
    <3>1. \A t \in Tokens : Live(t) /\ token[t].session = s => t = r
      BY <1>2, <2>2 DEF ApartInv, OneLivePerSession
    <3>2. QED
      BY <1>2, <2>1, <3>1, RevokeEffect DEF Live
  <2>7. \A v \in Workers : ~Minting(v, s)
    BY <1>2, <2>2 DEF ApartInv
  <2>8. ASSUME NEW v \in Workers, Minting(v, s)' PROVE FALSE
    BY <2>3, <2>7, <2>8 DEF Minting, MintingPCs
  <2>9. QED
    BY <2>5, <2>6, <2>8 DEF Over
<1>3. TypeInv /\ OwnerInv /\ UsableInv /\ ApartInv /\ [Next]_vars =>
        \A w \in Workers, s \in Sessions :
           /\ LogoutRevoke(w) /\ req[w].session = s /\ Live(req[w].refresh)
           /\ \A v \in Workers : ~Presents(v, req[w].refresh)
           => Over(s)'
  BY <1>2
<1>4. QED
  BY <1>1, <1>3, ApartInit, ApartStep, TypeStep, RotationStep, OwnerStep, UsableStep, PTL DEF Spec

(***************************************************************************)
(* 6. What begins is not dropped.  SignOutCompletes and RotationDelivers   *)
(* say that something happens at last; these are the steps on the way: the *)
(* request stays where it is until it does it, or dies.                    *)
(***************************************************************************)
SigningOut(s) == \E w \in Workers : At(w, "revoke_tokens") /\ req[w].session = s
Issuing(s)    == \E w \in Workers : At(w, "issue") /\ req[w].session = s

\* A closed session waits for the UPDATE of its tokens: nothing but that
\* UPDATE, or a death, takes the request from there.
THEOREM SignOutIsNotDropped ==
    Spec => [][\A s \in Sessions : SigningOut(s) =>
                 SigningOut(s)' \/ (\A t \in Tokens : token[t].session = s => ~Live(t))' \/ (s \in torn)']_vars
<1>1. ASSUME TypeInv, [Next]_vars, NEW s \in Sessions, SigningOut(s)
      PROVE  SigningOut(s)' \/ (\A t \in Tokens : token[t].session = s => ~Live(t))' \/ (s \in torn)'
  <2> USE DEF TypeInv, TypeOK, TablesTypeOK
  <2>1. Excused(s)
    BY <1>1 DEF SigningOut, Excused
  <2>2. ASSUME NEW w \in Workers, RevokeSessionTokens(w), req[w].session = s
        PROVE  (\A t \in Tokens : token[t].session = s => ~Live(t))'
    <3>1. Revoke(TokensIn(s))
      BY <2>2 DEF RevokeSessionTokens, RevokeRefreshTokensBySession
    <3>2. QED
      BY <1>1, <3>1, RevokeEffect DEF TokensIn, Live
  <2>3. QED
    BY <1>1, <2>1, <2>2, ExcuseLasts DEF Excused, SigningOut
<1>2. TypeInv /\ [Next]_vars =>
        \A s \in Sessions : SigningOut(s) =>
            SigningOut(s)' \/ (\A t \in Tokens : token[t].session = s => ~Live(t))' \/ (s \in torn)'
  BY <1>1
<1>3. QED
  BY <1>2, TypeInit, TypeStep, PTL DEF Spec

\* A login or rotation that stands before its insert stays there until the
\* session has its live token: nothing another request does, a sign-out of
\* the session included, takes it away.
THEOREM RotationIsNotDropped ==
    Spec => [][\A s \in Sessions : Issuing(s) =>
                 Issuing(s)' \/ (\E t \in Tokens : token[t].session = s /\ Live(t))' \/ (s \in died)']_vars
<1>1. ASSUME TypeInv, [Next]_vars, NEW s \in Sessions, NEW w \in Workers, At(w, "issue"), req[w].session = s
      PROVE  Issuing(s)' \/ (\E t \in Tokens : token[t].session = s /\ Live(t))' \/ (s \in died)'
  <2> USE DEF TypeInv, TypeOK, TablesTypeOK
  <2>1. CASE req'[w] = req[w]
    BY <1>1, <2>1 DEF Issuing, At
  <2>2. CASE IssueTokens(w)
    BY <1>1, <2>2 DEF IssueTokens, CreateRefreshToken, Live
  <2>3. CASE Crash(w)
    BY <1>1, <2>3 DEF Crash, WorksOn, At
  <2>4. ~Arrive(w)
    BY <1>1 DEF At, Arrive, ReceiveLogin, ReceiveRefresh, ReceiveLogout, ReceiveLogoutAll,
                ReceiveRevokeSession, Receive
  <2>5. s # None
    BY NoneIsNoId
  <2>6. Step(w) => IssueTokens(w)
    BY <1>1, <2>5 DEF At, Step, CurrentUser, CurrentUserRefused, LoginVerified,
                LoginRefused, LookupFound, LookupRejected, RevokeExpired, LoadUser, RevokeOld,
                IssueSession, IssueReply, LogoutLookup, LogoutRevoke,
                LogoutDeactivate, LogoutAllRevoke, LogoutAllDeactivate, SessionFound,
                SessionNotFound, RevokeSession, RevokeSessionTokens, AuditReply
  <2>7. ASSUME NEW v \in Workers, Arrive(v) \/ Step(v) \/ Crash(v) PROVE v = w \/ req'[w] = req[w]
    BY <1>1, <2>7, OthersWait
  <2>8. QED
    BY <1>1, <2>1, <2>2, <2>3, <2>4, <2>6, <2>7 DEF Next, Expire, DisableUser, vars
<1>2. TypeInv /\ [Next]_vars =>
        \A s \in Sessions : Issuing(s) =>
            Issuing(s)' \/ (\E t \in Tokens : token[t].session = s /\ Live(t))' \/ (s \in died)'
  BY <1>1 DEF Issuing
<1>3. QED
  BY <1>2, TypeInit, TypeStep, PTL DEF Spec

(***************************************************************************)
(* 7. One request at a time: nobody is ever in anybody's way.              *)
(***************************************************************************)
\* As long as requests do not overlap, a refresh token is rotated once.
THEOREM SerialRotation ==
    ASSUME \A v, w \in Workers : v = w
    PROVE  Spec => []AtMostOneSuccessor
<1>1. Apart
  BY DEF Apart
<1>2. QED
  BY <1>1, SingleUseWhenApart, PTL

\* As long as requests do not overlap, a session has one live token at most.
THEOREM SerialOneLive ==
    ASSUME \A v, w \in Workers : v = w
    PROVE  Spec => []OneLivePerSession
<1>1. Apart
  BY DEF Apart
<1>2. QED
  BY <1>1, OneLiveWhenApart, PTL

\* As long as requests do not overlap, a sign-out that has answered has left
\* nothing that can be refreshed.
THEOREM SerialSignOut ==
    ASSUME \A v, w \in Workers : v = w
    PROVE  Spec => SignOutSticks
<1>1. TypeInv => Undisturbed
  BY DEF Undisturbed, InTheWay, MintingPCs, At
<1>2. QED
  BY <1>1, TypeInit, TypeStep, SignOutWhenUndisturbed, PTL DEF Spec
=============================================================================
