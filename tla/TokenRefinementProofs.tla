------------------------ MODULE TokenRefinementProofs ------------------------
(***************************************************************************)
(* TokenLifecycle implements SessionChain for any number of users,         *)
(* sessions, tokens and overlapping requests.                              *)
(*                                                                         *)
(* The step lemma goes by what a step does to the permits.  One that leaves*)
(* them alone can only end tokens (TablesMove); one that moves them is an  *)
(* admission, a beginning, a delivery or a request that gives up.          *)
(***************************************************************************)
EXTENDS TokenLifecycleProofs, TokenRefinement

\* A row that was never inserted has no session in it.
FreshRowsEmpty == \A t \in FreshTokens : token[t].session = None

\* A request that has still to create its session presented no token.
LoginsSpendNothing ==
    \A w \in Workers : At(w, "issue") /\ req[w].session = None => req[w].refresh = None

RefinementInv == TypeInv /\ RotationInv /\ FreshRowsEmpty /\ LoginsSpendNothing

\* Only a login comes to issue without a session.
LEMMA LoginsStep == TypeInv /\ LoginsSpendNothing /\ [Next]_vars => LoginsSpendNothing'
<1> SUFFICES ASSUME TypeInv, LoginsSpendNothing, [Next]_vars,
                    NEW w \in Workers, At(w, "issue")', req'[w].session = None
             PROVE  req'[w].refresh = None
  BY DEF LoginsSpendNothing
<1>1. req'[w].pc \in MintingPCs
  BY DEF At, MintingPCs
<1>2. ~(IssueSession(w) /\ req'[w].session \in FreshSessions)
  BY NoneIsNoId DEF FreshSessions
<1>3. ~(RevokeOld(w) /\ SameLocals(w))
  BY NoneIsNoId DEF RevokeOld, At, SameLocals, TypeInv, RequestsSane, Sane
<1>4. QED
  BY <1>1, <1>2, <1>3, MintingMoves DEF LoginsSpendNothing, At

\* Everything the mapping needs to know holds in every state.
LEMMA RefinementInvHolds == Spec => []RefinementInv
<1>1. Init => RefinementInv
  <2>1. Init => RotationInv
    BY DEF Init, RotationInv, RotationOrder, NoRequest, At
  <2>2. Init => FreshRowsEmpty
    BY DEF Init, EmptyTables, FreshRowsEmpty, FreshTokens
  <2>3. Init => LoginsSpendNothing
    BY DEF Init, LoginsSpendNothing, NoRequest, At
  <2>4. QED
    BY <2>1, <2>2, <2>3, TypeInit DEF RefinementInv
<1>2. RefinementInv /\ [Next]_vars => RefinementInv'
  <2>1. TypeInv /\ FreshRowsEmpty /\ [Next]_vars => FreshRowsEmpty'
    <3> SUFFICES ASSUME TypeInv, FreshRowsEmpty, [Next]_vars, NEW t \in FreshTokens'
                 PROVE  token'[t].session = None
      BY DEF FreshRowsEmpty
    <3>1. t \in Tokens /\ token'[t].state = "absent"
      BY DEF FreshTokens
    <3>2. token'[t] = token[t]
      <4>1. ASSUME NEW u, NEW r, token'[t] = [user |-> u, session |-> r, state |-> "live"]
            PROVE  FALSE
        BY <3>1, <4>1
      <4>2. token'[t].state # "revoked"
        BY <3>1
      <4>3. QED
        BY <3>1, <4>1, <4>2, TokensMoveForward
    <3>3. QED
      BY <3>1, <3>2 DEF FreshRowsEmpty, FreshTokens
  <2>2. QED
    BY <2>1, TypeStep, RotationStep, LoginsStep DEF RefinementInv
<1>3. QED
  BY <1>1, <1>2, PTL DEF Spec

-----------------------------------------------------------------------------
(* What a step does to the mapped variables. *)

\* Sessions only begin with IssueSession, tokens only with IssueTokens; any
\* other step at most ends tokens.
LEMMA TablesMove ==
    ASSUME TypeInv, [Next]_vars
    PROVE  /\ Begun' = Begun \/ \E w \in Workers : IssueSession(w)
           /\ \/ Of' = Of /\ Alive' \subseteq Alive
              \/ \E w \in Workers : IssueTokens(w)
<1>1. ASSUME ~(\E w \in Workers : IssueSession(w)) PROVE Begun' = Begun
  BY <1>1, SessionsMoveForward DEF Begun, FreshSessions
<1>2. ASSUME ~(\E w \in Workers : IssueTokens(w)) PROVE Of' = Of /\ Alive' \subseteq Alive
  BY <1>2, TokensMoveForward DEF Of, Alive, Live
<1>3. QED
  BY <1>1, <1>2

\* The permits of requests that do not move stay.
LEMMA PermitsMove ==
    ASSUME TypeInv, NEW w \in Workers, \A v \in Workers \ {w} : req'[v] = req[v]
    PROVE  Permits' = [Permits EXCEPT ![w] = PermitOf(w)']
BY DEF Permits, PermitOf, Holds

\* A step that leaves the permits alone and begins nothing ends tokens, or
\* is no step of the chain.
LEMMA EndingImplements ==
    ASSUME TypeInv, [Next]_vars, Permits' = Permits,
           ~(\E w \in Workers : IssueSession(w) \/ IssueTokens(w))
    PROVE  Chain!Next
<1>1. Begun' = Begun /\ Of' = Of /\ Alive' \subseteq Alive
  BY TablesMove
<1>2. Alive' = Alive \ (Alive \ Alive')
  BY <1>1
<1>3. Chain!End(Alive \ Alive')
  BY <1>1, <1>2 DEF Chain!End
<1>4. QED
  BY <1>3 DEF Chain!Next

-----------------------------------------------------------------------------
(* The steps that move a permit. *)

\* create_session begins a chain.
LEMMA BeginImplements ==
    ASSUME RefinementInv, [Next]_vars, NEW w \in Workers, IssueSession(w)
    PROVE  Chain!Next
<1> USE DEF RefinementInv, TypeInv, TypeOK, TablesTypeOK
<1>1. PICK s \in Sessions : CreateSession(s, req[w].user) /\ req' = [req EXCEPT ![w].session = s]
  BY DEF IssueSession
<1>2. At(w, "issue") /\ req[w].session = None /\ req[w].refresh = None /\ UNCHANGED token
  BY DEF IssueSession, LoginsSpendNothing
<1>3. s \notin Begun /\ Begun' = Begun \cup {s}
  BY <1>1 DEF CreateSession, Begun, FreshSessions
<1>4. Permits[w] = [session |-> None, spends |-> None]
  BY <1>2 DEF Permits, PermitOf, Holds
<1>5. PermitOf(w)' = [session |-> s, spends |-> None]
  BY <1>1, <1>2, NoneIsNoId DEF PermitOf, Holds, At, Request
<1>6. Permits' = [Permits EXCEPT ![w] = [session |-> s, spends |-> None]]
  BY <1>1, <1>5, PermitsMove
<1>7. Of' = Of /\ Alive' = Alive
  BY <1>2 DEF Of, Alive, Live
<1>8. Chain!Begin(w, s)
  BY <1>3, <1>4, <1>6, <1>7 DEF Chain!Begin, Chain!NoPermit
<1>9. QED
  BY <1>8 DEF Chain!Next

\* The lookup that finds a live token admits its request.
LEMMA AdmitImplements ==
    ASSUME RefinementInv, [Next]_vars, NEW w \in Workers, LookupFound(w), req'[w].pc = "load_user",
           req'[w].refresh = req[w].refresh, Found(req[w].refresh),
           req'[w].session = token[req[w].refresh].session
    PROVE  Chain!Next
<1> USE DEF RefinementInv, TypeInv, TypeOK, TablesTypeOK
<1> DEFINE t == req[w].refresh
<1>1. t \in Tokens /\ t \in Alive /\ token[t].session \in Sessions
  BY DEF Found, Request, Alive, Live, RowsFilled
<1>2. At(w, "lookup") /\ UNCHANGED <<token, session>>
  BY DEF LookupFound, tables
<1>3. Permits[w] = [session |-> None, spends |-> None]
  BY <1>2 DEF Permits, PermitOf, Holds, At
<1>4. PermitOf(w)' = [session |-> Of[t], spends |-> t]
  BY <1>1, NoneIsNoId DEF PermitOf, Holds, Of
<1>5. Permits' = [Permits EXCEPT ![w] = [session |-> Of[t], spends |-> t]]
  <2>1. \A v \in Workers \ {w} : req'[v] = req[v]
    BY OthersWait DEF Step
  <2>2. QED
    BY <1>4, <2>1, PermitsMove
<1>6. Of' = Of /\ Alive' = Alive /\ Begun' = Begun
  BY <1>2 DEF Of, Alive, Live, Begun, FreshSessions
<1>7. Chain!Admit(w, t)
  BY <1>1, <1>3, <1>5, <1>6 DEF Chain!Admit, Chain!NoPermit
<1>8. QED
  BY <1>1, <1>7 DEF Chain!Next

\* create_refresh_token uses the permit: the token it was given for is
\* revoked by then.
LEMMA DeliverImplements ==
    ASSUME RefinementInv, [Next]_vars, NEW w \in Workers, IssueTokens(w)
    PROVE  Chain!Next
<1> USE DEF RefinementInv, TypeInv, TypeOK, TablesTypeOK
<1>1. PICK t \in Tokens :
        /\ CreateRefreshToken(t, req[w].user, req[w].session)
        /\ req' = [req EXCEPT ![w].new = t, ![w].pc = "update_last_login",
                              ![w].user = None, ![w].refresh = None, ![w].session = None]
  BY DEF IssueTokens
<1>2. At(w, "issue") /\ req[w].session \in Sessions /\ UNCHANGED session
  BY DEF IssueTokens, Request
<1>3. Permits[w] = [session |-> req[w].session, spends |-> req[w].refresh]
  BY <1>2, NoneIsNoId DEF Permits, PermitOf, Holds, At
<1>4. Permits[w].spends \notin Alive
  BY <1>2, <1>3, NoneIsNoId DEF RotationInv, Alive, Live
<1>5. t \in FreshTokens /\ Of[t] = None
  BY <1>1 DEF CreateRefreshToken, FreshRowsEmpty, Of
<1>6. /\ Of' = [Of EXCEPT ![t] = Permits[w].session]
      /\ Alive' = Alive \cup {t}
      /\ Begun' = Begun
  <2>1. token' = [token EXCEPT ![t] = [user |-> req[w].user, session |-> req[w].session,
                                       state |-> "live"]]
    BY <1>1 DEF CreateRefreshToken
  <2>2. Of' = [Of EXCEPT ![t] = Permits[w].session]
    <3>1. \A u \in Tokens : token'[u].session = IF u = t THEN req[w].session ELSE token[u].session
      BY <2>1
    <3>2. Permits[w].session = req[w].session
      BY <1>3
    <3>3. QED
      BY <3>1, <3>2 DEF Of
  <2>3. Alive' = Alive \cup {t}
    BY <2>1 DEF Alive, Live
  <2>4. QED
    BY <1>2, <2>2, <2>3 DEF Begun, FreshSessions
<1>7. Permits' = [Permits EXCEPT ![w] = [session |-> None, spends |-> None]]
  <2>1. PermitOf(w)' = [session |-> None, spends |-> None]
    BY <1>1 DEF PermitOf, Holds, Request
  <2>2. QED
    BY <1>1, <2>1, PermitsMove
<1>8. Chain!Deliver(w, t)
  BY <1>2, <1>3, <1>4, <1>5, <1>6, <1>7, NoneIsNoId DEF Chain!Deliver, Chain!NoPermit
<1>9. QED
  BY <1>8 DEF Chain!Next

\* A request that loses its permit without using it has died, or was told
\* that its user is disabled.
LEMMA GiveUpImplements ==
    ASSUME RefinementInv, [Next]_vars, NEW w \in Workers, Step(w) \/ Crash(w),
           Holds(w), ~Holds(w)', ~IssueTokens(w)
    PROVE  Chain!Next
<1> USE DEF RefinementInv, TypeInv, TypeOK, TablesTypeOK
<1>1. LoadUser(w) \/ Crash(w)
  <2>1. req[w].pc \in {"load_user", "revoke_old", "issue"} /\ req[w].session # None
    BY DEF Holds
  <2>2. ~RevokeOld(w)
    BY GotoEffect DEF Holds, RevokeOld, PCs
  <2>3. ASSUME Step(w) PROVE LoadUser(w)
    BY <2>1, <2>2, <2>3 DEF Step, At, CurrentUser, CurrentUserRefused, LoginVerified,
           LoginRefused, LookupFound, LookupRejected, RevokeExpired, RevokeOld, IssueSession,
           IssueReply, LogoutLookup, LogoutRevoke, LogoutDeactivate, LogoutAllRevoke,
           LogoutAllDeactivate, SessionFound, SessionNotFound, RevokeSession,
           RevokeSessionTokens, AuditReply
  <2>4. QED
    BY <2>3
<1>2. UNCHANGED <<token, session>>
  BY <1>1 DEF LoadUser, Crash, tables
<1>3. Of' = Of /\ Alive' = Alive /\ Begun' = Begun
  BY <1>2 DEF Of, Alive, Live, Begun, FreshSessions
<1>4. Permits' = [Permits EXCEPT ![w] = [session |-> None, spends |-> None]]
  <2>1. PermitOf(w)' = [session |-> None, spends |-> None]
    BY DEF PermitOf
  <2>2. QED
    BY <2>1, OthersWait, PermitsMove
<1>5. Permits[w] # [session |-> None, spends |-> None]
  BY DEF Permits, PermitOf, Holds
<1>6. Chain!GiveUp(w)
  BY <1>3, <1>4, <1>5 DEF Chain!GiveUp, Chain!NoPermit
<1>7. QED
  BY <1>6 DEF Chain!Next

-----------------------------------------------------------------------------
(* The refinement. *)

\* A step of one request is a step of the chain, or none.
LEMMA RequestImplements ==
    ASSUME RefinementInv, [Next]_vars, NEW w \in Workers, Arrive(w) \/ Step(w) \/ Crash(w)
    PROVE  Chain!Next
<1> USE DEF RefinementInv
<1>1. CASE IssueSession(w)
  BY <1>1, BeginImplements
<1>2. CASE IssueTokens(w)
  BY <1>2, DeliverImplements
<1>3. CASE ~IssueSession(w) /\ ~IssueTokens(w) /\ Permits' = Permits
  <2>1. \A v \in Workers : ~IssueSession(v) /\ ~IssueTokens(v)
    <3> SUFFICES ASSUME NEW v \in Workers, IssueSession(v) \/ IssueTokens(v) PROVE v = w
      BY <1>3
    <3>1. CASE IssueSession(v)
      <4>1. PICK s \in Sessions : req' = [req EXCEPT ![v].session = s]
        BY <3>1 DEF IssueSession
      <4>2. req[v].session = None /\ s # None
        BY <3>1, NoneIsNoId DEF IssueSession
      <4>3. req'[v].session = s
        BY <4>1 DEF TypeInv, TypeOK, Request
      <4>4. QED
        BY <4>2, <4>3, OthersWait
    <3>2. CASE IssueTokens(v)
      <4>0. PICK t \in Tokens :
              req' = [req EXCEPT ![v].new = t, ![v].pc = "update_last_login",
                                 ![v].user = None, ![v].refresh = None, ![v].session = None]
        BY <3>2 DEF IssueTokens
      <4>1. req'[v] = [req[v] EXCEPT !.new = t, !.pc = "update_last_login",
                                     !.user = None, !.refresh = None, !.session = None]
        BY <4>0 DEF TypeInv, TypeOK
      <4>2. req[v] \in Request
        BY DEF TypeInv, TypeOK
      <4>3. req'[v].pc = "update_last_login"
        BY <4>1, <4>2 DEF Request
      <4>4. QED
        BY <3>2, <4>3, OthersWait DEF IssueTokens, At
    <3>3. QED
      BY <3>1, <3>2
  <2>2. QED
    BY <1>3, <2>1, EndingImplements
<1>4. CASE ~IssueSession(w) /\ ~IssueTokens(w) /\ Permits' # Permits
  <2>1. PermitOf(w)' # PermitOf(w)
    <3>1. Permits' = [Permits EXCEPT ![w] = PermitOf(w)']
      BY OthersWait, PermitsMove
    <3>2. QED
      BY <1>4, <3>1 DEF Permits
  <2>2. CASE Holds(w)'
    <3>1. req'[w].pc \in MintingPCs /\ req'[w].session # None
      BY <2>2 DEF Holds, MintingPCs
    <3>2. req'[w] # req[w]
      BY <2>1 DEF PermitOf, Holds
    <3>3. ~(LoadUser(w) \/ RevokeOld(w)) \/ ~SameLocals(w)
      BY <2>1, <2>2 DEF PermitOf, Holds, SameLocals, LoadUser, RevokeOld, At
    <3>4. LookupFound(w) /\ req'[w].pc = "load_user" /\ req'[w].refresh = req[w].refresh
          /\ Found(req[w].refresh) /\ req'[w].session = token[req[w].refresh].session
      BY <1>4, <3>1, <3>2, <3>3, MintingMoves
    <3>5. QED
      BY <3>4, AdmitImplements
  <2>3. CASE ~Holds(w)'
    <3>1. Holds(w)
      BY <2>1, <2>3 DEF PermitOf
    <3>2. ~Arrive(w)
      BY <3>1 DEF Holds, Arrive, ReceiveLogin, ReceiveRefresh, ReceiveLogout, ReceiveLogoutAll,
                  ReceiveRevokeSession, Receive, At
    <3>3. QED
      BY <1>4, <2>3, <3>1, <3>2, GiveUpImplements
  <2>4. QED
    BY <2>2, <2>3
<1>5. QED
  BY <1>1, <1>2, <1>3, <1>4

\* So is every step of the system.
LEMMA StepImplements == RefinementInv /\ [Next]_vars => [Chain!Next]_(Chain!vars)
<1> SUFFICES ASSUME RefinementInv, [Next]_vars PROVE Chain!Next \/ UNCHANGED Chain!vars
  OBVIOUS
<1>1. ASSUME NEW w \in Workers, Arrive(w) \/ Step(w) \/ Crash(w) PROVE Chain!Next
  BY <1>1, RequestImplements
<1>2. ASSUME UNCHANGED <<token, session, req>> PROVE UNCHANGED Chain!vars
  BY <1>2 DEF Chain!vars, Begun, FreshSessions, Of, Alive, Live, Permits, PermitOf, Holds
<1>3. CASE (\E t \in Tokens : Expire(t)) \/ (\E u \in Users : DisableUser(u)) \/ UNCHANGED vars
  <2>1. UNCHANGED <<token, session, req>>
    BY <1>3 DEF Expire, DisableUser, vars, tables
  <2>2. QED
    BY <1>2, <2>1
<1>4. QED
  BY <1>1, <1>3 DEF Next

\* TokenLifecycle implements the chain: with any number of overlapping
\* requests, dying anywhere, a token enters a session only on the strength of
\* one that was live when its request was let in and is revoked by now.
THEOREM ImplementsChainHolds == Spec => ImplementsChain
<1>1. Init => Chain!Init
  BY DEF Init, EmptyTables, NoRequest, Chain!Init, Chain!NoPermit, Begun, FreshSessions, Of, Alive,
         Live, Permits, PermitOf, Holds
<1>2. QED
  BY <1>1, RefinementInvHolds, StepImplements, PTL DEF Spec, ImplementsChain, Chain!Spec

\* In the chain, a session with no live token and no permit gets neither.
LEMMA ChainStaysDead ==
    ASSUME RefinementInv, Chain!Next, NEW s \in Sessions, Chain!Dead(s)
    PROVE  Chain!Dead(s)'
<1> USE NoneIsNoId DEF RefinementInv, TypeInv, TypeOK, TablesTypeOK
<1>0. /\ s \in Begun
      /\ \A t \in Alive : Of[t] # s
      /\ \A h \in Workers : Permits[h].session # s
  BY DEF Chain!Dead
<1>1. /\ Of \in [Tokens -> Sessions \cup {None}]
      /\ \A h \in Workers : Permits[h] = PermitOf(h) /\ DOMAIN Permits = Workers
      /\ Alive \subseteq Tokens
  BY DEF Of, Permits, Alive, TokenRow
<1>2. SUFFICES /\ s \in Begun'
               /\ \A t \in Alive' : Of'[t] # s
               /\ \A h \in Workers : Permits'[h].session # s
  BY DEF Chain!Dead
<1>3. ASSUME NEW h \in Workers, NEW r \in Sessions, Chain!Begin(h, r) PROVE s # r
  BY <1>0, <1>3 DEF Chain!Begin
<1>4. CASE \E h \in Workers, r \in Sessions : Chain!Begin(h, r)
  BY <1>0, <1>1, <1>3, <1>4 DEF Chain!Begin
<1>5. CASE \E h \in Workers, t \in Tokens : Chain!Admit(h, t)
  BY <1>0, <1>1, <1>5 DEF Chain!Admit
<1>6. CASE \E h \in Workers, t \in Tokens : Chain!Deliver(h, t)
  BY <1>0, <1>1, <1>6 DEF Chain!Deliver, Chain!NoPermit
<1>7. CASE \E h \in Workers : Chain!GiveUp(h)
  BY <1>0, <1>1, <1>7 DEF Chain!GiveUp, Chain!NoPermit
<1>8. CASE \E T \in SUBSET Alive : Chain!End(T)
  BY <1>0, <1>1, <1>8 DEF Chain!End
<1>9. QED
  BY <1>4, <1>5, <1>6, <1>7, <1>8 DEF Chain!Next

\* No refresh ever enters a session whose tokens are all revoked, unless its
\* request had been let in before that.
THEOREM DeadStaysDeadHolds == Spec => DeadStaysDead
<1>1. RefinementInv /\ [Next]_vars =>
        (\A s \in Sessions : Chain!Dead(s) => Chain!Dead(s)') \/ UNCHANGED Chain!vars
  BY StepImplements, ChainStaysDead
<1>2. QED
  BY <1>1, RefinementInvHolds, PTL DEF Spec, DeadStaysDead, Chain!DeadStaysDead
=============================================================================
