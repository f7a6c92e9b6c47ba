------------------------ MODULE TokenLifecycleProofs ------------------------
(***************************************************************************)
(* What TokenLifecycle guarantees for any number of users, sessions,       *)
(* tokens and concurrent requests.                                         *)
(***************************************************************************)
EXTENDS TokenLifecycle, TLAPS

(***************************************************************************)
(* 1. Types.  TypeOK alone is not inductive: a step stores a local of its  *)
(* request in a set of ids, so the local must not be None by then.         *)
(***************************************************************************)
Sane(r) ==
    /\ r \in Request
    /\ r.pc \in {"lookup", "load_user", "revoke_old", "revoke_expired", "revoke_presented"}
           => r.refresh \in Tokens
    /\ r.pc \in {"load_user", "revoke_old", "revoke_expired", "revoke_presented",
                 "deactivate", "get_session", "revoke_session", "revoke_tokens"}
           => r.session \in Sessions
    /\ r.pc \in {"find_user", "load_user", "revoke_old", "issue"} => r.user \in Users
    /\ r.pc = "find_user" => r.refresh = None /\ r.session = None
    /\ r.pc = "update_last_login" => r.new \in Tokens
    /\ r.pc \in {"find_user", "lookup", "load_user", "revoke_old", "issue"} => r.op \in {"login", "refresh"}
    /\ r.pc = "authenticate" => r.op \in {"logout", "logout_all", "revoke_session"}
    /\ r.op = "revoke_session" => r.session \in Sessions

RequestsSane == \A w \in Workers : Sane(req[w])

TypeInv == TypeOK /\ RequestsSane

\* What the UPDATE of refresh_tokens does to each row.
LEMMA RevokeEffect ==
    ASSUME TablesTypeOK, NEW S, Revoke(S)
    PROVE  /\ token' \in [Tokens -> TokenRow]
           /\ \A t \in Tokens :
                /\ token'[t].user = token[t].user
                /\ token'[t].session = token[t].session
                /\ token'[t].state = IF t \in S /\ Live(t) THEN "revoked" ELSE token[t].state
BY DEF Revoke, TablesTypeOK, TokenRow, Live

\* What the UPDATE of sessions does to each row.
LEMMA DeactivateEffect ==
    ASSUME TablesTypeOK, NEW S, Deactivate(S)
    PROVE  /\ session' \in [Sessions -> SessionRow]
           /\ \A s \in Sessions :
                /\ session'[s].user = session[s].user
                /\ session'[s].state = IF s \in S /\ session[s].state = "active"
                                       THEN "inactive" ELSE session[s].state
BY DEF Deactivate, TablesTypeOK, SessionRow

\* A step that moves one request and nothing else keeps the requests sane.
LEMMA OneRequestMoves ==
    ASSUME TypeInv, NEW w \in Workers, NEW r, Sane(r), req' = [req EXCEPT ![w] = r]
    PROVE  req' \in [Workers -> Request] /\ RequestsSane'
BY DEF TypeInv, TypeOK, RequestsSane, Sane

\* Moving on keeps every local.
LEMMA GotoEffect ==
    ASSUME TypeInv, NEW w \in Workers, NEW pc \in PCs, Goto(w, pc)
    PROVE  /\ req' \in [Workers -> Request]
           /\ \A v \in Workers \ {w} : req'[v] = req[v]
           /\ req'[w].pc = pc
           /\ req'[w].op = req[w].op /\ req'[w].user = req[w].user
           /\ req'[w].refresh = req[w].refresh /\ req'[w].session = req[w].session
           /\ req'[w].new = req[w].new
BY DEF TypeInv, TypeOK, Goto, Request

\* Answering frees the worker.
LEMMA ReplyEffect ==
    ASSUME TypeInv, NEW w \in Workers, Reply(w)
    PROVE  /\ req' \in [Workers -> Request]
           /\ \A v \in Workers \ {w} : req'[v] = req[v]
           /\ req'[w] = NoRequest
           /\ RequestsSane'
BY DEF TypeInv, TypeOK, RequestsSane, Sane, Reply, Request, NoRequest, PCs, Ops

\* The initial state is well typed.
LEMMA TypeInit == Init => TypeInv
BY DEF Init, TypeInv, TypeOK, RequestsSane, Sane, RowsFilled, TablesTypeOK, EmptyTables,
       NoRequest, Request, Ops, PCs, SessionRow, TokenRow

\* A request that is moved by Goto stays sane when its next step may run with
\* the locals it has.
LEMMA GotoSane ==
    ASSUME TypeInv, NEW w \in Workers, NEW pc \in PCs, Goto(w, pc),
           Sane([req[w] EXCEPT !.pc = pc])
    PROVE  req' \in [Workers -> Request] /\ RequestsSane'
BY OneRequestMoves DEF Goto, TypeInv, TypeOK

\* Every step keeps the types.
LEMMA TypeStep == TypeInv /\ [Next]_vars => TypeInv'
<1> SUFFICES ASSUME TypeInv, [Next]_vars PROVE TypeInv'
  OBVIOUS
<1> USE DEF TypeInv, TypeOK, At
<1>1. CASE UNCHANGED vars
  BY <1>1 DEF vars, RequestsSane, Sane, RowsFilled, TablesTypeOK
<1>2. ASSUME NEW w \in Workers, Arrive(w) PROVE TypeInv'
  <2>1. ASSUME NEW r, Sane(r), Receive(w, r) PROVE TypeInv'
    BY <2>1, OneRequestMoves DEF Receive, tables, history, RowsFilled, TablesTypeOK
  <2>2. \A u \in Bearers : u \in Users \cup {None}
    BY DEF Bearers, TablesTypeOK, TokenRow
  <2>3. CASE ReceiveLogin(w)
    BY <2>1, <2>3 DEF ReceiveLogin, Sane, Request, NoRequest, Ops, PCs
  <2>4. CASE ReceiveRefresh(w)
    BY <2>1, <2>4 DEF ReceiveRefresh, Sane, Request, NoRequest, Ops, PCs
  <2>5. CASE ReceiveLogout(w)
    BY <2>1, <2>2, <2>5 DEF ReceiveLogout, Sane, Request, NoRequest, Ops, PCs
  <2>6. CASE ReceiveLogoutAll(w)
    BY <2>1, <2>2, <2>6 DEF ReceiveLogoutAll, Sane, Request, NoRequest, Ops, PCs
  <2>7. CASE ReceiveRevokeSession(w)
    BY <2>1, <2>2, <2>7 DEF ReceiveRevokeSession, Sane, Request, NoRequest, Ops, PCs
  <2>8. QED
    BY <1>2, <2>3, <2>4, <2>5, <2>6, <2>7 DEF Arrive
<1>3. ASSUME NEW w \in Workers, Step(w) PROVE TypeInv'
  <2> Sane(req[w])
    BY DEF RequestsSane
  <2> USE DEF tables, history
  <2>1. ASSUME NEW pc \in PCs, Goto(w, pc), Sane([req[w] EXCEPT !.pc = pc]), UNCHANGED <<tables, expired, held, history>>
        PROVE  TypeInv'
    BY <2>1, GotoSane DEF RowsFilled, TablesTypeOK
  <2>2. ASSUME Reply(w), UNCHANGED <<tables, expired, held, history>> PROVE TypeInv'
    BY <2>2, ReplyEffect DEF RowsFilled, TablesTypeOK
  <2>3. ASSUME NEW S, Revoke(S), UNCHANGED <<session, activeUsers>>
        PROVE  TablesTypeOK' /\ RowsFilled'
    <3>1. /\ token' \in [Tokens -> TokenRow]
          /\ \A t \in Tokens :
                /\ token'[t].user = token[t].user
                /\ token'[t].session = token[t].session
                /\ token'[t].state # "absent" => token[t].state # "absent"
      BY <2>3, RevokeEffect DEF Live
    <3>2. QED
      BY <2>3, <3>1 DEF RowsFilled, TablesTypeOK
  <2>4. ASSUME NEW S, Deactivate(S), UNCHANGED <<token, activeUsers>>
        PROVE  TablesTypeOK' /\ RowsFilled'
    BY <2>4, DeactivateEffect DEF RowsFilled, TablesTypeOK
  <2>5. CASE CurrentUser(w)
    BY <2>1, <2>5 DEF CurrentUser, FirstStep, Sane, Request, PCs, Ops, TablesTypeOK
  <2>6. CASE LoginVerified(w)
    <3>1. At(w, "find_user") /\ Goto(w, "issue") /\ UNCHANGED <<tables, expired, held, history>>
      BY <2>6 DEF LoginVerified
    <3>2. Sane([req[w] EXCEPT !.pc = "issue"])
      BY <3>1 DEF Sane, Request, PCs
    <3>3. QED
      BY <2>1, <3>1, <3>2 DEF PCs
  <2>7. CASE CurrentUserRefused(w) \/ LoginRefused(w) \/ LookupRejected(w) \/ SessionNotFound(w) \/ AuditReply(w)
    BY <2>2, <2>7 DEF CurrentUserRefused, LoginRefused, LookupRejected, SessionNotFound, AuditReply
  <2>8. CASE LookupFound(w)
    <3> DEFINE t == req[w].refresh
               r == [req[w] EXCEPT !.pc = IF t \in expired THEN "revoke_expired" ELSE "load_user",
                                   !.user = token[t].user, !.session = token[t].session]
    <3>1. t \in Tokens /\ token[t].user \in Users /\ token[t].session \in Sessions
      BY <2>8 DEF LookupFound, Sane, Found, Live, RowsFilled
    <3>2. Sane(r)
      BY <2>8, <3>1 DEF LookupFound, Sane, Request, PCs, Ops
    <3>3. req' = [req EXCEPT ![w] = r]
      BY <2>8 DEF LookupFound, Request
    <3>4. QED
      BY <2>8, <3>2, <3>3, OneRequestMoves DEF LookupFound, RowsFilled, TablesTypeOK
  <2>9. CASE RevokeExpired(w)
    BY <2>9, <2>3, ReplyEffect DEF RevokeExpired, RevokeRefreshToken
  <2>10. CASE LoadUser(w)
    <3>1. At(w, "load_user") /\ UNCHANGED <<tables, expired, held, history>>
      BY <2>10 DEF LoadUser
    <3>2. Sane([req[w] EXCEPT !.pc = "revoke_old"])
      BY <3>1 DEF Sane, Request, PCs
    <3>3. CASE Goto(w, "revoke_old")
      BY <2>1, <3>1, <3>2, <3>3 DEF PCs
    <3>4. CASE Reply(w)
      BY <2>2, <3>1, <3>4
    <3>5. QED
      BY <2>10, <3>3, <3>4 DEF LoadUser
  <2>11. CASE RevokeOld(w)
    <3>1. Sane([req[w] EXCEPT !.pc = "issue"])
      BY <2>11 DEF RevokeOld, Sane, Request, PCs, Ops
    <3>2. QED
      BY <2>11, <3>1, <2>3, GotoSane DEF RevokeOld, RevokeRefreshToken, PCs
  <2>12. CASE IssueSession(w)
    <3>1. PICK s \in Sessions : CreateSession(s, req[w].user) /\ req' = [req EXCEPT ![w].session = s]
      BY <2>12 DEF IssueSession
    <3>2. Sane([req[w] EXCEPT !.session = s])
      BY <2>12 DEF IssueSession, Sane, Request, PCs, Ops
    <3>3. session' \in [Sessions -> SessionRow]
      BY <2>12, <3>1 DEF IssueSession, CreateSession, Sane, SessionRow, TablesTypeOK
    <3>4. req' = [req EXCEPT ![w] = [req[w] EXCEPT !.session = s]]
      BY <3>1
    <3>5. QED
      BY <2>12, <3>2, <3>3, <3>4, OneRequestMoves DEF IssueSession, RowsFilled, TablesTypeOK
  <2>13. CASE IssueTokens(w)
    <3>1. PICK t \in Tokens :
            /\ CreateRefreshToken(t, req[w].user, req[w].session)
            /\ parent' = [parent EXCEPT ![t] = req[w].refresh]
            /\ req' = [req EXCEPT ![w].new = t, ![w].pc = "update_last_login",
                                  ![w].user = None, ![w].refresh = None, ![w].session = None]
      BY <2>13 DEF IssueTokens
    <3> DEFINE r == [req[w] EXCEPT !.new = t, !.pc = "update_last_login", !.user = None,
                                   !.refresh = None, !.session = None]
    <3>2. /\ req[w].user \in Users /\ req[w].session \in Sessions
          /\ req[w].refresh \in Tokens \cup {None} /\ req[w].op # "revoke_session"
      BY <2>13 DEF IssueTokens, Sane, Request, Ops
    <3>3. Sane(r)
      <4>1. /\ r \in Request
            /\ r.pc = "update_last_login" /\ r.new = t /\ r.op = req[w].op
        BY <3>2 DEF Sane, Request, PCs
      <4>2. QED
        BY <3>2, <4>1 DEF Sane
    <3>4. req' = [req EXCEPT ![w] = r]
      BY <3>1
    <3>5. token' \in [Tokens -> TokenRow] /\ RowsFilled'
      BY <3>1, <3>2 DEF CreateRefreshToken, TokenRow, TablesTypeOK, RowsFilled
    <3>6. QED
      BY <2>13, <3>1, <3>2, <3>3, <3>4, <3>5, OneRequestMoves DEF IssueTokens, TablesTypeOK
  <2>14. CASE IssueReply(w)
    BY <2>14, ReplyEffect DEF IssueReply, Sane, RowsFilled, TablesTypeOK
  <2>15. CASE LogoutLookup(w)
    <3> DEFINE t == req[w].refresh
               r == [req[w] EXCEPT !.pc = "revoke_presented", !.session = token[t].session]
    <3>1. CASE Found(t)
      <4>1. t \in Tokens /\ token[t].session \in Sessions
        BY <2>15, <3>1 DEF LogoutLookup, Sane, Request, Found, Live, RowsFilled
      <4>2. Sane(r)
        BY <2>15, <4>1 DEF LogoutLookup, Sane, Request, PCs, Ops
      <4>3. req' = [req EXCEPT ![w] = r]
        BY <2>15, <3>1 DEF LogoutLookup
      <4>4. QED
        BY <2>15, <4>2, <4>3, OneRequestMoves DEF LogoutLookup, RowsFilled, TablesTypeOK
    <3>2. CASE ~Found(t)
      <4>1. Goto(w, "audit") /\ UNCHANGED <<tables, expired, held, history>>
        BY <2>15, <3>2 DEF LogoutLookup
      <4>2. Sane([req[w] EXCEPT !.pc = "audit"])
        BY DEF Sane, Request, PCs
      <4>3. QED
        BY <2>1, <4>1, <4>2 DEF PCs
    <3>3. QED
      BY <3>1, <3>2
  <2>16. CASE LogoutRevoke(w)
    <3> DEFINE r == [req[w] EXCEPT !.pc = "deactivate", !.refresh = None]
    <3>1. Sane(r)
      BY <2>16 DEF LogoutRevoke, Sane, Request, PCs, Ops
    <3>2. req' = [req EXCEPT ![w] = r]
      BY <2>16 DEF LogoutRevoke
    <3>3. QED
      BY <2>16, <3>1, <3>2, <2>3, OneRequestMoves DEF LogoutRevoke, RevokeRefreshToken
  <2>17. CASE LogoutDeactivate(w)
    <3>1. Sane([req[w] EXCEPT !.pc = "audit"]) /\ req[w].session \in Sessions
      BY <2>17 DEF LogoutDeactivate, Sane, Request, PCs, Ops
    <3>2. ClosedOver({req[w].session}) \subseteq Sessions
      BY <3>1 DEF ClosedOver
    <3>3. QED
      BY <2>17, <3>1, <3>2, <2>4, GotoSane DEF LogoutDeactivate, DeactivateSession, PCs
  <2>18. CASE LogoutAllRevoke(w)
    <3>1. Sane([req[w] EXCEPT !.pc = "deactivate_all"])
      BY <2>18 DEF LogoutAllRevoke, Sane, Request, PCs, Ops
    <3>2. QED
      BY <2>18, <3>1, <2>3, GotoSane DEF LogoutAllRevoke, RevokeAllUserTokens, PCs
  <2>19. CASE LogoutAllDeactivate(w)
    <3>1. Sane([req[w] EXCEPT !.pc = "audit"])
      BY <2>19 DEF LogoutAllDeactivate, Sane, Request, PCs, Ops
    <3>2. ClosedOver(SessionsOf(req[w].user)) \subseteq Sessions
      BY DEF ClosedOver, SessionsOf
    <3>3. QED
      BY <2>19, <3>1, <3>2, <2>4, GotoSane DEF LogoutAllDeactivate, DeactivateAllUserSessions, PCs
  <2>20. CASE SessionFound(w)
    <3>1. At(w, "get_session") /\ Goto(w, "revoke_session") /\ UNCHANGED <<tables, expired, held, history>>
      BY <2>20 DEF SessionFound
    <3>2. Sane([req[w] EXCEPT !.pc = "revoke_session"])
      BY <3>1 DEF Sane, Request, PCs
    <3>3. QED
      BY <2>1, <3>1, <3>2 DEF PCs
  <2>21. CASE RevokeSession(w)
    <3>1. Sane([req[w] EXCEPT !.pc = "revoke_tokens"])
      BY <2>21 DEF RevokeSession, Sane, Request, PCs, Ops
    <3>2. QED
      BY <2>21, <3>1, <2>4, GotoSane DEF RevokeSession, DeactivateSession, PCs
  <2>22. CASE RevokeSessionTokens(w)
    <3>1. Sane([req[w] EXCEPT !.pc = "audit"]) /\ req[w].session \in Sessions
      BY <2>22 DEF RevokeSessionTokens, Sane, Request, PCs, Ops
    <3>2. QED
      BY <2>22, <3>1, <2>3, GotoSane DEF RevokeSessionTokens, RevokeRefreshTokensBySession, PCs
  <2>23. QED
    BY <1>3, <2>5, <2>6, <2>7, <2>8, <2>9, <2>10, <2>11, <2>12, <2>13, <2>14, <2>15, <2>16,
       <2>17, <2>18, <2>19, <2>20, <2>21, <2>22 DEF Step
<1>4. ASSUME NEW w \in Workers, Crash(w) PROVE TypeInv'
  <2>1. At(w, "revoke_tokens") => req[w].session \in Sessions
    BY DEF RequestsSane, Sane
  <2>2. QED
    BY <1>4, <2>1, ReplyEffect DEF Crash, tables, RowsFilled, TablesTypeOK
<1>5. ASSUME NEW t \in Tokens, Expire(t) PROVE TypeInv'
  BY <1>5 DEF Expire, tables, history, RequestsSane, Sane, RowsFilled, TablesTypeOK
<1>6. ASSUME NEW u \in Users, DisableUser(u) PROVE TypeInv'
  BY <1>6 DEF DisableUser, history, RequestsSane, Sane, RowsFilled, TablesTypeOK
<1>7. QED
  BY <1>1, <1>2, <1>3, <1>4, <1>5, <1>6 DEF Next

\* Every variable keeps its type, for any number of ids and of concurrent
\* requests: no statement stores a NULL where a row must name its owner.
THEOREM TypeCorrect == Spec => []TypeOK
<1>1. TypeInv => TypeOK
  BY DEF TypeInv
<1>2. QED
  BY <1>1, TypeInit, TypeStep, PTL DEF Spec

(***************************************************************************)
(* 2. Who writes what.  These lemmas say once which steps touch a table,   *)
(* so that the invariants below are argued on those steps only.            *)
(***************************************************************************)
RevokeStep(w) == RevokeExpired(w) \/ RevokeOld(w) \/ LogoutRevoke(w)
                 \/ LogoutAllRevoke(w) \/ RevokeSessionTokens(w)
CloseStep(w)  == LogoutDeactivate(w) \/ LogoutAllDeactivate(w) \/ RevokeSession(w)

\* The steps that write refresh_tokens, sessions and the history.
LEMMA Writers ==
    ASSUME [Next]_vars
    PROVE  /\ UNCHANGED <<token, parent>> \/ \E w \in Workers : RevokeStep(w) \/ IssueTokens(w)
           /\ UNCHANGED session \/ \E w \in Workers : CloseStep(w) \/ IssueSession(w)
           /\ UNCHANGED parent \/ \E w \in Workers : IssueTokens(w)
<1> USE DEF tables, history
<1>1. CASE UNCHANGED vars
  BY <1>1 DEF vars
<1>2. ASSUME NEW w \in Workers, Arrive(w) PROVE UNCHANGED <<token, session, parent>>
  BY <1>2 DEF Arrive, ReceiveLogin, ReceiveRefresh, ReceiveLogout, ReceiveLogoutAll,
              ReceiveRevokeSession, Receive
<1>3. ASSUME NEW w \in Workers, Step(w)
      PROVE  /\ UNCHANGED <<token, parent>> \/ RevokeStep(w) \/ IssueTokens(w)
             /\ UNCHANGED session \/ CloseStep(w) \/ IssueSession(w)
             /\ UNCHANGED parent \/ IssueTokens(w)
  BY <1>3 DEF Step, RevokeStep, CloseStep, CurrentUser, CurrentUserRefused, LoginVerified,
              LoginRefused, LookupFound, LookupRejected, RevokeExpired, LoadUser, RevokeOld,
              IssueSession, IssueTokens, IssueReply, LogoutLookup, LogoutRevoke,
              LogoutDeactivate, LogoutAllRevoke, LogoutAllDeactivate, SessionFound,
              SessionNotFound, RevokeSession, RevokeSessionTokens, AuditReply
<1>4. ASSUME NEW w \in Workers, Crash(w) PROVE UNCHANGED <<token, session, parent>>
  BY <1>4 DEF Crash
<1>5. ASSUME NEW t \in Tokens, Expire(t) PROVE UNCHANGED <<token, session, parent>>
  BY <1>5 DEF Expire
<1>6. ASSUME NEW u \in Users, DisableUser(u) PROVE UNCHANGED <<token, session, parent>>
  BY <1>6 DEF DisableUser
<1>7. QED
  BY <1>1, <1>2, <1>3, <1>4, <1>5, <1>6 DEF Next

\* A refresh_tokens row is inserted live, may become revoked, and that is all.
LEMMA TokensMoveForward ==
    ASSUME TypeInv, [Next]_vars, NEW t \in Tokens
    PROVE  \/ token'[t] = token[t]
           \/ /\ Live(t) /\ token'[t].state = "revoked"
              /\ token'[t].user = token[t].user /\ token'[t].session = token[t].session
           \/ /\ t \in FreshTokens
              /\ \E w \in Workers :
                    /\ IssueTokens(w)
                    /\ token'[t] = [user |-> req[w].user, session |-> req[w].session, state |-> "live"]
                    /\ parent'[t] = req[w].refresh
<1> USE DEF TypeInv, TypeOK, TablesTypeOK
<1>1. CASE UNCHANGED token
  BY <1>1
<1>2. ASSUME NEW w \in Workers, RevokeStep(w)
      PROVE  \/ token'[t] = token[t]
             \/ /\ Live(t) /\ token'[t].state = "revoked"
                /\ token'[t].user = token[t].user /\ token'[t].session = token[t].session
  <2>1. PICK S : Revoke(S)
    BY <1>2 DEF RevokeStep, RevokeExpired, RevokeOld, LogoutRevoke, LogoutAllRevoke,
                RevokeSessionTokens, RevokeRefreshToken, RevokeAllUserTokens,
                RevokeRefreshTokensBySession
  <2>2. QED
    BY <2>1 DEF Revoke, TokenRow
<1>3. ASSUME NEW w \in Workers, IssueTokens(w)
      PROVE  \/ token'[t] = token[t]
             \/ /\ t \in FreshTokens
                /\ token'[t] = [user |-> req[w].user, session |-> req[w].session, state |-> "live"]
                /\ parent'[t] = req[w].refresh
  BY <1>3 DEF IssueTokens, CreateRefreshToken
<1>4. QED
  BY <1>1, <1>2, <1>3, Writers

\* A sessions row is inserted active, may become inactive, and that is all.
LEMMA SessionsMoveForward ==
    ASSUME TypeInv, [Next]_vars, NEW s \in Sessions
    PROVE  \/ session'[s] = session[s]
           \/ /\ session[s].state = "active" /\ session'[s].state = "inactive"
              /\ session'[s].user = session[s].user
           \/ /\ s \in FreshSessions
              /\ session'[s].state = "active"
              /\ \E w \in Workers : IssueSession(w) /\ session'[s] = [user |-> req[w].user, state |-> "active"]
<1> USE DEF TypeInv, TypeOK, TablesTypeOK
<1>1. CASE UNCHANGED session
  BY <1>1
<1>2. ASSUME NEW w \in Workers, CloseStep(w)
      PROVE  \/ session'[s] = session[s]
             \/ /\ session[s].state = "active" /\ session'[s].state = "inactive"
                /\ session'[s].user = session[s].user
  <2>1. PICK S : Deactivate(S)
    BY <1>2 DEF CloseStep, LogoutDeactivate, LogoutAllDeactivate, RevokeSession,
                DeactivateSession, DeactivateAllUserSessions
  <2>2. QED
    BY <2>1 DEF Deactivate, SessionRow
<1>3. ASSUME NEW w \in Workers, IssueSession(w)
      PROVE  \/ session'[s] = session[s]
             \/ /\ s \in FreshSessions /\ session'[s].state = "active"
                /\ session'[s] = [user |-> req[w].user, state |-> "active"]
  BY <1>3 DEF IssueSession, CreateSession
<1>4. QED
  BY <1>1, <1>2, <1>3, Writers

\* Rows are marked and never unmarked: no interleaving and no crash brings a
\* used or signed-out refresh token, or a closed session, back.
THEOREM RevocationIsFinalHolds == Spec => RevocationIsFinal
<1>1. TypeInv /\ [Next]_vars =>
        /\ \A t \in Tokens : token[t].state = "revoked" => token'[t] = token[t]
        /\ \A s \in Sessions : session[s].state = "inactive" => session'[s] = session[s]
  BY TokensMoveForward, SessionsMoveForward DEF Live, FreshTokens, FreshSessions
<1>2. QED
  BY <1>1, TypeInit, TypeStep, PTL DEF Spec, RevocationIsFinal

(***************************************************************************)
(* 3. How a request gets into the stretch between its lookup and its       *)
(* insert, where it acts on what it has read before.                       *)
(***************************************************************************)
MintingPCs == {"load_user", "revoke_old", "issue"}

\* A step of one request leaves every other request where it is.
LEMMA OthersWait ==
    ASSUME TypeInv, NEW w \in Workers, Arrive(w) \/ Step(w) \/ Crash(w)
    PROVE  \A v \in Workers \ {w} : req'[v] = req[v]
<1> USE DEF TypeInv, TypeOK
<1>1. CASE Arrive(w)
  BY <1>1 DEF Arrive, ReceiveLogin, ReceiveRefresh, ReceiveLogout, ReceiveLogoutAll,
              ReceiveRevokeSession, Receive
<1>2. CASE Step(w)
  BY <1>2 DEF Step, Goto, Reply, CurrentUser, CurrentUserRefused, LoginVerified, LoginRefused,
              LookupFound, LookupRejected, RevokeExpired, LoadUser, RevokeOld,
              IssueSession, IssueTokens, IssueReply, LogoutLookup, LogoutRevoke,
              LogoutDeactivate, LogoutAllRevoke, LogoutAllDeactivate, SessionFound,
              SessionNotFound, RevokeSession, RevokeSessionTokens, AuditReply
<1>3. CASE Crash(w)
  BY <1>3 DEF Crash, Reply
<1>4. QED
  BY <1>1, <1>2, <1>3

SameLocals(w) == /\ req'[w].refresh = req[w].refresh /\ req'[w].session = req[w].session
                 /\ req'[w].user = req[w].user

\* The ways into that stretch, and what the request holds when it enters.
LEMMA MintingMoves ==
    ASSUME TypeInv, [Next]_vars, NEW w \in Workers, req'[w].pc \in MintingPCs
    PROVE  \/ req'[w] = req[w]
           \/ /\ LookupFound(w) /\ req'[w].pc = "load_user"
              /\ req'[w].refresh = req[w].refresh /\ Found(req[w].refresh)
              /\ req'[w].user = token[req[w].refresh].user
              /\ req'[w].session = token[req[w].refresh].session
           \/ LoadUser(w) /\ req'[w].pc = "revoke_old" /\ SameLocals(w)
           \/ RevokeOld(w) /\ req'[w].pc = "issue" /\ SameLocals(w)
           \/ /\ LoginVerified(w) /\ req'[w].pc = "issue"
              /\ req'[w].refresh = None /\ req'[w].session = None
           \/ /\ IssueSession(w) /\ req'[w].pc = "issue"
              /\ req'[w].refresh = req[w].refresh /\ req'[w].user = req[w].user
              /\ req'[w].session \in FreshSessions
              /\ session'[req'[w].session] = [user |-> req[w].user, state |-> "active"]
<1> USE DEF TypeInv, TypeOK, TablesTypeOK, At, Goto, Reply, MintingPCs
<1>1. CASE UNCHANGED vars
  BY <1>1 DEF vars
<1>2. ASSUME NEW v \in Workers, v # w, Arrive(v) \/ Step(v) \/ Crash(v) PROVE req'[w] = req[w]
  BY <1>2, OthersWait
<1>3. Arrive(w) => req'[w].pc \in {"find_user", "lookup", "authenticate"}
  BY DEF Arrive, ReceiveLogin, ReceiveRefresh, ReceiveLogout, ReceiveLogoutAll,
         ReceiveRevokeSession, Receive, NoRequest
<1>4. CASE Step(w)
  <2>0. req[w] \in Request /\ Sane(req[w])
    BY DEF RequestsSane
  <2>1. CASE CurrentUser(w)
    BY <2>0, <2>1 DEF CurrentUser, FirstStep, Request, Sane
  <2>2. CASE LoginVerified(w)
    BY <2>0, <2>2 DEF LoginVerified, Request, Sane
  <2>3. CASE CurrentUserRefused(w) \/ LoginRefused(w) \/ LookupRejected(w) \/ RevokeExpired(w)
             \/ IssueReply(w) \/ SessionNotFound(w) \/ AuditReply(w)
    BY <2>3 DEF CurrentUserRefused, LoginRefused, LookupRejected, RevokeExpired, IssueReply,
                SessionNotFound, AuditReply, NoRequest
  <2>4. CASE LookupFound(w)
    BY <2>0, <2>4 DEF LookupFound, Request
  <2>5. CASE LoadUser(w)
    BY <2>0, <2>5 DEF LoadUser, Request, NoRequest, SameLocals
  <2>6. CASE RevokeOld(w)
    BY <2>0, <2>6 DEF RevokeOld, Request, SameLocals
  <2>7. CASE IssueSession(w)
    <3>1. PICK s \in Sessions : CreateSession(s, req[w].user) /\ req' = [req EXCEPT ![w].session = s]
      BY <2>7 DEF IssueSession
    <3>2. s \in FreshSessions /\ session'[s] = [user |-> req[w].user, state |-> "active"]
      BY <3>1 DEF CreateSession, FreshSessions
    <3>3. At(w, "issue")
      BY <2>7 DEF IssueSession
    <3>4. req'[w] = [req[w] EXCEPT !.session = s]
      BY <3>1
    <3>5. QED
      BY <2>0, <2>7, <3>2, <3>3, <3>4 DEF Request
  <2>8. CASE IssueTokens(w)
    BY <2>0, <2>8 DEF IssueTokens, Request
  <2>9. CASE LogoutLookup(w) \/ LogoutRevoke(w) \/ LogoutDeactivate(w) \/ LogoutAllRevoke(w)
             \/ LogoutAllDeactivate(w) \/ SessionFound(w) \/ RevokeSession(w) \/ RevokeSessionTokens(w)
    BY <2>0, <2>9 DEF LogoutLookup, LogoutRevoke, LogoutDeactivate, LogoutAllRevoke,
                LogoutAllDeactivate, SessionFound, RevokeSession, RevokeSessionTokens, Request
  <2>10. QED
    BY <1>4, <2>1, <2>2, <2>3, <2>4, <2>5, <2>6, <2>7, <2>8, <2>9 DEF Step
<1>5. Crash(w) => req'[w].pc = "idle"
  BY DEF Crash, NoRequest
<1>6. ASSUME \/ \E t \in Tokens : Expire(t)
             \/ \E u \in Users : DisableUser(u)
      PROVE  req'[w] = req[w]
  BY <1>6 DEF Expire, DisableUser
<1>7. QED
  BY <1>1, <1>2, <1>3, <1>4, <1>5, <1>6 DEF Next

(***************************************************************************)
(* 4. Rotation.  The request that inserts a successor has revoked the      *)
(* token it presented; that stays true however long it waits.              *)
(***************************************************************************)
RotationInv ==
    /\ RotationOrder
    /\ \A w \in Workers :
         /\ req[w].pc \in {"load_user", "revoke_old"} => req[w].refresh \notin FreshTokens
         /\ At(w, "issue") /\ req[w].refresh # None => token[req[w].refresh].state = "revoked"

\* Every step keeps the rotation invariant.
LEMMA RotationStep == TypeInv /\ RotationInv /\ [Next]_vars => RotationInv'
<1> SUFFICES ASSUME TypeInv, RotationInv, [Next]_vars PROVE RotationInv'
  OBVIOUS
<1> USE DEF TypeInv, TypeOK, TablesTypeOK
<1>1. \A t \in Tokens : /\ token[t].state = "revoked" => token'[t].state = "revoked"
                        /\ t \notin FreshTokens => t \notin FreshTokens'
  BY TokensMoveForward DEF Live, FreshTokens
<1>2. RotationOrder'
  <2>1. CASE UNCHANGED parent
    BY <2>1, <1>1 DEF RotationInv, RotationOrder
  <2>2. ASSUME NEW w \in Workers, IssueTokens(w) PROVE RotationOrder'
    <3>1. PICK t \in Tokens : parent' = [parent EXCEPT ![t] = req[w].refresh]
      BY <2>2 DEF IssueTokens
    <3>2. req[w].refresh # None => token[req[w].refresh].state = "revoked" /\ req[w].refresh \in Tokens
      BY <2>2 DEF IssueTokens, RotationInv, Request
    <3>3. QED
      BY <1>1, <3>1, <3>2 DEF RotationInv, RotationOrder
  <2>3. QED
    BY <2>1, <2>2, Writers
<1>3. ASSUME NEW w \in Workers, req'[w].pc \in {"load_user", "revoke_old"}
      PROVE  req'[w].refresh \notin FreshTokens'
  <2>1. req[w].refresh \in Tokens \cup {None}
    BY DEF Request
  <2>2. req'[w].refresh = req[w].refresh /\ req[w].refresh \notin FreshTokens
    BY <1>3, MintingMoves DEF MintingPCs, RotationInv, SameLocals, LoadUser, At, Found, Live, FreshTokens
  <2>3. QED
    BY <1>1, <2>1, <2>2, NoneIsNoId DEF FreshTokens
<1>4. ASSUME NEW w \in Workers, At(w, "issue")', req'[w].refresh # None
      PROVE  token'[req'[w].refresh].state = "revoked"
  <2>0. req'[w].refresh = req[w].refresh
    BY <1>4, MintingMoves DEF MintingPCs, At, SameLocals
  <2>1. req'[w].refresh = req[w].refresh /\ req[w].refresh \in Tokens
    BY <1>4, <2>0 DEF Request
  <2>2. CASE RevokeOld(w)
    <3>1. token[req[w].refresh].state \in {"live", "revoked"}
      BY <2>1, <2>2 DEF RotationInv, RevokeOld, At, FreshTokens, TokenRow
    <3>2. QED
      BY <2>1, <2>2, <3>1, RevokeEffect DEF RevokeOld, RevokeRefreshToken, Live
  <2>3. CASE ~RevokeOld(w)
    <3>1. At(w, "issue")
      BY <1>4, <2>3, MintingMoves DEF MintingPCs, At, LoadUser, LoginVerified, IssueSession
    <3>2. QED
      BY <1>1, <1>4, <2>1, <3>1 DEF RotationInv
  <2>4. QED
    BY <2>2, <2>3
<1>5. QED
  BY <1>2, <1>3, <1>4 DEF RotationInv

\* Rotation revokes before it issues, for any number of concurrent rotations
\* and wherever they die: no token is ever live beside the one it was made from.
THEOREM RotationOrderHolds == Spec => []RotationOrder
<1>1. Init => RotationInv
  BY DEF Init, RotationInv, RotationOrder, NoRequest, At
<1>2. RotationInv => RotationOrder
  BY DEF RotationInv
<1>3. QED
  BY <1>1, <1>2, TypeInit, TypeStep, RotationStep, PTL DEF Spec

(***************************************************************************)
(* 5. Ownership across the two tables.                                     *)
(***************************************************************************)
OwnerInv ==
    /\ TokenSessionOwner
    /\ \A w \in Workers : req[w].pc \in MintingPCs /\ req[w].session # None =>
         /\ req[w].session \in Sessions \ FreshSessions
         /\ session[req[w].session].user = req[w].user

\* Every step keeps the ownership invariant.
LEMMA OwnerStep == TypeInv /\ OwnerInv /\ [Next]_vars => OwnerInv'
<1> SUFFICES ASSUME TypeInv, OwnerInv, [Next]_vars PROVE OwnerInv'
  OBVIOUS
<1>1. \A s \in Sessions \ FreshSessions :
        s \notin FreshSessions' /\ session'[s].user = session[s].user
  BY SessionsMoveForward DEF FreshSessions
<1>2. ASSUME NEW t \in Tokens, t \notin FreshTokens'
      PROVE  /\ token'[t].session \in Sessions \ FreshSessions
             /\ session[token'[t].session].user = token'[t].user
  <2>1. CASE t \notin FreshTokens
    BY <2>1, TokensMoveForward DEF OwnerInv, TokenSessionOwner
  <2>2. CASE t \in FreshTokens
    <3>1. PICK w \in Workers :
            /\ IssueTokens(w)
            /\ token'[t] = [user |-> req[w].user, session |-> req[w].session, state |-> "live"]
      <4>1. token'[t] # token[t] /\ ~Live(t)
        BY <1>2, <2>2 DEF FreshTokens, Live
      <4>2. QED
        BY <4>1, TokensMoveForward
    <3>2. req[w].session # None /\ req[w].pc \in MintingPCs
      BY <3>1 DEF IssueTokens, At, MintingPCs
    <3>3. QED
      BY <3>1, <3>2 DEF OwnerInv
  <2>3. QED
    BY <2>1, <2>2
<1>3. TokenSessionOwner'
  BY <1>1, <1>2 DEF TokenSessionOwner
<1>4. ASSUME NEW w \in Workers, req'[w].pc \in MintingPCs, req'[w].session # None
      PROVE  /\ req'[w].session \in Sessions \ FreshSessions'
             /\ session'[req'[w].session].user = req'[w].user
  <2>1. CASE IssueSession(w) /\ req'[w].session \in FreshSessions
             /\ session'[req'[w].session] = [user |-> req[w].user, state |-> "active"]
             /\ req'[w].user = req[w].user
    BY <2>1 DEF FreshSessions
  <2>2. CASE LookupFound(w) /\ Found(req[w].refresh)
             /\ req'[w].user = token[req[w].refresh].user
             /\ req'[w].session = token[req[w].refresh].session
    <3>1. req[w].refresh \in Tokens \ FreshTokens
      BY <2>2 DEF Found, Live, FreshTokens, TypeInv, TypeOK, Request
    <3>2. QED
      BY <1>1, <2>2, <3>1 DEF OwnerInv, TokenSessionOwner
  <2>3. CASE \/ req'[w] = req[w]
             \/ (LoadUser(w) \/ RevokeOld(w)) /\ SameLocals(w)
    <3>1. req[w].pc \in MintingPCs /\ req[w].session = req'[w].session /\ req[w].user = req'[w].user
      BY <1>4, <2>3 DEF LoadUser, RevokeOld, At, SameLocals, MintingPCs
    <3>2. QED
      BY <1>1, <1>4, <3>1 DEF OwnerInv
  <2>4. QED
    BY <1>4, <2>1, <2>2, <2>3, MintingMoves
<1>5. QED
  BY <1>3, <1>4 DEF OwnerInv

\* A token belongs to a session of its own user, through any number of
\* rotations that copy session_id from the row they read.
THEOREM TokenSessionOwnerHolds == Spec => []TokenSessionOwner
<1>1. Init => OwnerInv
  BY DEF Init, OwnerInv, TokenSessionOwner, EmptyTables, FreshTokens, NoRequest, MintingPCs
<1>2. OwnerInv => TokenSessionOwner
  BY DEF OwnerInv
<1>3. QED
  BY <1>1, <1>2, TypeInit, TypeStep, OwnerStep, PTL DEF Spec

(***************************************************************************)
(* 6. Sign-out.  The invariant covers, besides the tokens on closed        *)
(* sessions, the requests that are about to insert one.                    *)
(***************************************************************************)
Excused(s) == \/ s \in torn
              \/ \E w \in Workers : At(w, "revoke_tokens") /\ req[w].session = s

OrphanInv ==
    /\ \A t \in Tokens : Live(t) /\ session[token[t].session].state = "inactive"
                            => Excused(token[t].session)
    /\ \A w \in Workers, s \in Sessions : Minting(w, s) /\ session[s].state = "inactive" => Excused(s)

\* An excuse ends only when revoke_session revokes the tokens.
LEMMA ExcuseLasts ==
    ASSUME TypeInv, [Next]_vars, NEW s \in Sessions, Excused(s)
    PROVE  \/ Excused(s)'
           \/ \E w \in Workers : RevokeSessionTokens(w) /\ req[w].session = s
<1> USE DEF TypeInv, TypeOK
<1>1. torn \subseteq torn'
  <2>1. CASE UNCHANGED vars
    BY <2>1 DEF vars
  <2>2. ASSUME NEW w \in Workers, Arrive(w) PROVE UNCHANGED torn
    BY <2>2 DEF Arrive, ReceiveLogin, ReceiveRefresh, ReceiveLogout, ReceiveLogoutAll,
                ReceiveRevokeSession, Receive, history
  <2>3. ASSUME NEW w \in Workers, Step(w) PROVE torn \subseteq torn'
    BY <2>3 DEF Step, history, CurrentUser, CurrentUserRefused, LoginVerified,
                LoginRefused, LookupFound, LookupRejected, RevokeExpired, LoadUser, RevokeOld,
                IssueSession, IssueTokens, IssueReply, LogoutLookup, LogoutRevoke,
                LogoutDeactivate, LogoutAllRevoke, LogoutAllDeactivate, SessionFound,
                SessionNotFound, RevokeSession, RevokeSessionTokens, AuditReply
  <2>4. QED
    BY <2>1, <2>2, <2>3 DEF Next, Crash, Expire, DisableUser, history
<1>2. CASE s \in torn
  BY <1>1, <1>2 DEF Excused
<1>3. ASSUME NEW w \in Workers, At(w, "revoke_tokens"), req[w].session = s,
             ~RevokeSessionTokens(w)
      PROVE  Excused(s)'
  <2>1. CASE req'[w] = req[w]
    BY <1>3, <2>1 DEF Excused, At
  <2>2. CASE Crash(w)
    BY <1>3, <2>2 DEF Excused, Crash
  <2>3. ~Arrive(w)
    BY <1>3 DEF At, Arrive, ReceiveLogin, ReceiveRefresh, ReceiveLogout, ReceiveLogoutAll,
                ReceiveRevokeSession, Receive
  <2>4. ~Step(w)
    BY <1>3 DEF At, Step, CurrentUser, CurrentUserRefused, LoginVerified,
                LoginRefused, LookupFound, LookupRejected, RevokeExpired, LoadUser, RevokeOld,
                IssueSession, IssueTokens, IssueReply, LogoutLookup, LogoutRevoke,
                LogoutDeactivate, LogoutAllRevoke, LogoutAllDeactivate, SessionFound,
                SessionNotFound, RevokeSession, AuditReply
  <2>5. ASSUME NEW v \in Workers, Arrive(v) \/ Step(v) \/ Crash(v) PROVE v = w \/ req'[w] = req[w]
    BY <2>5, OthersWait
  <2>6. CASE UNCHANGED req
    BY <2>1, <2>6
  <2>7. QED
    BY <2>1, <2>2, <2>3, <2>4, <2>5, <2>6 DEF Next, Expire, DisableUser, vars
<1>4. QED
  BY <1>2, <1>3 DEF Excused

\* Closing a session over a live token, or over a request about to insert
\* one, tears it; revoke_session leaves its own excuse instead.
LEMMA ClosingExcuses ==
    ASSUME TypeInv, [Next]_vars, NEW s \in Sessions,
           session[s].state = "active", session'[s].state = "inactive",
           \/ \E t \in Tokens : Live(t) /\ token[t].session = s
           \/ \E v \in Workers : Minting(v, s)
    PROVE  Excused(s)' /\ UNCHANGED token
<1> USE DEF TypeInv, TypeOK, TablesTypeOK
<1>1. PICK w \in Workers : CloseStep(w) \/ IssueSession(w)
  BY Writers
<1>2. ~IssueSession(w)
  BY DEF IssueSession, CreateSession, FreshSessions
<1>3. CASE LogoutDeactivate(w)
  BY <1>3 DEF LogoutDeactivate, DeactivateSession, Deactivate, ClosedOver, Excused
<1>4. CASE LogoutAllDeactivate(w)
  BY <1>4 DEF LogoutAllDeactivate, DeactivateAllUserSessions, Deactivate, ClosedOver, Excused
<1>5. CASE RevokeSession(w)
  <2>1. s = req[w].session /\ UNCHANGED token
    BY <1>5 DEF RevokeSession, DeactivateSession, Deactivate
  <2>2. req'[w].pc = "revoke_tokens" /\ req'[w].session = req[w].session
    BY <1>5, GotoEffect DEF RevokeSession, PCs
  <2>3. QED
    BY <2>1, <2>2 DEF Excused, At
<1>6. QED
  BY <1>1, <1>2, <1>3, <1>4, <1>5 DEF CloseStep

\* Once revoke_session has revoked, no token of the session is live, and the
\* requests still about to insert one have torn it.
LEMMA RevokingEnds ==
    ASSUME TypeInv, NEW w \in Workers, RevokeSessionTokens(w), NEW s \in Sessions, req[w].session = s
    PROVE  /\ \A t \in Tokens : token'[t].session = s => ~Live(t)'
           /\ \A v \in Workers : Minting(v, s)' => Excused(s)'
           /\ UNCHANGED session
<1> USE DEF TypeInv, TypeOK, TablesTypeOK
<1>1. \A t \in Tokens : token'[t].session = s => ~Live(t)'
  BY RevokeEffect DEF RevokeSessionTokens, RevokeRefreshTokensBySession, TokensIn, Live
<1>2. req'[w].pc = "audit"
  BY GotoEffect DEF RevokeSessionTokens, PCs
<1>3. ASSUME NEW v \in Workers, Minting(v, s)' PROVE Excused(s)'
  <2>1. v # w
    BY <1>2, <1>3 DEF Minting
  <2>2. Step(w)
    BY DEF Step
  <2>3. Minting(v, s)
    BY <1>3, <2>1, <2>2, OthersWait DEF Minting
  <2>4. QED
    BY <2>3 DEF RevokeSessionTokens, Excused
<1>4. QED
  BY <1>1, <1>3 DEF RevokeSessionTokens

\* Every step keeps the sign-out invariant.
LEMMA OrphanStep == TypeInv /\ TypeInv' /\ OrphanInv /\ [Next]_vars => OrphanInv'
<1> SUFFICES ASSUME TypeInv, TypeInv', OrphanInv, [Next]_vars PROVE OrphanInv'
  OBVIOUS
<1>1. ASSUME NEW s \in Sessions, session'[s].state = "inactive",
             \/ \E t \in Tokens : Live(t) /\ token[t].session = s
             \/ \E v \in Workers : Minting(v, s)
      PROVE  Excused(s)' \/ \E w \in Workers : RevokeSessionTokens(w) /\ req[w].session = s
  <2>1. CASE session[s].state = "inactive"
    BY <1>1, <2>1, ExcuseLasts DEF OrphanInv
  <2>2. CASE session[s].state # "inactive"
    <3>1. session[s].state = "active"
      BY <1>1, <2>2, SessionsMoveForward
    <3>2. QED
      BY <1>1, <3>1, ClosingExcuses
  <2>3. QED
    BY <2>1, <2>2
<1>2. ASSUME NEW t \in Tokens, Live(t)', NEW s \in Sessions, token'[t].session = s,
             session'[s].state = "inactive"
      PROVE  Excused(s)'
  <2>1. \/ Live(t) /\ token[t].session = s
        \/ \E v \in Workers : Minting(v, s)
    <3>1. CASE token'[t] = token[t]
      BY <1>2, <3>1 DEF Live
    <3>2. CASE token'[t] # token[t]
      <4>1. token'[t].state # "revoked"
        BY <1>2 DEF Live
      <4>2. PICK w \in Workers :
              /\ IssueTokens(w)
              /\ token'[t] = [user |-> req[w].user, session |-> req[w].session, state |-> "live"]
        BY <3>2, <4>1, TokensMoveForward
      <4>3. Minting(w, s)
        BY <1>2, <4>2 DEF IssueTokens, Minting, At
      <4>4. QED
        BY <4>3
    <3>3. QED
      BY <3>1, <3>2
  <2>2. QED
    BY <1>1, <1>2, <2>1, RevokingEnds
<1>3. ASSUME NEW v \in Workers, NEW s \in Sessions, Minting(v, s)', session'[s].state = "inactive"
      PROVE  Excused(s)'
  <2>1. \/ \E t \in Tokens : Live(t) /\ token[t].session = s
        \/ Minting(v, s)
    <3>1. req'[v].pc \in MintingPCs /\ req'[v].session = s
      BY <1>3 DEF Minting, MintingPCs
    <3>2. CASE req'[v] = req[v]
      BY <1>3, <3>2 DEF Minting
    <3>3. CASE LookupFound(v) /\ Found(req[v].refresh) /\ req'[v].session = token[req[v].refresh].session
      BY <3>1, <3>3 DEF Found, TypeInv, TypeOK, Request
    <3>4. CASE (LoadUser(v) \/ RevokeOld(v)) /\ SameLocals(v)
      BY <3>1, <3>4 DEF SameLocals, LoadUser, RevokeOld, At, Minting
    <3>5. CASE req'[v].session = None
      BY <3>1, <3>5, NoneIsNoId
    <3>6. CASE session'[req'[v].session] = [user |-> req[v].user, state |-> "active"]
      BY <1>3, <3>1, <3>6
    <3>7. QED
      BY <3>1, <3>2, <3>3, <3>4, <3>5, <3>6, MintingMoves
  <2>2. QED
    BY <1>1, <1>3, <2>1, RevokingEnds
<1>4. ASSUME NEW t \in Tokens, Live(t)' PROVE token'[t].session \in Sessions
  BY <1>4 DEF Live, TypeInv, TypeOK, RowsFilled
<1>5. ASSUME NEW t \in Tokens, Live(t)', session'[token'[t].session].state = "inactive"
      PROVE  Excused(token[t].session)'
  BY <1>2, <1>4, <1>5
<1>6. QED
  BY <1>3, <1>5 DEF OrphanInv

\* A live token on a closed session is always explained: its revoke_session
\* is on its way, died, or could not see it.
THEOREM OrphansExplainedHolds == Spec => []OrphansExplained
<1>1. Init => OrphanInv
  BY DEF Init, OrphanInv, EmptyTables, Live, Minting, NoRequest
<1>2. OrphanInv => OrphansExplained
  BY DEF OrphanInv, OrphansExplained, Excused
<1>3. QED
  BY <1>1, <1>2, TypeInit, TypeStep, OrphanStep, PTL DEF Spec

(***************************************************************************)
(* 7. Open sessions can be refreshed.  The invariant adds what a request   *)
(* knows about the token it is about to revoke: it belongs to the session  *)
(* in the request's locals, has run out if the request will not issue a    *)
(* successor, and is on a closed session if revoke_session revokes it.     *)
(***************************************************************************)
Usable(s) ==
    \/ \E t \in TokensIn(s) : Live(t) \/ t \in expired
    \/ \E w \in Workers : WorksOn(w, s)
    \/ s \in died

HoldingPCs == {"load_user", "revoke_old", "revoke_expired", "revoke_presented"}

UsableInv ==
    /\ ActiveSessionsUsable
    /\ \A t \in expired : t \notin FreshTokens
    /\ \A w \in Workers :
         /\ req[w].pc \in HoldingPCs => /\ req[w].refresh \notin FreshTokens
                                        /\ token[req[w].refresh].session = req[w].session
         /\ At(w, "revoke_expired") => req[w].refresh \in expired
         /\ At(w, "revoke_session") => req[w].session \notin FreshSessions
         /\ At(w, "revoke_tokens") => session[req[w].session].state = "inactive"

\* What has expired and what has died stays so.
LEMMA ExpiredDiedGrow ==
    ASSUME [Next]_vars
    PROVE  /\ expired \subseteq expired' /\ died \subseteq died'
           /\ expired' # expired => UNCHANGED token /\ \E t \in Tokens : Expire(t)
<1> USE DEF tables, history
<1>1. CASE UNCHANGED vars
  BY <1>1 DEF vars
<1>2. ASSUME NEW w \in Workers, Arrive(w) PROVE UNCHANGED <<expired, died>>
  BY <1>2 DEF Arrive, ReceiveLogin, ReceiveRefresh, ReceiveLogout, ReceiveLogoutAll,
              ReceiveRevokeSession, Receive
<1>3. ASSUME NEW w \in Workers, Step(w) PROVE UNCHANGED <<expired, died>>
  BY <1>3 DEF Step, CurrentUser, CurrentUserRefused, LoginVerified,
              LoginRefused, LookupFound, LookupRejected, RevokeExpired, LoadUser, RevokeOld,
              IssueSession, IssueTokens, IssueReply, LogoutLookup, LogoutRevoke,
              LogoutDeactivate, LogoutAllRevoke, LogoutAllDeactivate, SessionFound,
              SessionNotFound, RevokeSession, RevokeSessionTokens, AuditReply
<1>4. ASSUME NEW w \in Workers, Crash(w) PROVE UNCHANGED expired /\ died \subseteq died'
  BY <1>4 DEF Crash
<1>5. ASSUME NEW t \in Tokens, Expire(t) PROVE UNCHANGED <<token, died>> /\ expired \subseteq expired'
  BY <1>5 DEF Expire
<1>6. ASSUME NEW u \in Users, DisableUser(u) PROVE UNCHANGED <<expired, died>>
  BY <1>6 DEF DisableUser
<1>7. QED
  BY <1>1, <1>2, <1>3, <1>4, <1>5, <1>6 DEF Next

\* How a request comes to revoke a token without rotating it.
LEMMA RevokingMoves ==
    ASSUME TypeInv, [Next]_vars, NEW w \in Workers,
           req'[w].pc \in {"revoke_expired", "revoke_presented", "revoke_session", "revoke_tokens"}
    PROVE  \/ req'[w] = req[w]
           \/ /\ LookupFound(w) \/ LogoutLookup(w)
              /\ req'[w].pc \in {"revoke_expired", "revoke_presented"}
              /\ req'[w].pc = "revoke_expired" => req[w].refresh \in expired
              /\ req'[w].refresh = req[w].refresh /\ Found(req[w].refresh)
              /\ req'[w].session = token[req[w].refresh].session
           \/ SessionFound(w) /\ req'[w].pc = "revoke_session" /\ SameLocals(w)
           \/ RevokeSession(w) /\ req'[w].pc = "revoke_tokens" /\ SameLocals(w)
<1> USE DEF TypeInv, TypeOK, At, Goto, Reply
<1>1. CASE UNCHANGED vars
  BY <1>1 DEF vars
<1>2. ASSUME NEW v \in Workers, v # w, Arrive(v) \/ Step(v) \/ Crash(v) PROVE req'[w] = req[w]
  BY <1>2, OthersWait
<1>3. Arrive(w) => req'[w].pc \in {"find_user", "lookup", "authenticate"}
  BY DEF Arrive, ReceiveLogin, ReceiveRefresh, ReceiveLogout, ReceiveLogoutAll,
         ReceiveRevokeSession, Receive, NoRequest
<1>4. CASE Step(w)
  <2>0. req[w] \in Request /\ Sane(req[w])
    BY DEF RequestsSane
  <2>1. CASE CurrentUser(w)
    BY <2>0, <2>1 DEF CurrentUser, FirstStep, Request, Sane
  <2>2. CASE CurrentUserRefused(w) \/ LoginRefused(w) \/ LookupRejected(w) \/ RevokeExpired(w)
             \/ IssueReply(w) \/ SessionNotFound(w) \/ AuditReply(w)
    BY <2>2 DEF CurrentUserRefused, LoginRefused, LookupRejected, RevokeExpired, IssueReply,
                SessionNotFound, AuditReply, NoRequest
  <2>3. CASE LookupFound(w)
    BY <2>0, <2>3 DEF LookupFound, Request
  <2>4. CASE LogoutLookup(w)
    BY <2>0, <2>4 DEF LogoutLookup, Request
  <2>5. CASE RevokeSession(w)
    BY <2>0, <2>5 DEF RevokeSession, Request, SameLocals
  <2>6. CASE SessionFound(w)
    BY <2>0, <2>6 DEF SessionFound, Request, SameLocals
  <2>7. CASE LoadUser(w)
    BY <2>0, <2>7 DEF LoadUser, Request, NoRequest
  <2>8. CASE IssueSession(w)
    BY <2>0, <2>8 DEF IssueSession, Request
  <2>9. CASE IssueTokens(w)
    BY <2>0, <2>9 DEF IssueTokens, Request
  <2>10. CASE LoginVerified(w) \/ RevokeOld(w) \/ LogoutRevoke(w) \/ LogoutDeactivate(w)
             \/ LogoutAllRevoke(w) \/ LogoutAllDeactivate(w) \/ RevokeSessionTokens(w)
    BY <2>0, <2>10 DEF LoginVerified, RevokeOld, LogoutRevoke, LogoutDeactivate, LogoutAllRevoke,
                LogoutAllDeactivate, RevokeSessionTokens, Request
  <2>11. QED
    BY <1>4, <2>1, <2>2, <2>3, <2>4, <2>5, <2>6, <2>7, <2>8, <2>9, <2>10 DEF Step
<1>5. Crash(w) => req'[w].pc = "idle"
  BY DEF Crash, NoRequest
<1>6. ASSUME \/ \E t \in Tokens : Expire(t)
             \/ \E u \in Users : DisableUser(u)
      PROVE  req'[w] = req[w]
  BY <1>6 DEF Expire, DisableUser
<1>7. QED
  BY <1>1, <1>2, <1>3, <1>4, <1>5, <1>6 DEF Next

\* A request that works on an open session hands it over usable.
LEMMA WorkHandsOver ==
    ASSUME TypeInv, [Next]_vars, NEW s \in Sessions, NEW w \in Workers, WorksOn(w, s),
           session[s].state = "active", session'[s].state = "active"
    PROVE  Usable(s)'
<1> USE DEF TypeInv, TypeOK, TablesTypeOK
<1>0. session'[s].user = session[s].user
  BY SessionsMoveForward DEF FreshSessions
<1>1. CASE req'[w] = req[w]
  BY <1>0, <1>1 DEF WorksOn, Usable, At
<1>2. CASE Crash(w)
  BY <1>2 DEF Crash, Usable
<1>3. ~Arrive(w)
  BY DEF WorksOn, At, Arrive, ReceiveLogin, ReceiveRefresh, ReceiveLogout, ReceiveLogoutAll,
         ReceiveRevokeSession, Receive
<1>4. CASE Step(w)
  <2>1. CASE IssueTokens(w)
    <3>1. PICK t \in Tokens : token' = [token EXCEPT ![t] = [user |-> req[w].user, session |-> req[w].session, state |-> "live"]]
      BY <2>1 DEF IssueTokens, CreateRefreshToken
    <3>2. req[w].session = s
      BY <2>1 DEF IssueTokens, WorksOn, At
    <3>3. QED
      BY <3>1, <3>2 DEF Usable, TokensIn, Live
  <2>2. ~LogoutDeactivate(w) /\ ~LogoutAllDeactivate(w)
    BY DEF LogoutDeactivate, LogoutAllDeactivate, WorksOn, At, DeactivateSession,
           DeactivateAllUserSessions, Deactivate, SessionsOf, SessionRow
  <2>3. ~IssueSession(w)
    BY NoneIsNoId DEF IssueSession, WorksOn, At
  <2>4. QED
    BY <1>4, <2>1, <2>2, <2>3 DEF WorksOn, At, Step, CurrentUser, CurrentUserRefused,
       LoginVerified, LoginRefused, LookupFound, LookupRejected, RevokeExpired, LoadUser, RevokeOld,
       IssueReply, LogoutLookup, LogoutRevoke, LogoutAllRevoke, SessionFound,
       SessionNotFound, RevokeSession, RevokeSessionTokens, AuditReply
<1>5. ASSUME NEW v \in Workers, Arrive(v) \/ Step(v) \/ Crash(v) PROVE v = w \/ req'[w] = req[w]
  BY <1>5, OthersWait
<1>6. CASE UNCHANGED req
  BY <1>1, <1>6
<1>7. QED
  BY <1>1, <1>2, <1>3, <1>4, <1>5, <1>6 DEF Next, Expire, DisableUser, vars

\* Whoever revokes the live token of an open session goes on to work on it,
\* unless the token has run out.
LEMMA RevokerWorksOn ==
    ASSUME TypeInv, OwnerInv, UsableInv, [Next]_vars, NEW t \in Tokens, Live(t), ~Live(t)',
           NEW s \in Sessions, token[t].session = s, session[s].state = "active"
    PROVE  t \in expired \/ \E w \in Workers : WorksOn(w, s)'
<1> USE DEF TypeInv, TypeOK, TablesTypeOK
<1>1. PICK w \in Workers : RevokeStep(w)
  <2>1. t \notin FreshTokens /\ token'[t] # token[t]
    BY DEF Live, FreshTokens
  <2>2. ASSUME NEW w \in Workers, IssueTokens(w) PROVE FALSE
    BY <2>1, <2>2 DEF IssueTokens, CreateRefreshToken
  <2>3. QED
    BY <2>1, <2>2, Writers
<1>2. CASE RevokeExpired(w)
  BY <1>2 DEF RevokeExpired, RevokeRefreshToken, Revoke, Live, UsableInv
<1>3. CASE RevokeOld(w)
  <2>1. req[w].refresh = t /\ req[w].session = s
    BY <1>3 DEF RevokeOld, RevokeRefreshToken, Revoke, Live, UsableInv, HoldingPCs, At
  <2>2. req'[w].pc = "issue" /\ req'[w].session = s
    BY <1>3, <2>1, GotoEffect DEF RevokeOld, PCs
  <2>3. QED
    BY <2>2 DEF WorksOn
<1>4. CASE LogoutRevoke(w)
  <2>1. req[w].refresh = t /\ req[w].session = s
    BY <1>4 DEF LogoutRevoke, RevokeRefreshToken, Revoke, Live, UsableInv, HoldingPCs, At
  <2>2. req'[w].pc = "deactivate" /\ req'[w].session = s
    BY <1>4, <2>1 DEF LogoutRevoke, Request
  <2>3. QED
    BY <2>2 DEF WorksOn
<1>5. CASE LogoutAllRevoke(w)
  <2>1. token[t].user = req[w].user /\ UNCHANGED session
    BY <1>5 DEF LogoutAllRevoke, RevokeAllUserTokens, Revoke, Live, TokensOf
  <2>2. session[s].user = req[w].user
    BY <2>1 DEF OwnerInv, TokenSessionOwner, Live, FreshTokens
  <2>3. req'[w].pc = "deactivate_all" /\ req'[w].user = req[w].user
    BY <1>5, GotoEffect DEF LogoutAllRevoke, PCs
  <2>4. QED
    BY <2>1, <2>2, <2>3 DEF WorksOn, At
<1>6. ~RevokeSessionTokens(w)
  BY DEF RevokeSessionTokens, RevokeRefreshTokensBySession, TokensIn, Revoke, Live, UsableInv
<1>7. QED
  BY <1>1, <1>2, <1>3, <1>4, <1>5, <1>6 DEF RevokeStep

\* Every step keeps open sessions usable.
LEMMA UsableStep == TypeInv /\ TypeInv' /\ OwnerInv /\ UsableInv /\ [Next]_vars => UsableInv'
<1> SUFFICES ASSUME TypeInv, TypeInv', OwnerInv, UsableInv, [Next]_vars PROVE UsableInv'
  OBVIOUS
<1>1. ASSUME NEW t \in Tokens, t \notin FreshTokens
      PROVE  t \notin FreshTokens' /\ token'[t].session = token[t].session
  BY <1>1, TokensMoveForward DEF Live, FreshTokens
<1>2. ASSUME NEW s \in Sessions, session'[s].state = "active" PROVE Usable(s)'
  <2>1. CASE session[s].state # "active"
    <3>1. PICK w \in Workers : IssueSession(w)
      BY <1>2, <2>1, SessionsMoveForward
    <3>2. PICK r \in Sessions : CreateSession(r, req[w].user) /\ req' = [req EXCEPT ![w].session = r]
      BY <3>1 DEF IssueSession
    <3>3. r = s
      BY <1>2, <2>1, <3>2 DEF CreateSession, TypeInv, TypeOK, TablesTypeOK
    <3>4. req'[w].session = s /\ req'[w].pc = "issue"
      BY <3>1, <3>2, <3>3 DEF IssueSession, At, TypeInv, TypeOK, Request
    <3>5. QED
      BY <3>4 DEF Usable, WorksOn
  <2>2. CASE session[s].state = "active"
    <3>1. Usable(s)
      BY <2>2 DEF UsableInv, ActiveSessionsUsable, Usable
    <3>2. ASSUME NEW t \in TokensIn(s), t \in expired PROVE Usable(s)'
      <4>1. t \in Tokens /\ t \notin FreshTokens /\ token[t].session = s
        BY <3>2 DEF TokensIn, UsableInv
      <4>2. t \in expired' /\ token'[t].session = s
        BY <1>1, <3>2, <4>1, ExpiredDiedGrow
      <4>3. QED
        BY <4>1, <4>2 DEF Usable, TokensIn
    <3>3. ASSUME NEW t \in TokensIn(s), Live(t), t \notin expired PROVE Usable(s)'
      <4>1. t \in Tokens /\ t \notin FreshTokens /\ token[t].session = s
        BY <3>3 DEF TokensIn, Live, FreshTokens
      <4>2. CASE Live(t)'
        BY <1>1, <4>1, <4>2 DEF Usable, TokensIn
      <4>3. CASE ~Live(t)'
        BY <2>2, <3>3, <4>1, <4>3, RevokerWorksOn DEF Usable
      <4>4. QED
        BY <4>2, <4>3
    <3>4. ASSUME NEW w \in Workers, WorksOn(w, s) PROVE Usable(s)'
      BY <1>2, <2>2, <3>4, WorkHandsOver
    <3>5. CASE s \in died
      BY <3>5, ExpiredDiedGrow DEF Usable
    <3>6. QED
      BY <3>1, <3>2, <3>3, <3>4, <3>5 DEF Usable
  <2>3. QED
    BY <2>1, <2>2
<1>3. ASSUME NEW t \in expired' PROVE t \notin FreshTokens'
  <2>1. CASE t \in expired
    BY <1>1, <2>1 DEF UsableInv, FreshTokens
  <2>2. CASE t \notin expired
    BY <1>3, <2>2, ExpiredDiedGrow DEF Expire, FreshTokens
  <2>3. QED
    BY <2>1, <2>2
<1>4. ASSUME NEW w \in Workers, req'[w].pc \in HoldingPCs
      PROVE  req'[w].refresh \notin FreshTokens' /\ token'[req'[w].refresh].session = req'[w].session
  <2>0. req'[w].refresh \in Tokens
    BY <1>4 DEF HoldingPCs, TypeInv, RequestsSane, Sane
  <2>1. CASE Found(req[w].refresh) /\ req'[w].refresh = req[w].refresh
             /\ req'[w].session = token[req[w].refresh].session
    <3>1. req[w].refresh \notin FreshTokens
      BY <2>1 DEF Found, Live, FreshTokens
    <3>2. QED
      BY <1>1, <2>0, <2>1, <3>1
  <2>2. CASE \/ req'[w] = req[w]
             \/ LoadUser(w) /\ SameLocals(w)
    <3>1. /\ req[w].pc \in HoldingPCs
          /\ req'[w].refresh = req[w].refresh /\ req'[w].session = req[w].session
      BY <1>4, <2>2 DEF LoadUser, At, HoldingPCs, SameLocals
    <3>2. req[w].refresh \notin FreshTokens /\ token[req[w].refresh].session = req[w].session
      BY <3>1 DEF UsableInv
    <3>3. QED
      BY <1>1, <2>0, <3>1, <3>2
  <2>3. CASE req'[w].pc \in {"load_user", "revoke_old"}
    BY <2>1, <2>2, <2>3, MintingMoves DEF MintingPCs
  <2>4. CASE req'[w].pc \in {"revoke_expired", "revoke_presented"}
    BY <2>1, <2>2, <2>4, RevokingMoves
  <2>5. QED
    BY <1>4, <2>3, <2>4 DEF HoldingPCs
<1>5. ASSUME NEW w \in Workers, At(w, "revoke_expired")' PROVE req'[w].refresh \in expired'
  <2>1. CASE req'[w] = req[w]
    BY <1>5, <2>1, ExpiredDiedGrow DEF UsableInv, At
  <2>2. CASE req'[w].refresh = req[w].refresh /\ req[w].refresh \in expired
    BY <2>2, ExpiredDiedGrow
  <2>3. QED
    BY <1>5, <2>1, <2>2, RevokingMoves DEF At
<1>6. ASSUME NEW s \in Sessions, s \notin FreshSessions
      PROVE  /\ s \notin FreshSessions'
             /\ session[s].state = "inactive" => session'[s].state = "inactive"
  BY <1>6, SessionsMoveForward DEF FreshSessions
<1>7. ASSUME NEW w \in Workers, At(w, "revoke_session")'
      PROVE  req'[w].session \notin FreshSessions'
  <2>0. req'[w].session \in Sessions
    BY <1>7 DEF At, TypeInv, RequestsSane, Sane
  <2>1. CASE req'[w] = req[w]
    BY <1>6, <1>7, <2>0, <2>1 DEF UsableInv, At
  <2>2. CASE SessionFound(w) /\ req'[w].session = req[w].session
    BY <1>6, <2>0, <2>2 DEF SessionFound, FreshSessions
  <2>3. QED
    BY <1>7, <2>1, <2>2, RevokingMoves DEF At, SameLocals
<1>8. ASSUME NEW w \in Workers, At(w, "revoke_tokens")'
      PROVE  session'[req'[w].session].state = "inactive"
  <2>0. req'[w].session \in Sessions
    BY <1>8 DEF At, TypeInv, RequestsSane, Sane
  <2>1. CASE req'[w] = req[w]
    BY <1>6, <1>8, <2>0, <2>1 DEF UsableInv, At, FreshSessions
  <2>2. CASE RevokeSession(w) /\ req'[w].session = req[w].session
    <3>1. req[w].session \notin FreshSessions /\ DeactivateSession(req[w].session)
      BY <2>2 DEF RevokeSession, UsableInv
    <3>2. session[req[w].session].state \in {"active", "inactive"}
      BY <2>0, <2>2, <3>1 DEF FreshSessions, TypeInv, TypeOK, TablesTypeOK, SessionRow
    <3>3. QED
      BY <2>0, <2>2, <3>1, <3>2, DeactivateEffect DEF DeactivateSession, TypeInv, TypeOK
  <2>3. QED
    BY <1>8, <2>1, <2>2, RevokingMoves DEF At, SameLocals
<1>9. QED
  BY <1>2, <1>3, <1>4, <1>5, <1>7, <1>8 DEF UsableInv, ActiveSessionsUsable, Usable

\* A session that is listed as active can be refreshed, or one of the named
\* causes applies, for any number of concurrent requests.
THEOREM ActiveSessionsUsableHolds == Spec => []ActiveSessionsUsable
<1>1. Init => OwnerInv /\ UsableInv
  BY DEF Init, OwnerInv, TokenSessionOwner, UsableInv, ActiveSessionsUsable, EmptyTables,
         FreshTokens, NoRequest, MintingPCs, HoldingPCs, At
<1>2. UsableInv => ActiveSessionsUsable
  BY DEF UsableInv
<1>3. QED
  BY <1>1, <1>2, TypeInit, TypeStep, OwnerStep, UsableStep, PTL DEF Spec

(***************************************************************************)
(* 8. Who may take a token away.  revoke_session compares the owner before *)
(* it writes; the invariant carries that comparison over its two writes.   *)
(***************************************************************************)
RightInv ==
    \A w \in Workers : req[w].pc \in {"revoke_session", "revoke_tokens"} =>
        /\ req[w].session \notin FreshSessions
        /\ session[req[w].session].user = req[w].user

\* Every step keeps the owner that revoke_session compared.
LEMMA RightStep == TypeInv /\ TypeInv' /\ RightInv /\ [Next]_vars => RightInv'
<1> SUFFICES ASSUME TypeInv, TypeInv', RightInv, [Next]_vars,
                    NEW w \in Workers, req'[w].pc \in {"revoke_session", "revoke_tokens"}
             PROVE  /\ req'[w].session \notin FreshSessions'
                    /\ session'[req'[w].session].user = req'[w].user
  BY DEF RightInv
<1>1. req'[w].session \in Sessions
  BY DEF TypeInv, RequestsSane, Sane
<1>2. ASSUME req'[w].session \notin FreshSessions, session[req'[w].session].user = req'[w].user
      PROVE  /\ req'[w].session \notin FreshSessions'
             /\ session'[req'[w].session].user = req'[w].user
  BY <1>1, <1>2, SessionsMoveForward DEF FreshSessions
<1>3. CASE req'[w] = req[w]
  BY <1>2, <1>3 DEF RightInv
<1>4. CASE SessionFound(w) /\ SameLocals(w)
  BY <1>1, <1>2, <1>4 DEF SessionFound, SameLocals, FreshSessions
<1>5. CASE RevokeSession(w) /\ SameLocals(w)
  BY <1>2, <1>5 DEF RevokeSession, At, SameLocals, RightInv
<1>6. QED
  BY <1>3, <1>4, <1>5, RevokingMoves

\* A token is taken away by a request that presents it or by its owner's
\* sign-out; no other user and no other device can do it.
THEOREM RevokedOnlyByRightHolds == Spec => RevokedOnlyByRight
<1>1. Init => OwnerInv /\ RightInv
  BY DEF Init, OwnerInv, TokenSessionOwner, RightInv, EmptyTables, FreshTokens, NoRequest, MintingPCs
<1> DEFINE ByRight(t, w) ==
        \/ req[w].refresh = t
        \/ At(w, "revoke_all") /\ req[w].user = token[t].user
        \/ /\ At(w, "revoke_tokens")
           /\ req[w].session = token[t].session
           /\ req[w].user = token[t].user
<1>2. ASSUME TypeInv, OwnerInv, RightInv, [Next]_vars, NEW t \in Tokens, Live(t), ~Live(t)'
      PROVE  \E w \in Workers : ByRight(t, w)
  <2> USE DEF TypeInv, TypeOK, TablesTypeOK
  <2>1. PICK w \in Workers : RevokeStep(w)
    <3>1. token'[t] # token[t]
      BY <1>2 DEF Live
    <3>2. ASSUME NEW w \in Workers, IssueTokens(w) PROVE FALSE
      BY <1>2, <3>1, <3>2 DEF IssueTokens, CreateRefreshToken, FreshTokens, Live
    <3>3. QED
      BY <1>2, <3>1, <3>2, Writers
  <2>2. CASE RevokeExpired(w) \/ RevokeOld(w) \/ LogoutRevoke(w)
    BY <1>2, <2>2 DEF RevokeExpired, RevokeOld, LogoutRevoke, RevokeRefreshToken, Revoke, Live
  <2>3. CASE LogoutAllRevoke(w)
    BY <1>2, <2>3 DEF LogoutAllRevoke, RevokeAllUserTokens, TokensOf, Revoke, Live
  <2>4. CASE RevokeSessionTokens(w)
    <3>1. At(w, "revoke_tokens") /\ req[w].session = token[t].session
      BY <1>2, <2>4 DEF RevokeSessionTokens, RevokeRefreshTokensBySession, TokensIn, Revoke, Live
    <3>2. session[token[t].session].user = token[t].user
      BY <1>2 DEF OwnerInv, TokenSessionOwner, Live, FreshTokens
    <3>3. QED
      BY <1>2, <3>1, <3>2 DEF RightInv, At
  <2>5. QED
    BY <2>1, <2>2, <2>3, <2>4 DEF RevokeStep
<1>3. TypeInv /\ OwnerInv /\ RightInv /\ [Next]_vars =>
        \A t \in Tokens : Live(t) /\ ~Live(t)' => \E w \in Workers : ByRight(t, w)
  BY <1>2
<1>4. QED
  BY <1>1, <1>3, TypeInit, TypeStep, OwnerStep, RightStep, PTL DEF Spec, RevokedOnlyByRight
=============================================================================
