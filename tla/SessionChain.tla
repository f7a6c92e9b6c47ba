---------------------------- MODULE SessionChain ----------------------------
(***************************************************************************)
(* What the sign-in service promises about a session, whatever overlaps    *)
(* and whatever dies: an abstract specification, with no requests, no      *)
(* statements and no order of commits in it.                               *)
(*                                                                         *)
(* A session is a chain of refresh tokens.  Only the session's beginning,  *)
(* or a token of it that is live, permits one more token in it; the token  *)
(* a permit was given for must be over before the permit is used; a token  *)
(* that is over stays over.  TokenRefinement says how TokenLifecycle       *)
(* implements this.                                                        *)
(***************************************************************************)
CONSTANTS
    Sessions,
    Tokens,
    Holders,    \* who may hold a permit
    None

VARIABLES
    begun,      \* sessions that exist
    of,         \* of[t]: the session token t was put into, None before that
    live,       \* tokens that can be exchanged
    permit      \* permit[h]: what h may still add a token to

vars == <<begun, of, live, permit>>

NoPermit  == [session |-> None, spends |-> None]
Permit    == [session : Sessions \cup {None}, spends : Tokens \cup {None}]

TypeOK ==
    /\ begun \subseteq Sessions
    /\ of \in [Tokens -> Sessions \cup {None}]
    /\ live \subseteq Tokens
    /\ permit \in [Holders -> Permit]

Init ==
    /\ begun = {}
    /\ of = [t \in Tokens |-> None]
    /\ live = {}
    /\ permit = [h \in Holders |-> NoPermit]

\* Somebody signs in: a new session, and a permit for its first token.
Begin(h, s) ==
    /\ s \notin begun
    /\ permit[h] = NoPermit
    /\ begun' = begun \cup {s}
    /\ permit' = [permit EXCEPT ![h] = [session |-> s, spends |-> None]]
    /\ UNCHANGED <<of, live>>

\* A live token is accepted for exchange.
Admit(h, t) ==
    /\ t \in live
    /\ permit[h] = NoPermit
    /\ permit' = [permit EXCEPT ![h] = [session |-> of[t], spends |-> t]]
    /\ UNCHANGED <<begun, of, live>>

\* The permit is used; what it was given for is over by now.
Deliver(h, t) ==
    /\ permit[h] # NoPermit
    /\ permit[h].spends \notin live
    /\ of[t] = None
    /\ of' = [of EXCEPT ![t] = permit[h].session]
    /\ live' = live \cup {t}
    /\ permit' = [permit EXCEPT ![h] = NoPermit]
    /\ UNCHANGED begun

GiveUp(h) ==
    /\ permit[h] # NoPermit
    /\ permit' = [permit EXCEPT ![h] = NoPermit]
    /\ UNCHANGED <<begun, of, live>>

\* Spent, expired or signed out.
End(T) ==
    /\ live' = live \ T
    /\ UNCHANGED <<begun, of, permit>>

Next ==
    \/ \E h \in Holders :
          \/ \E s \in Sessions : Begin(h, s)
          \/ \E t \in Tokens : Admit(h, t) \/ Deliver(h, t)
          \/ GiveUp(h)
    \/ \E T \in SUBSET live : End(T)

Spec == Init /\ [][Next]_vars

\* A session with no live token and no permit outstanding.
Dead(s) ==
    /\ s \in begun
    /\ \A t \in live : of[t] # s
    /\ \A h \in Holders : permit[h].session # s

\* Once the last token of a session is over and nobody is about to add one,
\* that session is never entered again, by any route: signing in makes
\* another session.
DeadStaysDead == [][\A s \in Sessions : Dead(s) => Dead(s)']_vars
=============================================================================
