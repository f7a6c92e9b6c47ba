--------------------------- MODULE TokenRefinement ---------------------------
(***************************************************************************)
(* TokenLifecycle implements SessionChain, for any number of overlapping   *)
(* requests.  A request holds a permit from the statement that let it in   *)
(* (create_session, or the lookup that found its token) to its             *)
(* create_refresh_token; nothing in the database records it, which is why  *)
(* closing a session cannot take it back.                                  *)
(***************************************************************************)
EXTENDS TokenLifecycle

Begun == Sessions \ FreshSessions
Of    == [t \in Tokens |-> token[t].session]
Alive == {t \in Tokens : Live(t)}

Holds(w) == req[w].pc \in {"load_user", "revoke_old", "issue"} /\ req[w].session # None

PermitOf(w) ==
    IF Holds(w) THEN [session |-> req[w].session, spends |-> req[w].refresh]
                ELSE [session |-> None, spends |-> None]

Permits == [w \in Workers |-> PermitOf(w)]

Chain == INSTANCE SessionChain
    WITH Holders <- Workers, begun <- Begun, of <- Of, live <- Alive, permit <- Permits

\* Every statement of every handler, in any interleaving and with any deaths,
\* is a step of the chain or none: tokens enter a session only on the
\* strength of one that was live, which is revoked by then.
ImplementsChain == Chain!Spec

\* A session whose tokens are all revoked, with no rotation in flight, is
\* never refreshed again: no row, no stale local and no restart revives it.
DeadStaysDead == Chain!DeadStaysDead

\* A login or a rotation that has got as far as issuing gives its session a
\* live token, unless it dies: the old token is not spent for nothing.
RotationDelivers ==
    \A s \in Sessions :
        (\E w \in Workers : At(w, "issue") /\ req[w].session = s)
            ~> ((\E t \in TokensIn(s) : Live(t)) \/ s \in died)
=============================================================================
