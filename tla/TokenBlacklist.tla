--------------------------- MODULE TokenBlacklist ---------------------------
(***************************************************************************)
(* Who an access token still lets in after logout: JWT expiry, the Redis   *)
(* blacklist with its TTL, its failures, and the requests in flight.       *)
(*                                                                         *)
(* A JWT is not stored anywhere; it is good until its exp claim unless its *)
(* jti is blacklisted.  A request decodes it, then asks Redis, then loads  *)
(* the user: time passes between these steps.  verify treats mfa_tokens    *)
(* the same way (decode, EXISTS, ..., SETEX), with its own lifetime.       *)
(***************************************************************************)
EXTENDS Integers

CONSTANTS
    Workers,        \* requests in flight at once
    Jtis,           \* access tokens, by jti
    Lifetime,       \* settings.JWT_ACCESS_TOKEN_EXPIRE_MINUTES, in ticks
    BlacklistTtl,   \* settings.REDIS_BLACKLIST_TTL_SECONDS, in ticks
    RedisMayFail,   \* calls may fail, and the server may evict or lose keys
    MaxTime         \* bound: the clock stops here

\* blacklist_token: the TTL "should match the access token lifetime".  Nothing
\* in config.py makes it: the defaults, 15 minutes and 900 seconds, do.
ASSUME TtlCoversLifetime ==
    Lifetime \in Nat /\ BlacklistTtl \in Nat /\ BlacklistTtl >= Lifetime

ASSUME RedisMayFailIsBoolean == RedisMayFail \in BOOLEAN

VARIABLES
    now,        \* the clock of the API and of Redis, in ticks from 1
    exp,        \* exp[j]: the exp claim of j, 0 before it is issued
    entry,      \* entry[j]: when Redis drops blacklist:j, 0 if it is not there
    req,        \* req[w]: the request worker w is serving
    marked,     \* history: jtis whose SETEX succeeded
    signedOut,  \* history: jtis whose logout got as far as the refresh token
    answered,   \* history: jtis whose logout answered 200
    failed,     \* history: jtis for which Redis failed or lost the entry
    died        \* history: jtis whose logout died after step 1

history == <<marked, signedOut, answered, failed, died>>
vars    == <<now, exp, entry, req, marked, signedOut, answered, failed, died>>

NoJti     == "no jti"
PCs       == {"idle", "decode", "check_blacklist", "load_user",
              "blacklist_token", "revoke_refresh", "audit"}

\* late: the request arrived after j's logout had answered.
Request   == [op : {"none", "use", "logout"}, pc : PCs, jti : Jtis \cup {NoJti}, late : BOOLEAN]
NoRequest == [op |-> "none", pc |-> "idle", jti |-> NoJti, late |-> FALSE]

At(w, pc)   == req[w].pc = pc
Goto(w, pc) == req' = [req EXCEPT ![w].pc = pc]
Reply(w)    == req' = [req EXCEPT ![w] = NoRequest]

Expired(j)      == exp[j] <= now
InBlacklist(j)  == entry[j] > now

TypeOK ==
    /\ now \in Nat \ {0}
    /\ exp \in [Jtis -> Nat]
    /\ entry \in [Jtis -> Nat]
    /\ req \in [Workers -> Request]
    /\ marked \subseteq Jtis /\ signedOut \subseteq Jtis /\ answered \subseteq Jtis
    /\ failed \subseteq Jtis /\ died \subseteq Jtis

Init ==
    /\ now = 1
    /\ exp = [j \in Jtis |-> 0]
    /\ entry = [j \in Jtis |-> 0]
    /\ req = [w \in Workers |-> NoRequest]
    /\ marked = {} /\ signedOut = {} /\ answered = {} /\ failed = {} /\ died = {}

-----------------------------------------------------------------------------
\* create_access_token.
CreateAccessToken(j) ==
    /\ exp[j] = 0
    /\ exp' = [exp EXCEPT ![j] = now + Lifetime]
    /\ UNCHANGED <<now, entry, req, history>>

Receive(w) == \E j \in Jtis, op \in {"use", "logout"} :
    /\ At(w, "idle")
    /\ exp[j] # 0
    /\ req' = [req EXCEPT ![w] = [op |-> op, pc |-> "decode", jti |-> j,
                                  late |-> j \in answered]]
    /\ UNCHANGED <<now, exp, entry, history>>

\* decode_access_token: 401 from exp on.
Decode(w) ==
    /\ At(w, "decode")
    /\ IF Expired(req[w].jti) THEN Reply(w) ELSE Goto(w, "check_blacklist")
    /\ UNCHANGED <<now, exp, entry, history>>

\* Mutant: a malformed key, never found.
CheckNothing(w) ==
    /\ At(w, "check_blacklist")
    /\ Goto(w, "load_user")
    /\ UNCHANGED <<now, exp, entry, history>>

\* is_token_blacklisted: Redis answers, or it fails and the request passes.
CheckBlacklist(w) ==
    /\ At(w, "check_blacklist")
    /\ \/ /\ IF InBlacklist(req[w].jti) THEN Reply(w) ELSE Goto(w, "load_user")
          /\ UNCHANGED failed
       \/ /\ RedisMayFail
          /\ failed' = failed \cup {req[w].jti}
          /\ Goto(w, "load_user")
    /\ UNCHANGED <<now, exp, entry, marked, signedOut, answered, died>>

\* The user is gone or disabled.
UserRefused(w) ==
    /\ At(w, "load_user")
    /\ Reply(w)
    /\ UNCHANGED <<now, exp, entry, history>>

\* Any other endpoint: the handler runs as this user.
Accept(w) ==
    /\ At(w, "load_user")
    /\ req[w].op = "use"
    /\ Reply(w)
    /\ UNCHANGED <<now, exp, entry, history>>

\* logout's router decodes the JWT again, outside any try: a token that
\* expired since Decode ends in a 500 and nothing is signed out.
DecodeAgain(w) ==
    /\ At(w, "load_user")
    /\ req[w].op = "logout"
    /\ IF Expired(req[w].jti) THEN Reply(w) ELSE Goto(w, "blacklist_token")
    /\ UNCHANGED <<now, exp, entry, history>>

\* Mutants: a TTL that is one tick short; a TTL of the wrong sign; and a
\* logout that is done when Redis is.
BlacklistTooShort(w) ==
    /\ At(w, "blacklist_token")
    /\ entry' = [entry EXCEPT ![req[w].jti] = now + BlacklistTtl - 1]
    /\ marked' = marked \cup {req[w].jti}
    /\ Goto(w, "revoke_refresh")
    /\ UNCHANGED <<now, exp, signedOut, answered, failed, died>>
BlacklistBackdated(w) ==
    /\ At(w, "blacklist_token")
    /\ entry' = [entry EXCEPT ![req[w].jti] = now - BlacklistTtl]
    /\ marked' = marked \cup {req[w].jti}
    /\ Goto(w, "revoke_refresh")
    /\ UNCHANGED <<now, exp, signedOut, answered, failed, died>>
BlacklistAndReply(w) ==
    /\ At(w, "blacklist_token")
    /\ entry' = [entry EXCEPT ![req[w].jti] = now + BlacklistTtl]
    /\ marked' = marked \cup {req[w].jti}
    /\ Goto(w, "audit")
    /\ UNCHANGED <<now, exp, signedOut, answered, failed, died>>

\* Step 1.  SETEX, or a warning in the log.
BlacklistToken(w) ==
    LET j == req[w].jti
    IN  /\ At(w, "blacklist_token")
        /\ \/ /\ entry' = [entry EXCEPT ![j] = now + BlacklistTtl]
              /\ marked' = marked \cup {j}
              /\ UNCHANGED failed
           \/ /\ RedisMayFail
              /\ failed' = failed \cup {j}
              /\ UNCHANGED <<entry, marked>>
        /\ Goto(w, "revoke_refresh")
        /\ UNCHANGED <<now, exp, signedOut, answered, died>>

\* Steps 2 and 3, in PostgreSQL: see TokenLifecycle.
RevokeRefresh(w) ==
    /\ At(w, "revoke_refresh")
    /\ signedOut' = signedOut \cup {req[w].jti}
    /\ Goto(w, "audit")
    /\ UNCHANGED <<now, exp, entry, marked, answered, failed, died>>

\* The audit record, then 200.
LogoutReply(w) ==
    /\ At(w, "audit")
    /\ answered' = answered \cup {req[w].jti}
    /\ Reply(w)
    /\ UNCHANGED <<now, exp, entry, marked, signedOut, failed, died>>

-----------------------------------------------------------------------------
Crash(w) ==
    /\ ~At(w, "idle")
    /\ died' = IF At(w, "revoke_refresh") THEN died \cup {req[w].jti} ELSE died
    /\ Reply(w)
    /\ UNCHANGED <<now, exp, entry, marked, signedOut, answered, failed>>

\* Redis runs with maxmemory-policy allkeys-lru: any key may go early.
Evict(j) ==
    /\ RedisMayFail
    /\ InBlacklist(j)
    /\ entry' = [entry EXCEPT ![j] = 0]
    /\ failed' = failed \cup {j}
    /\ UNCHANGED <<now, exp, req, marked, signedOut, answered, died>>

Tick ==
    /\ now < MaxTime
    /\ now' = now + 1
    /\ UNCHANGED <<exp, entry, req, history>>

Next ==
    \/ \E j \in Jtis : CreateAccessToken(j) \/ Evict(j)
    \/ \E w \in Workers :
          \/ Receive(w) \/ Decode(w) \/ CheckBlacklist(w) \/ UserRefused(w) \/ Accept(w)
          \/ DecodeAgain(w) \/ BlacklistToken(w) \/ RevokeRefresh(w) \/ LogoutReply(w)
          \/ Crash(w)
    \/ Tick

Spec == Init /\ [][Next]_vars

-----------------------------------------------------------------------------
(* Properties *)

\* A blacklist entry does not run out before the token it is for.
EntryOutlivesToken ==
    \A j \in marked \ failed : Expired(j) \/ InBlacklist(j)

\* A request made after logout answered gets no further than the blacklist,
\* unless Redis failed for that token -- or the token expired between the
\* request's decode and Redis' answer, when its entry may be gone as well.
\* (logout: "Blacklist the access token in Redis (immediate invalidation)".)
LogoutInvalidates ==
    \A w \in Workers :
        At(w, "load_user") /\ req[w].late =>
            req[w].jti \in failed \/ Expired(req[w].jti)

\* An access token is never blacklisted while its refresh token goes on
\* working, except while logout is between the two or after it died there;
\* and a failing Redis never keeps logout from the refresh token.
\* (blacklist_token: "The caller still revokes the refresh token and session
\* in Postgres regardless of whether the Redis write succeeds".)
LogoutIsWhole ==
    /\ \A j \in marked : \/ j \in signedOut \/ j \in died
                         \/ \E w \in Workers : At(w, "revoke_refresh") /\ req[w].jti = j
    /\ answered \subseteq signedOut \cap (marked \cup failed)
=============================================================================
