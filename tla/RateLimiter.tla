---------------------------- MODULE RateLimiter ----------------------------
(***************************************************************************)
(* RateLimitMiddleware.dispatch and check_rate_limit: a sliding window per *)
(* client IP and per user, kept in Redis sorted sets.                      *)
(*                                                                         *)
(* The Lua script is atomic, but the time it works with is not Redis': the *)
(* API reads its clock before it sends the script, so scripts can run      *)
(* late, and out of the order of their timestamps.  How late is MaxLatency.*)
(* X-Forwarded-For and the bearer's JWT are read into an ip and a user;    *)
(* exempt paths and a disabled limiter reach no state and are left out.    *)
(***************************************************************************)
EXTENDS Integers, FiniteSets

CONSTANTS
    Requests,       \* HTTP requests, each with the uuid in its member
    Ips,            \* values of _get_client_ip
    UserIds,        \* values of _extract_user_id
    None,           \* no valid bearer token
    Limit,          \* self.limit
    Window,         \* self.window_seconds, in ticks
    MaxLatency,     \* ticks from time.time() to the script, at most
    RedisMayFail,   \* the script may fail, and Redis may evict a key
    MaxTime         \* bound: the clock stops here

ASSUME KeysAreApart == Ips \cap UserIds = {} /\ None \notin Ips \cup UserIds
ASSUME WindowIsLonger ==
    /\ Limit \in Nat \ {0} /\ Window \in Nat \ {0} /\ MaxLatency \in Nat
    /\ RedisMayFail \in BOOLEAN

VARIABLES
    now,        \* the clock, in ticks from 1
    zset,       \* zset[k]: the sorted set at key k, members with scores
    expiry,     \* expiry[k]: when PEXPIRE drops it, 0 if it never does
    req,        \* req[r]: where dispatch is with request r
    admitted,   \* history: admitted[k], the requests k's script let through, and when
    evicted     \* history: keys Redis lost

vars == <<now, zset, expiry, req, admitted, evicted>>

Keys    == Ips \cup UserIds
PCs     == {"client", "eval_ip", "ip_allowed", "eval_user", "done"}

\* stamp: the timestamp on its way to Redis, 0 when there is none.
Dispatch == [pc : PCs, ip : Ips \cup {None}, user : UserIds \cup {None}, stamp : Nat]

At(r, pc) == req[r].pc = pc

Unsent == [pc |-> "client", ip |-> None, user |-> None, stamp |-> 0]

TypeOK ==
    /\ now \in Nat
    /\ zset \in [Keys -> SUBSET [member : Requests, score : Nat]]
    /\ expiry \in [Keys -> Nat]
    /\ req \in [Requests -> Dispatch]
    /\ admitted \in [Keys -> SUBSET [member : Requests, at : Nat]]
    /\ evicted \subseteq Keys

Init ==
    /\ now = 1
    /\ zset = [k \in Keys |-> {}]
    /\ expiry = [k \in Keys |-> 0]
    /\ req = [r \in Requests |-> Unsent]
    /\ admitted = [k \in Keys |-> {}]
    /\ evicted = {}

-----------------------------------------------------------------------------
\* Mutant: the two keys swapped.
ReceiveSwapped(r) == \E ip \in Ips, user \in UserIds \cup {None} :
    /\ At(r, "client")
    /\ req' = [req EXCEPT ![r] = [pc |-> "eval_ip", ip |-> user, user |-> ip, stamp |-> now]]
    /\ UNCHANGED <<now, zset, expiry, admitted, evicted>>

\* check_rate_limit reads the clock, then awaits the script: here for the IP.
Receive(r) == \E ip \in Ips, user \in UserIds \cup {None} :
    /\ At(r, "client")
    /\ req' = [req EXCEPT ![r] = [pc |-> "eval_ip", ip |-> ip, user |-> user, stamp |-> now]]
    /\ UNCHANGED <<now, zset, expiry, admitted, evicted>>

\* Mutant: the script does not trim the set.
KeptForever(r, k) == zset[k]

\* ZREMRANGEBYSCORE key -inf (ARGV now) - window.
Kept(r, k) == {e \in zset[k] : e.score > req[r].stamp - Window}

\* call_next, or 429: dispatch is over.
Finish(r) == req' = [req EXCEPT ![r] = [Unsent EXCEPT !.pc = "done"]]

\* After the IP's check the user's, if there is a user, and then call_next.
Proceed(r) ==
    IF At(r, "eval_ip") /\ req[r].user # None
    THEN req' = [req EXCEPT ![r].pc = "ip_allowed", ![r].ip = None, ![r].stamp = 0]
    ELSE Finish(r)

\* Mutants: the limit is off by one; the script forgets PEXPIRE.
AllowOneMore(r, k) ==
    /\ Cardinality(Kept(r, k)) <= Limit
    /\ zset' = [zset EXCEPT ![k] = Kept(r, k) \cup {[member |-> r, score |-> req[r].stamp]}]
    /\ expiry' = [expiry EXCEPT ![k] = now + Window]
    /\ admitted' = [admitted EXCEPT ![k] = @ \cup {[member |-> r, at |-> now]}]
    /\ Proceed(r)
    /\ UNCHANGED <<now, evicted>>
AllowUnexpiring(r, k) ==
    /\ Cardinality(Kept(r, k)) < Limit
    /\ zset' = [zset EXCEPT ![k] = Kept(r, k) \cup {[member |-> r, score |-> req[r].stamp]}]
    /\ admitted' = [admitted EXCEPT ![k] = @ \cup {[member |-> r, at |-> now]}]
    /\ Proceed(r)
    /\ UNCHANGED <<now, expiry, evicted>>

\* The Lua script for key k.
Allow(r, k) ==
    /\ Cardinality(Kept(r, k)) < Limit
    /\ zset' = [zset EXCEPT ![k] = Kept(r, k) \cup {[member |-> r, score |-> req[r].stamp]}]
    /\ expiry' = [expiry EXCEPT ![k] = now + Window]
    /\ admitted' = [admitted EXCEPT ![k] = @ \cup {[member |-> r, at |-> now]}]
    /\ Proceed(r)
    /\ UNCHANGED <<now, evicted>>

Deny(r, k) ==
    /\ Cardinality(Kept(r, k)) >= Limit
    /\ zset' = [zset EXCEPT ![k] = Kept(r, k)]
    /\ Finish(r)
    /\ UNCHANGED <<now, expiry, admitted, evicted>>

\* Fail open: no answer, so allowed; the script may have trimmed the set.
FailOpen(r, k) ==
    /\ RedisMayFail
    /\ zset' \in {zset, [zset EXCEPT ![k] = Kept(r, k)]}
    /\ Proceed(r)
    /\ UNCHANGED <<now, expiry, admitted, evicted>>

Eval(r, k) == Allow(r, k) \/ Deny(r, k) \/ FailOpen(r, k)

EvalIp(r) == At(r, "eval_ip") /\ Eval(r, req[r].ip)

\* The second check_rate_limit, with a new timestamp.
CheckUser(r) ==
    /\ At(r, "ip_allowed")
    /\ req' = [req EXCEPT ![r].pc = "eval_user", ![r].stamp = now]
    /\ UNCHANGED <<now, zset, expiry, admitted, evicted>>

EvalUser(r) == At(r, "eval_user") /\ Eval(r, req[r].user)

\* maxmemory-policy allkeys-lru.
Evict(k) ==
    /\ RedisMayFail
    /\ zset[k] # {}
    /\ zset' = [zset EXCEPT ![k] = {}]
    /\ expiry' = [expiry EXCEPT ![k] = 0]
    /\ evicted' = evicted \cup {k}
    /\ UNCHANGED <<now, req, admitted>>

\* Redis drops the keys whose PEXPIRE is over.  No script stays on its way for
\* longer than MaxLatency.  The history keeps what a property may still count.
Tick ==
    /\ now < MaxTime
    /\ \A r \in Requests : At(r, "eval_ip") \/ At(r, "eval_user") => now < req[r].stamp + MaxLatency
    /\ now' = now + 1
    /\ zset' = [k \in Keys |-> IF expiry[k] = now + 1 THEN {} ELSE zset[k]]
    /\ expiry' = [k \in Keys |-> IF expiry[k] = now + 1 THEN 0 ELSE expiry[k]]
    /\ admitted' = [k \in Keys |-> {a \in admitted[k] : a.at + Window + MaxLatency > now}]
    /\ UNCHANGED <<req, evicted>>

Next ==
    \/ \E r \in Requests : Receive(r) \/ EvalIp(r) \/ CheckUser(r) \/ EvalUser(r)
    \/ \E k \in Keys : Evict(k)
    \/ Tick

Spec == Init /\ [][Next]_vars

-----------------------------------------------------------------------------
(* Properties *)

Since(k, t) == {a \in admitted[k] : a.at > t}

\* No key lets more than Limit requests through in any stretch of Window, less
\* the latency between the timestamp and the script: that is what the late
\* clock costs.  (Every such stretch ends at some now.)
WindowLimit ==
    \A k \in Keys \ evicted : Cardinality(Since(k, now - (Window - MaxLatency))) <= Limit

\* Nobody is answered 429 unless Limit requests of the same key were let
\* through within the window and the latency: denied requests do not count.
DenialsJustified ==
    [][\A r \in Requests, k \in Keys :
         Deny(r, k) => Cardinality(Since(k, now - Window - MaxLatency)) >= Limit]_vars

\* Retry-After tells the truth: a key that let nothing through for a whole
\* window has room for Limit requests again, whatever timestamps are on the way.
QuietKeyIsFree ==
    \A k \in Keys : Since(k, now - Window) = {} => zset[k] = {}
=============================================================================
