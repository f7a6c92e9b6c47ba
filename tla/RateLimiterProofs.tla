-------------------------- MODULE RateLimiterProofs --------------------------
(***************************************************************************)
(* What the sliding window guarantees, for any limit, window and latency   *)
(* and any number of requests, addresses and users.                        *)
(*                                                                         *)
(* The script counts members of a sorted set by a timestamp that is up to  *)
(* MaxLatency old; the properties count admissions by when they happened.  *)
(* The two are matched member by member, in both directions: every recent  *)
(* member was admitted no earlier than its score says (Justified), and, on *)
(* a key Redis did not evict, every recent admission still has its member  *)
(* in the set (Counted).  A request is put to a key's script once, so      *)
(* members are distinct and the matching is one of numbers too.            *)
(***************************************************************************)
EXTENDS RateLimiter, FiniteSetTheorems, TLAPS

Evaluating(r) == At(r, "eval_ip") \/ At(r, "eval_user")

\* r's script runs against k.
EvaluatingAt(r, k) ==
    \/ At(r, "eval_ip") /\ k \in Ips /\ k = req[r].ip
    \/ At(r, "eval_user") /\ k \in UserIds /\ k = req[r].user

\* Where a request is once k's script has answered it.
Past(k) == IF k \in Ips THEN {"ip_allowed", "eval_user", "done"} ELSE {"done"}

Shape == \A r \in Requests :
    /\ At(r, "eval_ip") => req[r].ip \in Ips
    /\ At(r, "ip_allowed") \/ At(r, "eval_user") => req[r].user \in UserIds

Timely == \A r \in Requests :
    Evaluating(r) => req[r].stamp <= now /\ now <= req[r].stamp + MaxLatency

\* One member, and one admission, for each request that is past k.
Distinct(S) == \A x, y \in S : x.member = y.member => x = y
OncePast(k) ==
    /\ IsFiniteSet(zset[k]) /\ IsFiniteSet(admitted[k])
    /\ Distinct(zset[k]) /\ Distinct(admitted[k])
    /\ \A e \in zset[k] : req[e.member].pc \in Past(k)
    /\ \A a \in admitted[k] : req[a.member].pc \in Past(k) /\ a.at <= now
Once == \A k \in Keys : OncePast(k)

\* PEXPIRE is one window after the last admission.
Fed(k) == zset[k] # {} => expiry[k] > now /\ \E a \in admitted[k] : a.at + Window = expiry[k]

JustifiedAt(k) == \A e \in zset[k] :
    e.score > now - Window - MaxLatency =>
        \E a \in admitted[k] : a.member = e.member /\ a.at >= e.score
Justified == \A k \in Keys : JustifiedAt(k) /\ Fed(k)

CountedAt(k) == \A a \in admitted[k] :
    /\ a.at > now - (Window - MaxLatency) =>
          \E e \in zset[k] : e.member = a.member /\ e.score + MaxLatency >= a.at
    /\ a.at > now - Window => expiry[k] >= a.at + Window
Counted == \A k \in Keys \ evicted : CountedAt(k)

-----------------------------------------------------------------------------
(* Counting *)

\* Members that are distinct, each found in T, are no more than T has.
LEMMA OneEach ==
    ASSUME NEW S, NEW T, IsFiniteSet(S), IsFiniteSet(T), Distinct(S),
           \A x \in S : \E y \in T : y.member = x.member
    PROVE  Cardinality(S) <= Cardinality(T)
<1> DEFINE f == [x \in S |-> CHOOSE y \in T : y.member = x.member]
<1>1. Cardinality(S) \in Nat /\ Cardinality(T) \in Nat  BY FS_CardinalityType
<1>2. f \in [S -> T] /\ \A x \in S : f[x].member = x.member  OBVIOUS
<1>3. ASSUME Cardinality(T) < Cardinality(S) PROVE FALSE
  <2> HIDE DEF f
  <2>1. \E x, y \in S : x # y /\ f[x] = f[y]  BY <1>2, <1>3, FS_PigeonHole
  <2> QED  BY <1>2, <2>1 DEF Distinct
<1> QED  BY <1>1, <1>3

-----------------------------------------------------------------------------
(* dispatch moves forward *)

\* The script's answer takes r past k, whatever it is; nobody else moves.
LEMMA EvalMoves ==
    ASSUME TypeOK, NEW r \in Requests, NEW k \in Keys, EvaluatingAt(r, k), Eval(r, k)
    PROVE  /\ req' \in [Requests -> Dispatch]
           /\ \A q \in Requests : q # r => req'[q] = req[q]
           /\ req[r].pc \notin Past(k) /\ req'[r].pc \in Past(k)
           /\ \A l \in Keys : req[r].pc \in Past(l) => req'[r].pc \in Past(l)
           /\ req'[r].pc = "done" \/ (req'[r].pc = "ip_allowed" /\ req'[r].user \in UserIds)
<1>1. req[r] \in Dispatch /\ DOMAIN req = Requests  BY DEF TypeOK
<1>2. CASE Finish(r)
  <2>1. [Unsent EXCEPT !.pc = "done"] \in Dispatch  BY DEF Unsent, Dispatch, PCs
  <2> QED  BY <1>1, <1>2, <2>1, KeysAreApart DEF Finish, TypeOK, EvaluatingAt, At, Past, Unsent, Keys
<1>3. CASE At(r, "eval_ip") /\ req[r].user # None /\
           req' = [req EXCEPT ![r].pc = "ip_allowed", ![r].ip = None, ![r].stamp = 0]
  <2>1. [req[r] EXCEPT !.pc = "ip_allowed", !.ip = None, !.stamp = 0] \in Dispatch
    BY <1>1 DEF Dispatch, PCs
  <2>2. req' = [req EXCEPT ![r] = [req[r] EXCEPT !.pc = "ip_allowed", !.ip = None, !.stamp = 0]]
    BY <1>3
  <2>3. req[r].user \in UserIds  BY <1>1, <1>3 DEF Dispatch
  <2>4. req'[r].pc = "ip_allowed" /\ req'[r].user = req[r].user
    BY <1>1, <2>2 DEF Dispatch
  <2>5. k \in Ips  BY <1>3 DEF EvaluatingAt, At
  <2>6. req' \in [Requests -> Dispatch]  BY <2>1, <2>2 DEF TypeOK
  <2>7. \A q \in Requests : q # r => req'[q] = req[q]  BY <1>1, <2>2
  <2> QED  BY <1>3, <2>3, <2>4, <2>5, <2>6, <2>7 DEF At, Past
<1>4. Finish(r) \/ (At(r, "eval_ip") /\ req[r].user # None /\
        req' = [req EXCEPT ![r].pc = "ip_allowed", ![r].ip = None, ![r].stamp = 0])
  BY DEF Eval, Allow, Deny, FailOpen, Proceed
<1> QED  BY <1>2, <1>3, <1>4

\* A step of dispatch: a new timestamp, or a script at one key.
LEMMA StepKinds ==
    ASSUME TypeOK, Shape, NEW r \in Requests,
           Receive(r) \/ EvalIp(r) \/ CheckUser(r) \/ EvalUser(r)
    PROVE  \/ /\ Receive(r) \/ CheckUser(r)
              /\ UNCHANGED <<now, zset, expiry, admitted, evicted>>
           \/ \E k \in Keys : EvaluatingAt(r, k) /\ Eval(r, k)
BY DEF Shape, Receive, CheckUser, EvalIp, EvalUser, EvaluatingAt, Keys, At

\* Asking again reads the clock again.
LEMMA AskMoves ==
    ASSUME TypeOK, Shape, NEW r \in Requests, Receive(r) \/ CheckUser(r)
    PROVE  /\ req' \in [Requests -> Dispatch]
           /\ \A q \in Requests : q # r => req'[q] = req[q]
           /\ \A l \in Keys : req[r].pc \in Past(l) => req'[r].pc \in Past(l)
           /\ req'[r].stamp = now
           /\ \/ req'[r].pc = "eval_ip" /\ req'[r].ip \in Ips
              \/ req'[r].pc = "eval_user" /\ req'[r].user \in UserIds
<1>1. req[r] \in Dispatch /\ DOMAIN req = Requests /\ now \in Nat  BY DEF TypeOK
<1>2. CASE Receive(r)
  <2>1. PICK ip \in Ips, user \in UserIds \cup {None} :
          /\ At(r, "client")
          /\ req' = [req EXCEPT ![r] = [pc |-> "eval_ip", ip |-> ip, user |-> user, stamp |-> now]]
    BY <1>2 DEF Receive
  <2>2. [pc |-> "eval_ip", ip |-> ip, user |-> user, stamp |-> now] \in Dispatch
    BY <1>1 DEF Dispatch, PCs
  <2> QED  BY <1>1, <2>1, <2>2 DEF TypeOK, At, Past
<1>3. CASE CheckUser(r)
  <2>1. [req[r] EXCEPT !.pc = "eval_user", !.stamp = now] \in Dispatch  BY <1>1 DEF Dispatch, PCs
  <2>2. req' = [req EXCEPT ![r] = [req[r] EXCEPT !.pc = "eval_user", !.stamp = now]]
    BY <1>3 DEF CheckUser
  <2>3. req[r].user \in UserIds /\ req[r].pc = "ip_allowed"  BY <1>3 DEF CheckUser, Shape, At
  <2>4. req'[r].pc = "eval_user" /\ req'[r].user = req[r].user /\ req'[r].stamp = now
    BY <1>1, <2>2 DEF Dispatch
  <2>5. req' \in [Requests -> Dispatch]  BY <2>1, <2>2 DEF TypeOK
  <2>6. \A q \in Requests : q # r => req'[q] = req[q]  BY <1>1, <2>2
  <2> QED  BY <2>3, <2>4, <2>5, <2>6 DEF Past
<1> QED  BY <1>2, <1>3

-----------------------------------------------------------------------------
(* Types, and what dispatch has in hand *)

\* Which parts of a script's step can matter to a key.
LEMMA EvalEffect ==
    ASSUME NEW r \in Requests, NEW k \in Keys, Eval(r, k), TypeOK
    PROVE  /\ UNCHANGED <<now, evicted>>
           /\ \A l \in Keys : l # k =>
                 zset'[l] = zset[l] /\ expiry'[l] = expiry[l] /\ admitted'[l] = admitted[l]
           /\ \/ /\ zset'[k] \subseteq zset[k] /\ Kept(r, k) \subseteq zset'[k]
                 /\ expiry'[k] = expiry[k] /\ admitted'[k] = admitted[k]
              \/ /\ Cardinality(Kept(r, k)) < Limit
                 /\ zset'[k] = Kept(r, k) \cup {[member |-> r, score |-> req[r].stamp]}
                 /\ expiry'[k] = now + Window
                 /\ admitted'[k] = admitted[k] \cup {[member |-> r, at |-> now]}
           /\ DOMAIN zset' = Keys /\ DOMAIN expiry' = Keys /\ DOMAIN admitted' = Keys
           /\ zset' = [l \in Keys |-> zset'[l]]
           /\ expiry' = [l \in Keys |-> expiry'[l]]
           /\ admitted' = [l \in Keys |-> admitted'[l]]
<1> USE DEF TypeOK, Kept
<1>1. CASE Allow(r, k)  BY <1>1 DEF Allow
<1>2. CASE Deny(r, k)  BY <1>2 DEF Deny
<1>3. CASE FailOpen(r, k)
  <2>1. CASE zset' = zset  BY <1>3, <2>1 DEF FailOpen
  <2>2. CASE zset' = [zset EXCEPT ![k] = Kept(r, k)]  BY <1>3, <2>2 DEF FailOpen
  <2> QED  BY <1>3, <2>1, <2>2 DEF FailOpen
<1> QED  BY <1>1, <1>2, <1>3 DEF Eval

LEMMA TypeStep == TypeOK /\ Shape /\ [Next]_vars => TypeOK'
<1> SUFFICES ASSUME TypeOK, Shape, [Next]_vars PROVE TypeOK'
  OBVIOUS
<1>1. ASSUME NEW r \in Requests, Receive(r) \/ CheckUser(r),
             UNCHANGED <<now, zset, expiry, admitted, evicted>>
      PROVE  TypeOK'
  BY <1>1, AskMoves DEF TypeOK
<1>2. ASSUME NEW r \in Requests, NEW k \in Keys, EvaluatingAt(r, k), Eval(r, k) PROVE TypeOK'
  <2>1. req' \in [Requests -> Dispatch]  BY <1>2, EvalMoves
  <2>2. [member |-> r, score |-> req[r].stamp] \in [member : Requests, score : Nat]
        /\ [member |-> r, at |-> now] \in [member : Requests, at : Nat] /\ now + Window \in Nat
    BY WindowIsLonger DEF TypeOK, Dispatch
  <2>3. Kept(r, k) \subseteq zset[k]  BY DEF Kept
  <2>4. ASSUME NEW l \in Keys
        PROVE  /\ zset'[l] \subseteq [member : Requests, score : Nat] /\ expiry'[l] \in Nat
               /\ admitted'[l] \subseteq [member : Requests, at : Nat]
    <3>1. CASE l = k  BY <1>2, <2>2, <2>3, <3>1, EvalEffect DEF TypeOK
    <3>2. CASE l # k  BY <1>2, <3>2, EvalEffect DEF TypeOK
    <3> QED  BY <3>1, <3>2
  <2>5. /\ zset' = [l \in Keys |-> zset'[l]] /\ expiry' = [l \in Keys |-> expiry'[l]]
        /\ admitted' = [l \in Keys |-> admitted'[l]] /\ UNCHANGED <<now, evicted>>
    BY <1>2, EvalEffect
  <2>6. zset' \in [Keys -> SUBSET [member : Requests, score : Nat]]  BY <2>4, <2>5
  <2>7. expiry' \in [Keys -> Nat]  BY <2>4, <2>5
  <2>8. admitted' \in [Keys -> SUBSET [member : Requests, at : Nat]]  BY <2>4, <2>5
  <2> QED  BY <2>1, <2>5, <2>6, <2>7, <2>8 DEF TypeOK
<1>3. ASSUME NEW k \in Keys, Evict(k) PROVE TypeOK'  BY <1>3 DEF Evict, TypeOK
<1>4. CASE Tick
  <2>1. zset' \in [Keys -> SUBSET [member : Requests, score : Nat]]  BY <1>4 DEF Tick, TypeOK
  <2>2. admitted' \in [Keys -> SUBSET [member : Requests, at : Nat]]
    <3>1. \A k \in Keys : {a \in admitted[k] : a.at + Window + MaxLatency > now}
                             \in SUBSET [member : Requests, at : Nat]
      BY DEF TypeOK
    <3> QED  BY <1>4, <3>1 DEF Tick
  <2>3. expiry' \in [Keys -> Nat] /\ now' \in Nat  BY <1>4 DEF Tick, TypeOK
  <2> QED  BY <1>4, <2>1, <2>2, <2>3 DEF Tick, TypeOK
<1>5. CASE UNCHANGED vars  BY <1>5 DEF vars, TypeOK
<1> QED  BY <1>1, <1>2, <1>3, <1>4, <1>5, StepKinds DEF Next

\* No script is on its way for longer than MaxLatency.
LEMMA TimelyStep == TypeOK /\ Shape /\ Timely /\ [Next]_vars => Shape' /\ Timely'
<1> SUFFICES ASSUME TypeOK, Shape, Timely, [Next]_vars PROVE Shape' /\ Timely'
  OBVIOUS
<1> USE DEF Shape, Timely, Evaluating, At
<1>1. \A r \in Requests : req[r].stamp \in Nat /\ now \in Nat  BY DEF TypeOK, Dispatch
<1>2. ASSUME NEW r \in Requests, Receive(r) \/ CheckUser(r),
             UNCHANGED <<now, zset, expiry, admitted, evicted>>
      PROVE  Shape' /\ Timely'
  BY <1>1, <1>2, AskMoves, WindowIsLonger
<1>3. ASSUME NEW r \in Requests, NEW k \in Keys, EvaluatingAt(r, k), Eval(r, k)
      PROVE  Shape' /\ Timely'
  <2>1. now' = now  BY <1>3, EvalEffect
  <2> QED  BY <1>1, <1>3, <2>1, EvalMoves
<1>4. ASSUME NEW k \in Keys, Evict(k) PROVE Shape' /\ Timely'  BY <1>4 DEF Evict
<1>5. CASE Tick  BY <1>1, <1>5, WindowIsLonger DEF Tick
<1>6. CASE UNCHANGED vars  BY <1>6 DEF vars
<1> QED  BY <1>2, <1>3, <1>4, <1>5, <1>6, StepKinds DEF Next

-----------------------------------------------------------------------------
(* The matching *)

\* A request is put to a key's script once.
LEMMA OnceStep == TypeOK /\ Shape /\ Once /\ [Next]_vars => Once'
<1> SUFFICES ASSUME TypeOK, Shape, Once, [Next]_vars, NEW l \in Keys PROVE OncePast(l)'
  BY DEF Once
<1>1. OncePast(l)  BY DEF Once
<1>2. /\ zset[l] \subseteq [member : Requests, score : Nat]
      /\ admitted[l] \subseteq [member : Requests, at : Nat]
      /\ now \in Nat
  BY DEF TypeOK
<1>3. ASSUME NEW r \in Requests, Receive(r) \/ CheckUser(r),
             UNCHANGED <<now, zset, expiry, admitted, evicted>>
      PROVE  OncePast(l)'
  <2>1. \A q \in Requests : req[q].pc \in Past(l) => req'[q].pc \in Past(l)  BY <1>3, AskMoves
  <2> QED  BY <1>1, <1>2, <1>3, <2>1 DEF OncePast
<1>4. ASSUME NEW r \in Requests, NEW k \in Keys, EvaluatingAt(r, k), Eval(r, k)
      PROVE  OncePast(l)'
  <2>1. \A q \in Requests : req[q].pc \in Past(l) => req'[q].pc \in Past(l)  BY <1>4, EvalMoves
  <2>2. now' = now  BY <1>4, EvalEffect
  <2>3. CASE zset'[l] \subseteq zset[l] /\ admitted'[l] = admitted[l]
    <3>1. IsFiniteSet(zset'[l])  BY <1>1, <2>3, FS_Subset DEF OncePast
    <3> QED  BY <1>1, <1>2, <2>1, <2>2, <2>3, <3>1 DEF OncePast, Distinct
  <2>4. CASE /\ l = k
             /\ zset'[k] = Kept(r, k) \cup {[member |-> r, score |-> req[r].stamp]}
             /\ admitted'[k] = admitted[k] \cup {[member |-> r, at |-> now]}
    <3>1. Kept(r, k) \subseteq zset[k]  BY DEF Kept
    <3>2. req[r].pc \notin Past(k) /\ req'[r].pc \in Past(k)  BY <1>4, EvalMoves
    <3>3. IsFiniteSet(zset'[l]) /\ IsFiniteSet(admitted'[l])
      BY <1>1, <2>4, <3>1, FS_Subset, FS_AddElement DEF OncePast
    <3>4. Distinct(zset[l])' /\ Distinct(admitted[l])'
      BY <1>1, <2>4, <3>1, <3>2 DEF OncePast, Distinct
    <3>5. \A e \in zset'[l] : req'[e.member].pc \in Past(l)
      BY <1>1, <1>2, <2>1, <2>4, <3>1, <3>2 DEF OncePast
    <3>6. \A a \in admitted'[l] : req'[a.member].pc \in Past(l) /\ a.at <= now
      BY <1>1, <1>2, <2>1, <2>4, <3>2 DEF OncePast
    <3> QED  BY <2>2, <3>3, <3>4, <3>5, <3>6 DEF OncePast
  <2> QED  BY <1>4, <2>3, <2>4, EvalEffect
<1>5. ASSUME NEW k \in Keys, Evict(k) PROVE OncePast(l)'
  <2>1. zset'[l] = zset[l] \/ zset'[l] = {}  BY <1>5 DEF Evict, TypeOK
  <2> QED  BY <1>1, <1>5, <2>1, FS_EmptySet DEF Evict, OncePast, Distinct
<1>6. CASE Tick
  <2>1. zset'[l] \subseteq zset[l] /\ admitted'[l] \subseteq admitted[l] /\ now' = now + 1
    BY <1>6 DEF Tick
  <2>2. IsFiniteSet(zset'[l]) /\ IsFiniteSet(admitted'[l])
    BY <1>1, <2>1, FS_Subset DEF OncePast
  <2>3. Distinct(zset[l])' /\ Distinct(admitted[l])'  BY <1>1, <2>1 DEF OncePast, Distinct
  <2>4. \A a \in admitted'[l] : a.at <= now'  BY <1>1, <1>2, <2>1 DEF OncePast
  <2> QED  BY <1>1, <1>6, <2>1, <2>2, <2>3, <2>4 DEF Tick, OncePast
<1>7. CASE UNCHANGED vars  BY <1>1, <1>7 DEF vars, OncePast
<1> QED  BY <1>3, <1>4, <1>5, <1>6, <1>7, StepKinds DEF Next

\* Every recent member was admitted no earlier than its score, and a key with
\* members is dropped one window after its last admission.
LEMMA JustifiedStep == TypeOK /\ Shape /\ Timely /\ Justified /\ [Next]_vars => Justified'
<1> SUFFICES ASSUME TypeOK, Shape, Timely, Justified, [Next]_vars, NEW l \in Keys
             PROVE  JustifiedAt(l)' /\ Fed(l)'
  BY DEF Justified
<1>1. JustifiedAt(l) /\ Fed(l)  BY DEF Justified
<1>2. /\ zset[l] \subseteq [member : Requests, score : Nat]
      /\ admitted[l] \subseteq [member : Requests, at : Nat]
      /\ now \in Nat /\ expiry[l] \in Nat
      /\ Window \in Nat \ {0} /\ MaxLatency \in Nat
  BY WindowIsLonger DEF TypeOK
<1> USE DEF JustifiedAt, Fed
<1>3. ASSUME NEW r \in Requests, Receive(r) \/ CheckUser(r),
             UNCHANGED <<now, zset, expiry, admitted, evicted>>
      PROVE  JustifiedAt(l)' /\ Fed(l)'
  BY <1>1, <1>3
<1>4. ASSUME NEW r \in Requests, NEW k \in Keys, EvaluatingAt(r, k), Eval(r, k)
      PROVE  JustifiedAt(l)' /\ Fed(l)'
  <2>1. now' = now  BY <1>4, EvalEffect
  <2>2. CASE zset'[l] \subseteq zset[l] /\ expiry'[l] = expiry[l] /\ admitted'[l] = admitted[l]
    BY <1>1, <2>1, <2>2
  <2>3. CASE /\ l = k
             /\ zset'[k] = Kept(r, k) \cup {[member |-> r, score |-> req[r].stamp]}
             /\ expiry'[k] = now + Window
             /\ admitted'[k] = admitted[k] \cup {[member |-> r, at |-> now]}
    <3>1. Kept(r, k) \subseteq zset[k]  BY DEF Kept
    <3>2. req[r].stamp <= now  BY <1>4 DEF Timely, Evaluating, EvaluatingAt
    <3>3. [member |-> r, at |-> now] \in admitted'[k]  BY <2>3
    <3>4. Fed(l)'
      <4>1. [member |-> r, at |-> now].at + Window = expiry'[l] /\ expiry'[l] > now'
        BY <1>2, <2>1, <2>3
      <4> QED  BY <2>3, <3>3, <4>1
    <3>5. ASSUME NEW e \in zset'[l], e.score > now - Window - MaxLatency
          PROVE  \E a \in admitted'[l] : a.member = e.member /\ a.at >= e.score
      <4>1. CASE e \in zset[l]  BY <1>1, <2>3, <3>5, <4>1
      <4>2. CASE e = [member |-> r, score |-> req[r].stamp]  BY <2>3, <3>2, <3>3, <4>2
      <4> QED  BY <2>3, <3>1, <3>5, <4>1, <4>2
    <3> QED  BY <2>1, <3>4, <3>5
  <2> QED  BY <1>4, <2>2, <2>3, EvalEffect
<1>5. ASSUME NEW k \in Keys, Evict(k) PROVE JustifiedAt(l)' /\ Fed(l)'
  <2>1. zset'[l] = {} \/ (zset'[l] = zset[l] /\ expiry'[l] = expiry[l])
    BY <1>5 DEF Evict, TypeOK
  <2> QED  BY <1>1, <1>5, <2>1 DEF Evict
<1>6. CASE Tick
  <2>1. /\ now' = now + 1
        /\ admitted'[l] = {a \in admitted[l] : a.at + Window + MaxLatency > now}
        /\ zset'[l] = {} \/ (zset'[l] = zset[l] /\ expiry'[l] = expiry[l] /\ expiry[l] # now + 1)
    BY <1>6 DEF Tick
  <2>2. CASE zset'[l] = {}  BY <2>2
  <2>3. CASE zset'[l] = zset[l] /\ expiry'[l] = expiry[l] /\ expiry[l] # now + 1
    <3>1. Fed(l)'  BY <1>1, <1>2, <2>1, <2>3
    <3>2. JustifiedAt(l)'  BY <1>1, <1>2, <2>1, <2>3
    <3> QED  BY <3>1, <3>2
  <2> QED  BY <2>1, <2>2, <2>3
<1>7. CASE UNCHANGED vars  BY <1>1, <1>7 DEF vars
<1> QED  BY <1>3, <1>4, <1>5, <1>6, <1>7, StepKinds DEF Next

\* What a script trims is too old to be counted.
LEMMA KeptMatches ==
    ASSUME TypeOK, Timely, NEW r \in Requests, NEW k \in Keys, EvaluatingAt(r, k), CountedAt(k),
           NEW a \in admitted[k], a.at > now - (Window - MaxLatency)
    PROVE  \E e \in Kept(r, k) : e.member = a.member /\ e.score + MaxLatency >= a.at
<1>1. req[r].stamp \in Nat /\ req[r].stamp <= now /\ now <= req[r].stamp + MaxLatency
  BY DEF Timely, Evaluating, EvaluatingAt, TypeOK, Dispatch
<1>2. PICK e \in zset[k] : e.member = a.member /\ e.score + MaxLatency >= a.at
  BY DEF CountedAt
<1>3. e.score > req[r].stamp - Window
  <2>1. e.score \in Nat /\ a.at \in Nat /\ now \in Nat  BY DEF TypeOK
  <2> QED  BY <1>1, <1>2, <2>1, WindowIsLonger
<1> QED  BY <1>2, <1>3 DEF Kept

\* Every recent admission is still in the set, which is kept long enough.
LEMMA CountedStep == TypeOK /\ Shape /\ Timely /\ Once /\ Counted /\ [Next]_vars => Counted'
<1> SUFFICES ASSUME TypeOK, Shape, Timely, Once, Counted, [Next]_vars,
                    NEW l \in Keys, l \notin evicted'
             PROVE  CountedAt(l)'
  BY DEF Counted
<1>1. l \notin evicted => CountedAt(l)  BY DEF Counted
<1>2. /\ zset[l] \subseteq [member : Requests, score : Nat]
      /\ admitted[l] \subseteq [member : Requests, at : Nat]
      /\ now \in Nat /\ expiry[l] \in Nat
      /\ Window \in Nat \ {0} /\ MaxLatency \in Nat
      /\ \A a \in admitted[l] : a.at <= now
  BY WindowIsLonger DEF TypeOK, Once, OncePast
<1> USE DEF CountedAt
<1>3. ASSUME NEW r \in Requests, Receive(r) \/ CheckUser(r),
             UNCHANGED <<now, zset, expiry, admitted, evicted>>
      PROVE  CountedAt(l)'
  BY <1>1, <1>3
<1>4. ASSUME NEW r \in Requests, NEW k \in Keys, EvaluatingAt(r, k), Eval(r, k)
      PROVE  CountedAt(l)'
  <2>1. now' = now /\ l \notin evicted  BY <1>4, EvalEffect
  <2>2. req[r].stamp \in Nat /\ req[r].stamp <= now /\ now <= req[r].stamp + MaxLatency
    BY <1>4 DEF Timely, Evaluating, EvaluatingAt, TypeOK, Dispatch
  <2>3. CASE l # k  BY <1>1, <1>4, <2>1, <2>3, EvalEffect
  <2>4. \A a \in admitted[k] : l = k /\ a.at > now - (Window - MaxLatency) =>
          \E e \in Kept(r, k) : e.member = a.member /\ e.score + MaxLatency >= a.at
    BY <1>1, <1>4, <2>1, KeptMatches
  <2>5. CASE /\ l = k
             /\ Kept(r, k) \subseteq zset'[k]
             /\ expiry'[k] = expiry[k] /\ admitted'[k] = admitted[k]
    BY <1>1, <2>1, <2>4, <2>5
  <2>6. CASE /\ l = k
             /\ zset'[k] = Kept(r, k) \cup {[member |-> r, score |-> req[r].stamp]}
             /\ expiry'[k] = now + Window
             /\ admitted'[k] = admitted[k] \cup {[member |-> r, at |-> now]}
    <3>1. ASSUME NEW a \in admitted'[l] PROVE expiry'[l] >= a.at + Window
      BY <1>2, <2>6, <3>1
    <3>2. ASSUME NEW a \in admitted'[l], a.at > now - (Window - MaxLatency)
          PROVE  \E e \in zset'[l] : e.member = a.member /\ e.score + MaxLatency >= a.at
      <4>1. CASE a \in admitted[l]  BY <2>4, <2>6, <3>2, <4>1
      <4>2. CASE a = [member |-> r, at |-> now]
        <5>1. [member |-> r, score |-> req[r].stamp] \in zset'[l]  BY <2>6
        <5> QED  BY <2>2, <4>2, <5>1
      <4> QED  BY <2>6, <3>2, <4>1, <4>2
    <3> QED  BY <2>1, <3>1, <3>2
  <2> QED  BY <1>4, <2>3, <2>5, <2>6, EvalEffect
<1>5. ASSUME NEW k \in Keys, Evict(k) PROVE CountedAt(l)'
  <2>1. l # k /\ l \notin evicted  BY <1>5 DEF Evict
  <2> QED  BY <1>1, <1>5, <2>1 DEF Evict, TypeOK
<1>6. CASE Tick
  <2>1. /\ now' = now + 1 /\ l \notin evicted
        /\ admitted'[l] \subseteq admitted[l]
        /\ zset'[l] = IF expiry[l] = now + 1 THEN {} ELSE zset[l]
        /\ expiry'[l] = IF expiry[l] = now + 1 THEN 0 ELSE expiry[l]
    BY <1>6 DEF Tick
  <2>2. CASE expiry[l] = now + 1
    <3>1. ASSUME NEW a \in admitted[l] PROVE ~(a.at > now + 1 - Window)
      BY <1>1, <1>2, <2>1, <2>2, <3>1
    <3>2. ASSUME NEW a \in admitted[l] PROVE ~(a.at > now + 1 - (Window - MaxLatency))
      BY <1>2, <3>1, <3>2
    <3> QED  BY <1>2, <2>1, <3>1, <3>2
  <2>3. CASE expiry[l] # now + 1  BY <1>1, <1>2, <2>1, <2>3
  <2> QED  BY <2>2, <2>3
<1>7. CASE UNCHANGED vars  BY <1>1, <1>7 DEF vars
<1> QED  BY <1>3, <1>4, <1>5, <1>6, <1>7, StepKinds DEF Next

-----------------------------------------------------------------------------
(* The limit *)

\* A script that lets a request through has counted every recent admission.
LEMMA WindowStep ==
    TypeOK /\ Shape /\ Timely /\ Once /\ Once' /\ Counted /\ WindowLimit /\ [Next]_vars => WindowLimit'
<1> SUFFICES ASSUME TypeOK, Shape, Timely, Once, Once', Counted, WindowLimit, [Next]_vars,
                    NEW l \in Keys, l \notin evicted'
             PROVE  Cardinality({a \in admitted'[l] : a.at > now' - (Window - MaxLatency)}) <= Limit
  BY DEF WindowLimit, Since
<1> DEFINE Recent == {a \in admitted[l] : a.at > now - (Window - MaxLatency)}
           Recently == {a \in admitted'[l] : a.at > now' - (Window - MaxLatency)}
<1>1. l \notin evicted => Cardinality(Recent) <= Limit  BY DEF WindowLimit, Since
<1>2. /\ Limit \in Nat /\ Window \in Nat /\ MaxLatency \in Nat /\ now \in Nat
      /\ \A a \in admitted[l] : a.at \in Nat
  BY WindowIsLonger DEF TypeOK
<1>3. /\ IsFiniteSet(Recent) /\ Cardinality(Recent) \in Nat
      /\ IsFiniteSet(Recently) /\ Cardinality(Recently) \in Nat
  <2>1. IsFiniteSet(admitted[l]) /\ IsFiniteSet(admitted'[l])  BY DEF Once, OncePast
  <2>2. Recent \subseteq admitted[l] /\ Recently \subseteq admitted'[l]  OBVIOUS
  <2> HIDE DEF Recent, Recently
  <2> QED  BY <2>1, <2>2, FS_Subset, FS_CardinalityType
<1>4. ASSUME Recently \subseteq Recent, l \notin evicted PROVE Cardinality(Recently) <= Limit
  <2> HIDE DEF Recent, Recently
  <2>1. Cardinality(Recently) <= Cardinality(Recent)  BY <1>3, <1>4, FS_Subset
  <2> QED  BY <1>1, <1>2, <1>3, <1>4, <2>1
<1>5. ASSUME NEW r \in Requests, Receive(r) \/ CheckUser(r),
             UNCHANGED <<now, zset, expiry, admitted, evicted>>
      PROVE  Cardinality(Recently) <= Limit
  BY <1>4, <1>5
<1>6. ASSUME NEW r \in Requests, NEW k \in Keys, EvaluatingAt(r, k), Eval(r, k)
      PROVE  Cardinality(Recently) <= Limit
  <2>1. now' = now /\ l \notin evicted  BY <1>6, EvalEffect
  <2>2. CASE admitted'[l] = admitted[l]  BY <1>4, <2>1, <2>2
  <2>3. CASE /\ l = k
             /\ Cardinality(Kept(r, k)) < Limit
             /\ admitted'[k] = admitted[k] \cup {[member |-> r, at |-> now]}
    <3>1. IsFiniteSet(Kept(r, k)) /\ Cardinality(Kept(r, k)) \in Nat
      <4>1. Kept(r, k) \subseteq zset[k] /\ IsFiniteSet(zset[k])  BY DEF Kept, Once, OncePast
      <4> QED  BY <4>1, FS_Subset, FS_CardinalityType
    <3>2. Distinct(Recent)  BY DEF Once, OncePast, Distinct
    <3>3. \A a \in Recent : \E e \in Kept(r, k) : e.member = a.member
      <4>1. CountedAt(k)  BY <2>1, <2>3 DEF Counted
      <4> QED  BY <1>6, <2>3, <4>1, KeptMatches
    <3>4. Recently \subseteq Recent \cup {[member |-> r, at |-> now]}  BY <2>1, <2>3
    <3> HIDE DEF Recent, Recently
    <3>5. Cardinality(Recent) <= Cardinality(Kept(r, k))  BY <1>3, <3>1, <3>2, <3>3, OneEach
    <3>6. /\ IsFiniteSet(Recent \cup {[member |-> r, at |-> now]})
          /\ Cardinality(Recent \cup {[member |-> r, at |-> now]}) \in Nat
          /\ Cardinality(Recent \cup {[member |-> r, at |-> now]}) <= Cardinality(Recent) + 1
      <4> DEFINE x == [member |-> r, at |-> now]
      <4> HIDE DEF x
      <4>1. IsFiniteSet(Recent \cup {x}) /\ Cardinality(Recent \cup {x}) =
              IF x \in Recent THEN Cardinality(Recent) ELSE Cardinality(Recent) + 1
        BY <1>3, FS_AddElement, Zenon
      <4>2. Cardinality(Recent \cup {x}) \in Nat /\ Cardinality(Recent \cup {x}) <= Cardinality(Recent) + 1
        BY <1>3, <4>1
      <4> QED  BY <4>1, <4>2 DEF x
    <3>7. Cardinality(Recently) <= Cardinality(Recent \cup {[member |-> r, at |-> now]})
      BY <3>4, <3>6, FS_Subset
    <3> QED  BY <1>2, <1>3, <2>3, <3>1, <3>5, <3>6, <3>7
  <2> QED  BY <1>6, <2>2, <2>3, EvalEffect
<1>7. ASSUME NEW k \in Keys, Evict(k) PROVE Cardinality(Recently) <= Limit
  BY <1>4, <1>7 DEF Evict
<1>8. CASE Tick
  <2>1. now' = now + 1 /\ admitted'[l] \subseteq admitted[l] /\ l \notin evicted  BY <1>8 DEF Tick
  <2>2. Recently \subseteq Recent  BY <1>2, <2>1
  <2> QED  BY <1>4, <2>1, <2>2
<1>9. CASE UNCHANGED vars  BY <1>4, <1>9 DEF vars
<1> QED  BY <1>5, <1>6, <1>7, <1>8, <1>9, StepKinds DEF Next

\* A 429 comes from a script, and what that script counted was admitted.
LEMMA DenialStep ==
    ASSUME TypeOK, Shape, Timely, Once, Justified, [Next]_vars, vars' # vars,
           NEW r \in Requests, NEW k \in Keys, Deny(r, k)
    PROVE  Cardinality(Since(k, now - Window - MaxLatency)) >= Limit
<1>1. /\ Window \in Nat /\ MaxLatency \in Nat /\ Limit \in Nat \ {0} /\ now \in Nat
      /\ \A e \in zset[k] : e.score \in Nat
      /\ \A a \in admitted[k] : a.at \in Nat
  BY WindowIsLonger DEF TypeOK
<1>2. /\ req'[r].pc = "done" /\ \A q \in Requests : q # r => req'[q] = req[q]
      /\ zset' = [zset EXCEPT ![k] = Kept(r, k)] /\ now' = now
      /\ Cardinality(Kept(r, k)) >= Limit
  BY DEF Deny, Finish, TypeOK, Unsent
<1>3. Evaluating(r)
  <2>1. ASSUME NEW q \in Requests, Receive(q) \/ CheckUser(q) PROVE FALSE
    <3>1. req'[q].pc # req[q].pc /\ req'[q].pc # "done"
      BY <2>1, AskMoves DEF Receive, CheckUser, At, TypeOK, Dispatch
    <3> QED  BY <1>2, <3>1
  <2>2. ASSUME NEW q \in Requests, NEW l \in Keys, EvaluatingAt(q, l), Eval(q, l)
        PROVE  Evaluating(r)
    <3>1. req'[q] # req[q]  BY <2>2, EvalMoves
    <3> QED  BY <1>2, <2>2, <3>1 DEF Evaluating, EvaluatingAt
  <2>3. ASSUME NEW l \in Keys, Evict(l) PROVE FALSE
    <3>1. zset[l] # {} /\ zset'[l] = {}  BY <2>3 DEF Evict, TypeOK
    <3>2. Kept(r, k) = {}  BY <1>2, <3>1 DEF TypeOK
    <3> QED  BY <1>1, <1>2, <3>2, FS_EmptySet
  <2>4. CASE Tick  BY <1>1, <1>2, <2>4 DEF Tick
  <2> QED  BY <2>1, <2>2, <2>3, <2>4, StepKinds DEF Next
<1>4. req[r].stamp \in Nat /\ now <= req[r].stamp + MaxLatency
  BY <1>3 DEF Timely, TypeOK, Dispatch
<1> DEFINE S == Since(k, now - Window - MaxLatency)
<1>5. \A e \in Kept(r, k) : \E a \in S : a.member = e.member
  <2> SUFFICES ASSUME NEW e \in Kept(r, k) PROVE \E a \in S : a.member = e.member
    OBVIOUS
  <2>1. e \in zset[k] /\ e.score > req[r].stamp - Window  BY DEF Kept
  <2>2. e.score > now - Window - MaxLatency  BY <1>1, <1>4, <2>1
  <2>3. PICK a \in admitted[k] : a.member = e.member /\ a.at >= e.score
    BY <2>1, <2>2 DEF Justified, JustifiedAt
  <2> QED  BY <1>1, <2>1, <2>2, <2>3 DEF Since
<1>6. /\ IsFiniteSet(Kept(r, k)) /\ Cardinality(Kept(r, k)) \in Nat
      /\ IsFiniteSet(S) /\ Cardinality(S) \in Nat /\ Distinct(Kept(r, k))
  <2>1. /\ Kept(r, k) \subseteq zset[k] /\ IsFiniteSet(zset[k]) /\ Distinct(zset[k])
        /\ S \subseteq admitted[k] /\ IsFiniteSet(admitted[k])
    BY DEF Kept, Since, Once, OncePast
  <2>2. Distinct(Kept(r, k))  BY <2>1 DEF Distinct
  <2> HIDE DEF S
  <2> QED  BY <2>1, <2>2, FS_Subset, FS_CardinalityType
<1> HIDE DEF S
<1>7. Cardinality(Kept(r, k)) <= Cardinality(S)  BY <1>5, <1>6, OneEach
<1>8. Cardinality(S) >= Limit  BY <1>1, <1>2, <1>6, <1>7
<1> QED  BY <1>8 DEF S

-----------------------------------------------------------------------------
IInv == TypeOK /\ Shape /\ Timely /\ Once /\ Justified /\ Counted /\ WindowLimit

LEMMA IInvHolds == Spec => []IInv
<1>1. Init => IInv
  <2> SUFFICES ASSUME Init PROVE IInv
    OBVIOUS
  <2>1. TypeOK  BY DEF Init, TypeOK, Unsent, Dispatch, PCs
  <2>2. Shape /\ Timely  BY DEF Init, Shape, Timely, Evaluating, At, Unsent
  <2>3. Once  BY FS_EmptySet DEF Init, Once, OncePast, Distinct
  <2>4. Justified /\ Counted  BY DEF Init, Justified, JustifiedAt, Fed, Counted, CountedAt
  <2>5. WindowLimit
    <3>1. \A k \in Keys : Since(k, now - (Window - MaxLatency)) = {}  BY DEF Init, Since
    <3> QED  BY <3>1, FS_EmptySet, WindowIsLonger DEF WindowLimit
  <2> QED  BY <2>1, <2>2, <2>3, <2>4, <2>5 DEF IInv
<1>2. IInv /\ [Next]_vars => IInv'
  BY TypeStep, TimelyStep, OnceStep, JustifiedStep, CountedStep, WindowStep DEF IInv
<1> QED  BY <1>1, <1>2, PTL DEF Spec

\* The clock, the sorted sets and the requests keep their types, through
\* failures of Redis and evictions.
THEOREM RateLimiterTypeCorrect == Spec => []TypeOK
<1>1. IInv => TypeOK  BY DEF IInv
<1> QED  BY <1>1, IInvHolds, PTL

\* No key that Redis kept lets more than Limit requests through in a window,
\* less the latency, however late and out of order the scripts run.
THEOREM WindowLimitHolds == Spec => []WindowLimit
<1>1. IInv => WindowLimit  BY DEF IInv
<1> QED  BY <1>1, IInvHolds, PTL

\* A key that let nothing through for a whole window holds nothing.
THEOREM QuietKeyIsFreeHolds == Spec => []QuietKeyIsFree
<1>1. IInv => QuietKeyIsFree
  <2> SUFFICES ASSUME IInv, NEW k \in Keys, zset[k] # {} PROVE Since(k, now - Window) # {}
    BY DEF QuietKeyIsFree
  <2>1. expiry[k] > now /\ \E a \in admitted[k] : a.at + Window = expiry[k]
    BY DEF IInv, Justified, Fed
  <2>2. now \in Nat /\ Window \in Nat /\ \A a \in admitted[k] : a.at \in Nat
    BY WindowIsLonger DEF IInv, TypeOK
  <2> QED  BY <2>1, <2>2 DEF Since
<1> QED  BY <1>1, IInvHolds, PTL

\* Every 429 is deserved: the limit was used up within the window and the
\* latency, by requests that were let through.
THEOREM DenialsJustifiedHolds == Spec => DenialsJustified
<1>1. IInv /\ [Next]_vars =>
        [\A r \in Requests, k \in Keys :
           Deny(r, k) => Cardinality(Since(k, now - Window - MaxLatency)) >= Limit]_vars
  BY DenialStep DEF IInv
<1> QED  BY <1>1, IInvHolds, PTL DEF Spec, DenialsJustified

-----------------------------------------------------------------------------
(* What a client sees.  WindowLimit is about the stretch that ends now; a  *)
(* promise about traffic is about any stretch of time.                     *)

\* The admissions of k in the stretch, Window less the latency long, ending at t.
Stretch(k, t) == {a \in admitted[k] : a.at > t - (Window - MaxLatency) /\ a.at <= t}

EveryStretch ==
    \A k \in Keys \ evicted : \A t \in Int : t <= now => Cardinality(Stretch(k, t)) <= Limit

\* Time goes on, nothing is un-evicted, and what is admitted is admitted now.
LEMMA AdmittedMoves ==
    ASSUME TypeOK, Shape, [Next]_vars, NEW l \in Keys
    PROVE  /\ now' = now \/ now' = now + 1
           /\ evicted \subseteq evicted'
           /\ \A a \in admitted'[l] : a \in admitted[l] \/ (a.at = now /\ now' = now)
<1>1. ASSUME NEW r \in Requests, Receive(r) \/ CheckUser(r) \/ EvalIp(r) \/ EvalUser(r)
      PROVE  /\ UNCHANGED <<now, evicted>>
             /\ \A a \in admitted'[l] : a \in admitted[l] \/ a.at = now
  <2>1. ASSUME NEW k \in Keys, Eval(r, k)
        PROVE  /\ UNCHANGED <<now, evicted>>
               /\ \A a \in admitted'[l] : a \in admitted[l] \/ a.at = now
    BY <2>1, EvalEffect
  <2> QED  BY <1>1, <2>1, StepKinds
<1>2. CASE \E k \in Keys : Evict(k)  BY <1>2 DEF Evict
<1>3. CASE Tick  BY <1>3 DEF Tick
<1>4. CASE UNCHANGED vars  BY <1>4 DEF vars
<1> QED  BY <1>1, <1>2, <1>3, <1>4 DEF Next

LEMMA StretchStep ==
    TypeOK /\ TypeOK' /\ Shape /\ Once /\ Once' /\ WindowLimit' /\ EveryStretch /\ [Next]_vars => EveryStretch'
<1> SUFFICES ASSUME TypeOK, TypeOK', Shape, Once, Once', WindowLimit', EveryStretch, [Next]_vars,
                    NEW l \in Keys, l \notin evicted', NEW t \in Int, t <= now'
             PROVE  Cardinality(Stretch(l, t)') <= Limit
  BY DEF EveryStretch
<1>1. /\ now \in Nat /\ now' \in Nat /\ Window \in Nat /\ MaxLatency \in Nat /\ Limit \in Nat
      /\ admitted[l] \subseteq [member : Requests, at : Nat]
      /\ admitted'[l] \subseteq [member : Requests, at : Nat]
  BY WindowIsLonger DEF TypeOK
<1>2. /\ now' = now \/ now' = now + 1
      /\ l \notin evicted
      /\ \A a \in admitted'[l] : a \in admitted[l] \/ (a.at = now /\ now' = now)
  BY AdmittedMoves
<1>3. IsFiniteSet(admitted[l]) /\ IsFiniteSet(admitted'[l])  BY DEF Once, OncePast
<1>4. ASSUME NEW S, NEW T, IsFiniteSet(T), S \subseteq T, Cardinality(T) <= Limit
      PROVE  Cardinality(S) <= Limit
  <2>1. IsFiniteSet(S) /\ Cardinality(S) <= Cardinality(T)  BY <1>4, FS_Subset
  <2> QED  BY <1>1, <1>4, <2>1, FS_CardinalityType
<1>5. CASE t = now'
  <2> DEFINE S == {a \in admitted'[l] : a.at > now' - (Window - MaxLatency) /\ a.at <= now'}
             T == {a \in admitted'[l] : a.at > now' - (Window - MaxLatency)}
  <2>1. Cardinality(T) <= Limit  BY DEF WindowLimit, Since
  <2>2. S \subseteq T /\ T \subseteq admitted'[l]  OBVIOUS
  <2>3. Stretch(l, t)' = S  BY <1>5 DEF Stretch
  <2> HIDE DEF S, T
  <2> QED  BY <1>3, <1>4, <2>1, <2>2, <2>3, FS_Subset
<1>6. CASE t < now'
  <2>1. t <= now /\ (now' = now => t < now)  BY <1>1, <1>2, <1>6
  <2>2. Cardinality(Stretch(l, t)) <= Limit  BY <1>2, <2>1 DEF EveryStretch
  <2>3. Stretch(l, t)' \subseteq Stretch(l, t)
    <3> SUFFICES ASSUME NEW a \in admitted'[l], a.at > t - (Window - MaxLatency), a.at <= t
                 PROVE  a \in admitted[l]
      BY DEF Stretch
    <3>1. a.at \in Nat  BY <1>1
    <3>2. ~(a.at = now /\ now' = now)  BY <1>1, <2>1, <3>1
    <3> QED  BY <1>2, <3>2
  <2>4. IsFiniteSet(Stretch(l, t))
    <3>1. Stretch(l, t) \subseteq admitted[l]  BY DEF Stretch
    <3> QED  BY <1>3, <3>1, FS_Subset
  <2> QED  BY <1>4, <2>2, <2>3, <2>4
<1> QED  BY <1>1, <1>5, <1>6

LEMMA EveryStretchHolds == Spec => []EveryStretch
<1>1. Init => EveryStretch
  <2> SUFFICES ASSUME Init, NEW k \in Keys, NEW t \in Int PROVE Cardinality(Stretch(k, t)) <= Limit
    BY DEF EveryStretch
  <2>1. Stretch(k, t) = {}  BY DEF Init, Stretch
  <2> QED  BY <2>1, FS_EmptySet, WindowIsLonger
<1>2. IInv => TypeOK /\ Shape /\ Once /\ WindowLimit  BY DEF IInv
<1> QED  BY <1>1, <1>2, IInvHolds, StretchStep, PTL DEF Spec

\* In every stretch of a window less the latency, past or present, a key that
\* Redis kept let no more than Limit requests through.
THEOREM EveryStretchIsLimited ==
    Spec => [](\A k \in Keys \ evicted : \A t \in Int :
                 t <= now => Cardinality(Stretch(k, t)) <= Limit)
<1>1. EveryStretch => \A k \in Keys \ evicted : \A t \in Int :
                        t <= now => Cardinality(Stretch(k, t)) <= Limit
  BY DEF EveryStretch
<1> QED  BY <1>1, EveryStretchHolds, PTL

\* The late clock costs a factor of two at most: if a script is late by half a
\* window or less, no key that Redis kept lets more than 2 * Limit requests
\* through in a whole window.
THEOREM WholeWindowIsLimited ==
    ASSUME MaxLatency + MaxLatency <= Window
    PROVE  Spec => [](\A k \in Keys \ evicted : Cardinality(Since(k, now - Window)) <= 2 * Limit)
<1>1. ASSUME TypeOK, Once, WindowLimit, EveryStretch, NEW k \in Keys \ evicted
      PROVE  Cardinality(Since(k, now - Window)) <= 2 * Limit
  <2> DEFINE S == Stretch(k, now - MaxLatency)
             T == Since(k, now - (Window - MaxLatency))
             U == Since(k, now - Window)
  <2>1. /\ now \in Nat /\ Window \in Nat /\ MaxLatency \in Nat /\ Limit \in Nat
        /\ \A a \in admitted[k] : a.at \in Nat
    BY <1>1, WindowIsLonger DEF TypeOK
  <2>2. now - MaxLatency \in Int /\ now - MaxLatency <= now  BY <2>1
  <2>3. Cardinality(S) <= Limit /\ Cardinality(T) <= Limit
    BY <1>1, <2>2 DEF EveryStretch, WindowLimit
  <2>4. U \subseteq S \cup T
    <3> SUFFICES ASSUME NEW a \in admitted[k], a.at > now - Window, ~(a.at > now - (Window - MaxLatency))
                 PROVE  a.at > now - MaxLatency - (Window - MaxLatency) /\ a.at <= now - MaxLatency
      BY DEF Stretch, Since
    <3>1. a.at \in Nat  BY <2>1
    <3> QED  BY <2>1, <3>1
  <2>5. S \subseteq admitted[k] /\ T \subseteq admitted[k]  BY DEF Stretch, Since
  <2>6. IsFiniteSet(admitted[k])  BY <1>1 DEF Once, OncePast
  <2> HIDE DEF S, T, U
  <2>7. IsFiniteSet(S) /\ IsFiniteSet(T) /\ IsFiniteSet(S \cap T)  BY <2>5, <2>6, FS_Subset
  <2>8. /\ IsFiniteSet(S \cup T)
        /\ Cardinality(S \cup T) = Cardinality(S) + Cardinality(T) - Cardinality(S \cap T)
    BY <2>7, FS_Union
  <2>9. IsFiniteSet(U) /\ Cardinality(U) <= Cardinality(S \cup T)  BY <2>4, <2>8, FS_Subset
  <2>10. /\ Cardinality(S) \in Nat /\ Cardinality(T) \in Nat /\ Cardinality(S \cap T) \in Nat
         /\ Cardinality(U) \in Nat
    BY <2>7, <2>9, FS_CardinalityType
  <2>11. Cardinality(U) <= 2 * Limit  BY <2>1, <2>3, <2>8, <2>9, <2>10
  <2> QED  BY <2>11 DEF U
<1>2. IInv => TypeOK /\ Once /\ WindowLimit  BY DEF IInv
<1>3. IInv /\ EveryStretch => \A k \in Keys \ evicted : Cardinality(Since(k, now - Window)) <= 2 * Limit
  BY <1>1, <1>2
<1> QED  BY <1>3, IInvHolds, EveryStretchHolds, PTL

\* With no latency and a Redis that neither fails nor evicts, the limit is what
\* the settings say: Limit requests of a key in any window.
THEOREM LimitIsExactWhenPrompt ==
    ASSUME MaxLatency = 0, RedisMayFail = FALSE
    PROVE  Spec => [](\A k \in Keys : Cardinality(Since(k, now - Window)) <= Limit)
<1> DEFINE NothingEvicted == evicted = {}
<1>1. Init => NothingEvicted  BY DEF Init
<1>2. TypeOK /\ Shape /\ NothingEvicted /\ [Next]_vars => NothingEvicted'
  <2> SUFFICES ASSUME TypeOK, Shape, evicted = {}, [Next]_vars PROVE evicted' = {}
    OBVIOUS
  <2>1. ASSUME NEW r \in Requests, Receive(r) \/ CheckUser(r) \/ EvalIp(r) \/ EvalUser(r)
        PROVE  evicted' = evicted
    <3>1. ASSUME NEW k \in Keys, Eval(r, k) PROVE evicted' = evicted
      BY <3>1, EvalEffect
    <3> QED  BY <2>1, <3>1, StepKinds
  <2>2. \A k \in Keys : ~Evict(k)  BY DEF Evict
  <2>3. Tick \/ UNCHANGED vars => evicted' = evicted  BY DEF Tick, vars
  <2> QED  BY <2>1, <2>2, <2>3 DEF Next
<1>3. IInv => TypeOK /\ Shape  BY DEF IInv
<1>4. IInv /\ NothingEvicted => \A k \in Keys : Cardinality(Since(k, now - Window)) <= Limit
  <2>1. Window - MaxLatency = Window  BY WindowIsLonger
  <2> QED  BY <2>1 DEF IInv, WindowLimit
<1> HIDE DEF NothingEvicted
<1> QED  BY <1>1, <1>2, <1>3, <1>4, IInvHolds, PTL DEF Spec
=============================================================================
