---------------------------- MODULE SecondFactor ----------------------------
(***************************************************************************)
(* What the MFA service promises about one account, whatever overlaps and  *)
(* whatever dies: an abstract specification, with no requests, no          *)
(* snapshots of the users row and no blacklist in it.                      *)
(*                                                                         *)
(* A secret is drawn while MFA is off, and turns it on only once somebody  *)
(* holds it; recovery codes are made for the enrollment that is on and are *)
(* void after it; a proof buys one token pair.  Two things void the        *)
(* promises, and both are on record: a write by somebody who had decided   *)
(* on another row (stale), and a proof that was tested twice at once, or   *)
(* by a Redis that failed or forgot it (excused).  MfaRefinement says how  *)
(* MfaLogin implements this.                                               *)
(***************************************************************************)
CONSTANTS
    Secrets,
    Codes,
    Batches,    \* the sets of codes that can be made at once
    MfaTokens,
    None

VARIABLES
    mfa,        \* is MFA on, and with which secret
    code,       \* the recovery codes
    drawn,      \* secrets that exist
    held,       \* secrets somebody's authenticator may hold
    issued,     \* mfa_tokens that exist
    signedIn,   \* proofs that have bought a token pair
    stale,      \* somebody wrote in the belief of another row
    excused     \* proofs that were tested twice at once, or not at all

enrollment == <<mfa, code, drawn, held, stale>>
signIns    == <<issued, signedIn, excused>>
vars       == <<enrollment, signIns>>

Proofs == MfaTokens \cup Codes
Off    == [enabled |-> FALSE, secret |-> None]

Init ==
    /\ mfa = Off
    /\ code = [c \in Codes |-> [state |-> "absent", of |-> None]]
    /\ drawn = {} /\ held = {}
    /\ issued = {} /\ signedIn = {}
    /\ stale = FALSE /\ excused = {}

\* The writer has made sure of this, unless the row has changed since.
Assured(condition) ==
    /\ stale' \in {stale, TRUE}
    /\ condition \/ stale'

Draw(k) ==
    /\ k \notin drawn
    /\ drawn' = drawn \cup {k}
    /\ mfa' = [mfa EXCEPT !.secret = k]
    /\ Assured(~mfa.enabled)
    /\ UNCHANGED <<code, held, signIns>>

Hand(k) ==
    /\ k \in drawn
    /\ held' = held \cup {k}
    /\ UNCHANGED <<mfa, code, drawn, stale, signIns>>

\* Only a secret that is held can turn MFA on.
TurnOn ==
    /\ mfa' = [mfa EXCEPT !.enabled = TRUE]
    /\ Assured(~mfa.enabled /\ mfa.secret \in held)
    /\ UNCHANGED <<code, drawn, held, signIns>>

\* New codes, for the enrollment that is on.
MakeCodes(batch, k) ==
    /\ \A c \in batch : code[c].state = "absent"
    /\ code' = [c \in Codes |-> IF c \in batch THEN [state |-> "active", of |-> k] ELSE code[c]]
    /\ Assured(mfa = [enabled |-> TRUE, secret |-> k])
    /\ UNCHANGED <<mfa, drawn, held, signIns>>

TurnOff ==
    /\ mfa' = Off
    /\ Assured(mfa.enabled)
    /\ UNCHANGED <<code, drawn, held, signIns>>

\* With MFA off no code works any more.
VoidCodes ==
    /\ Assured(mfa = Off)
    /\ code' = [c \in Codes |-> IF code[c].state = "active"
                                THEN [state |-> "used", of |-> None] ELSE code[c]]
    /\ UNCHANGED <<mfa, drawn, held, signIns>>

Spend(c) ==
    /\ code[c].state = "active"
    /\ code' = [code EXCEPT ![c].state = "used"]
    /\ UNCHANGED <<mfa, drawn, held, stale, signIns>>

\* The password was right, and the account has a second factor.
Challenge(m) ==
    /\ mfa.enabled
    /\ m \notin issued
    /\ issued' = issued \cup {m}
    /\ UNCHANGED <<enrollment, signedIn, excused>>

Excuse(p) ==
    /\ excused' = excused \cup {p}
    /\ UNCHANGED <<enrollment, issued, signedIn>>

\* A token pair, for an mfa_token and perhaps a recovery code.  The code is
\* spent by then, and neither has bought one before.
SignIn(m, codes) ==
    LET proof == {m} \cup codes
    IN  /\ m \in issued
        /\ signedIn' = signedIn \cup proof
        /\ \A c \in codes : code[c].state = "used"
        /\ signedIn \cap proof \subseteq excused
        /\ UNCHANGED <<enrollment, issued, excused>>

Next ==
    \/ \E k \in Secrets : Draw(k) \/ Hand(k)
    \/ TurnOn \/ TurnOff \/ VoidCodes
    \/ \E batch \in Batches, k \in Secrets \cup {None} : MakeCodes(batch, k)
    \/ \E c \in Codes : Spend(c)
    \/ \E m \in MfaTokens : Challenge(m)
    \/ \E p \in Proofs : Excuse(p)
    \/ \E m \in MfaTokens, codes \in {{}} \cup {{c} : c \in Codes} : SignIn(m, codes)

Spec == Init /\ [][Next]_vars

\* A code that was used, or voided with its enrollment, never works again:
\* no confirm, disable or restart revives it.
UsedForGood ==
    [][\A c \in Codes : code[c].state = "used" => code'[c] = code[c]]_vars
=============================================================================
