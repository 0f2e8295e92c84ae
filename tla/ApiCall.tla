------------------------------- MODULE ApiCall ------------------------------
(***************************************************************************)
(* A call of a Sitecore API: the token it carries, taken from the keychain *)
(* slot of the environment or obtained anew (getAccessToken, src/src/auth/ *)
(* client-credentials.ts; createApiAuth, auth/factory.ts), and the retry   *)
(* loop that sends it (runSitecoreGraphQL, src/src/shared/graphql.ts;      *)
(* fetchWithRateLimitRetry, src/src/shared/rate-limit-retry.ts).           *)
(*                                                                         *)
(* The identity provider and the API are external: a refresh token is      *)
(* accepted while it is live, a token is refused once it has lapsed, and   *)
(* an answer that does not settle whether the call took effect may come in *)
(* both cases.  The process may die anywhere and start over.               *)
(***************************************************************************)
EXTENDS Keychain

CONSTANTS
    Kinds(_),     \* the calls a process makes
    Profiles,     \* what an environment's profile offers besides the slot
    MaxRetries,   \* of a throttled REST call
    MaxAttempts,  \* of a read
    MaxWrites,    \* attempts of a recipe write
    MaxSettle,    \* retries of an authorization refusal
    Rotates,      \* the identity provider revokes a refresh token it used
    MaxTokens,    \* bound: tokens issued, the first at login
    MaxCalls,     \* bound: calls of one process
    MaxFaults     \* bound: crashes, refused sets and deletes, lost answers

ASSUME ApiCallAssumption ==
    /\ \A p \in Procs : Kinds(p) \subseteq {"read", "write", "single", "POST", "PUT"}
    /\ Profiles \subseteq {"client", "literal", "none"}
    /\ MaxRetries \in Nat /\ MaxSettle \in Nat
    /\ {MaxAttempts, MaxWrites, MaxTokens} \subseteq Nat \ {0}
    /\ Rotates \in BOOLEAN
    /\ {MaxCalls, MaxFaults} \subseteq Nat
    /\ {"cm", "api"} \subseteq Slots
    /\ Secrets = [access : 1 .. MaxTokens, refresh : 0 .. MaxTokens]

VARIABLES
    pc,       \* where a process is in its call
    kind,     \* the call it makes
    token,    \* the access token it carries, 0 is that of the profile
    spare,    \* the refresh token it found in the slot, 0 is none
    attempt,  \* attempts that ended in a retry (settle retries not counted)
    settled,  \* retries of an authorization refusal
    landed,   \* how often the call took effect
    profile,  \* an automation client, an access token, or neither
    issued,   \* tokens issued so far
    live,     \* refresh tokens the identity provider accepts
    expired,  \* access tokens up to this one are in their last minute,
    lapsed,   \* ... and up to this one past their expiry
    calls, faults,
    calm      \* per slot: no fault, no two replacing it at a time

heldVars == <<token, spare>>
triesVars == <<attempt, settled>>
issuerVars == <<issued, live, expired, lapsed>>
boundVars == <<calls, faults>>
vars == <<keychainVars, pc, kind, heldVars, triesVars, landed, profile,
          issuerVars, boundVars, calm>>

(* The bundle of a slot.  The tokens of one issue share a number.          *)
Bundle(access, refresh) == [access |-> access, refresh |-> refresh]

GraphQL == {"read", "write", "single"}
SlotOf(k) == IF k \in GraphQL THEN "cm" ELSE "api"

Resting == {"idle", "done", "failed", "denied"}

ApiTypeOK ==
    /\ KeychainTypeOK
    /\ pc \in [Procs -> Resting \cup {"cache", "refresh", "mint", "store", "send",
                                      "sleep", "logout"}]
    /\ \A p \in Procs : kind[p] \in Kinds(p) \cup {"read"}
    /\ token \in [Procs -> 0 .. MaxTokens \cup {None, Torn}]
    /\ spare \in [Procs -> 0 .. MaxTokens]
    /\ {attempt, settled, landed} \subseteq [Procs -> Nat]
    /\ profile \in Profiles
    /\ issued \in 1 .. MaxTokens
    /\ live \subseteq 1 .. issued
    /\ expired \in 0 .. issued /\ lapsed \in 0 .. expired
    /\ calls \in [Procs -> 0 .. MaxCalls] /\ faults \in 0 .. MaxFaults
    /\ calm \in [Slots -> BOOLEAN]

(* `scai setup login` stored the first token with its refresh token.       *)
Login == Bundle(1, 1)

Init ==
    /\ primary = [s \in Slots |->
          IF s # "cm" THEN NoEntry
          ELSE IF Size(Login) = 1 THEN Whole(Login) ELSE Manifest(Size(Login))]
    /\ chunk = [s \in Slots |-> [i \in Indexes |->
          IF s = "cm" /\ i <= primary[s].chunks
          THEN [secret |-> Login, index |-> i] ELSE NoPiece]]
    /\ kind = [p \in Procs |-> "read"]
    /\ kc = [p \in Procs |-> Idle(SlotOf(kind[p]))]
    /\ pc = [p \in Procs |-> "idle"]
    /\ token = [p \in Procs |-> None] /\ spare = [p \in Procs |-> 0]
    /\ attempt = spare /\ settled = spare /\ landed = spare
    /\ profile \in Profiles
    /\ issued = 1 /\ live = {1} /\ expired = 0 /\ lapsed = 0
    /\ calls = spare /\ faults = 0
    /\ calm = [s \in Slots |-> TRUE]

-----------------------------------------------------------------------------
Slot(p) == SlotOf(kind[p])

Goes(p, where) == pc' = [pc EXCEPT ![p] = where]

Holds(p, access, refresh) ==
    /\ token' = [token EXCEPT ![p] = access]
    /\ spare' = [spare EXCEPT ![p] = refresh]

Tried(p, attempts, settles) ==
    /\ attempt' = [attempt EXCEPT ![p] = attempts]
    /\ settled' = [settled EXCEPT ![p] = settles]

(* The call returns or throws, and its locals are gone.                    *)
Ends(p, how) == Goes(p, how) /\ Holds(p, None, 0) /\ Tried(p, 0, 0)

(* The slot is being replaced, from the decision to obtain a token on.     *)
Replacing(p, s) == Slot(p) = s /\ pc[p] \in {"refresh", "mint", "store", "logout"}

(* Another process reads the slot, or replaces it.                         *)
Meets(p) ==
    \E q \in Procs \ {p} :
        Slot(q) = Slot(p) /\ (pc[q] = "cache" \/ Replacing(q, Slot(p)))

Disturb(s, disturbed) == calm' = [calm EXCEPT ![s] = @ /\ ~disturbed]

Fault(s) == faults < MaxFaults /\ faults' = faults + 1 /\ Disturb(s, TRUE)

(* A call starts with the token: the cached bundle is read.                *)
Start(p) ==
    /\ pc[p] \in Resting /\ calls[p] < MaxCalls
    /\ \E k \in Kinds(p) :
          /\ kind' = [kind EXCEPT ![p] = k]
          /\ kc' = [kc EXCEPT ![p] = Call("read", SlotOf(k), None)]
          /\ Disturb(SlotOf(k), \E q \in Procs \ {p} : Replacing(q, SlotOf(k)))
    /\ Goes(p, "cache")
    /\ calls' = [calls EXCEPT ![p] = @ + 1]
    /\ landed' = [landed EXCEPT ![p] = 0]
    /\ UNCHANGED <<primary, chunk, heldVars, triesVars, profile, issuerVars, faults>>

(* What a read returns, parsed; the age is the number of the token it was  *)
(* stored with.  A torn string need not parse; where it does, its access   *)
(* token is a mixture, its refresh token any.  A bundle of the CM slot     *)
(* ends with expiresIn and lastUpdated, so a torn one has the age of the   *)
(* part it ends with; of an API token the age is decoded from the token    *)
(* itself, and may be anything.  Only the CM slot's bundles come with a    *)
(* refresh token.                                                          *)
Aged(access, refresh, age) ==
    [access |-> access, refresh |-> refresh, age |-> age]

NoBundle == Aged(None, 0, 0)

Parsed(s, read) ==
    LET v == read.secret
        last == read.parts[Len(read.parts)].secret
    IN  IF v = None THEN {NoBundle}
        ELSE IF v # Torn THEN {Aged(v.access, v.refresh, v.access)}
        ELSE {NoBundle} \cup
             IF s = "cm" THEN {Aged(Torn, r, last.access) : r \in 0 .. issued}
             ELSE {Aged(Torn, 0, n) : n \in 0 .. issued}

(* isCmTokenFresh, isTokenFresh.                                           *)
Fresh(b) == b.age > expired

(* getAccessToken: a fresh token is used as it is, a refresh token is      *)
(* spent, and only without one is another token looked for.                *)
UseCached(p) ==
    /\ pc[p] = "cache" /\ Doing(p, "got")
    /\ \E b \in Parsed(Slot(p), kc[p]) :
          \/ /\ Fresh(b)
             /\ Goes(p, "send") /\ Holds(p, b.access, 0)
             /\ UNCHANGED calm
          \/ /\ ~Fresh(b)
             /\ Goes(p, IF b.refresh # 0 THEN "refresh" ELSE "mint")
             /\ Holds(p, None, b.refresh)
             /\ Disturb(Slot(p), Meets(p))
    /\ kc' = [kc EXCEPT ![p] = Idle(Slot(p))]
    /\ UNCHANGED <<primary, chunk, kind, triesVars, landed, profile, issuerVars,
                   boundVars>>

(* The token is stored before it is used.                                  *)
Stores(p, access, refresh) ==
    /\ Goes(p, "store") /\ Holds(p, access, 0)
    /\ kc' = [kc EXCEPT ![p] = Call("write", Slot(p), Bundle(access, refresh))]

(* Mutant: the refresh token just spent is stored again.                   *)
MutantNextRefresh(p) == spare[p]

(* refreshed.refreshToken ?? cached.refreshToken.                          *)
NextRefresh(p) == IF Rotates THEN issued + 1 ELSE spare[p]

(* requestRefreshToken with a live token.                                  *)
Refresh(p) ==
    /\ pc[p] = "refresh" /\ spare[p] \in live /\ issued < MaxTokens
    /\ issued' = issued + 1
    /\ live' = IF Rotates THEN (live \ {spare[p]}) \cup {issued + 1} ELSE live
    /\ Stores(p, issued + 1, NextRefresh(p))
    /\ UNCHANGED <<primary, chunk, kind, triesVars, landed, profile, expired, lapsed,
                   boundVars, calm>>

(* With a revoked one requestToken throws, and getAccessToken with it.     *)
RefreshDenied(p) ==
    /\ pc[p] = "refresh" /\ spare[p] \notin live
    /\ Ends(p, "denied")
    /\ UNCHANGED <<keychainVars, kind, landed, profile, issuerVars, boundVars, calm>>

(* The answer is lost, and the provider may have rotated the token.        *)
RefreshLost(p) ==
    /\ pc[p] = "refresh" /\ spare[p] \in live
    /\ live' = IF Rotates THEN live \ {spare[p]} ELSE live
    /\ Fault(Slot(p))
    /\ Ends(p, "failed")
    /\ UNCHANGED <<keychainVars, kind, landed, profile, issued, expired, lapsed, calls>>

HasLiteral(p) == profile = "literal" /\ kind[p] \in GraphQL

(* The access token of the profile, as it is.                              *)
UseLiteral(p) ==
    /\ pc[p] = "mint" /\ HasLiteral(p)
    /\ Goes(p, "send") /\ Holds(p, 0, 0)
    /\ UNCHANGED <<keychainVars, kind, triesVars, landed, profile, issuerVars,
                   boundVars, calm>>

(* The client-credentials grant of acquireAccessToken, or of createApiAuth.*)
Mint(p) ==
    /\ pc[p] = "mint" /\ profile = "client" /\ issued < MaxTokens
    /\ issued' = issued + 1
    /\ Stores(p, issued + 1, 0)
    /\ UNCHANGED <<primary, chunk, kind, triesVars, landed, profile, live, expired,
                   lapsed, boundVars, calm>>

(* No token is to be had, or the identity provider does not answer.        *)
NoToken(p) ==
    /\ pc[p] = "refresh" \/ (pc[p] = "mint" /\ ~HasLiteral(p))
    /\ Ends(p, "failed")
    /\ UNCHANGED <<keychainVars, kind, landed, profile, issuerVars, boundVars, calm>>

(* setCmTokens returned, true or false.                                    *)
TokenStored(p) ==
    /\ pc[p] = "store" /\ Doing(p, "ended")
    /\ Goes(p, "send")
    /\ kc' = [kc EXCEPT ![p] = Idle(Slot(p))]
    /\ UNCHANGED <<primary, chunk, kind, heldVars, triesVars, landed, profile,
                   issuerVars, boundVars, calm>>

(* `scai setup logout` deletes the slot of the CM tokens.                  *)
Logout(p) ==
    /\ pc[p] \in Resting /\ calls[p] < MaxCalls /\ Slot(p) = "cm"
    /\ Goes(p, "logout")
    /\ kc' = [kc EXCEPT ![p] = Call("delete", "cm", None)]
    /\ calls' = [calls EXCEPT ![p] = @ + 1]
    /\ Disturb("cm", Meets(p))
    /\ UNCHANGED <<primary, chunk, kind, heldVars, triesVars, landed, profile,
                   issuerVars, faults>>

LoggedOut(p) ==
    /\ pc[p] = "logout" /\ Doing(p, "ended")
    /\ Goes(p, "done")
    /\ kc' = [kc EXCEPT ![p] = Idle(Slot(p))]
    /\ UNCHANGED <<primary, chunk, kind, heldVars, triesVars, landed, profile,
                   issuerVars, boundVars, calm>>

-----------------------------------------------------------------------------
(* Sending.  "unreached" is an edge page of an unreached host, "edge" one  *)
(* of a slow one; "lost" a failed fetch or the default timeout, "timeout"  *)
(* a budget the caller set; a 5xx with a throttle in its body is           *)
(* "throttled" to a REST call.                                             *)
Decided == {"ok", "rejected", "unauthorized", "refused", "cancelled", "unreached"}
Open == {"throttled", "gateway", "edge", "lost", "timeout"}
OnlyGraphQL == {"refused", "cancelled", "unreached", "edge"}

Answers(p) ==
    IF token[p] = Torn \/ token[p] \in 1 .. lapsed THEN {"unauthorized"}
    ELSE (Decided \cup Open)
         \ ({"unauthorized"} \cup IF kind[p] \in GraphQL THEN {} ELSE OnlyGraphQL)

(* Whether a call with that answer took effect.                            *)
Effects(a) ==
    IF a = "ok" THEN {1} ELSE IF a \in Decided THEN {0} ELSE {0, 1}

(* READ_RETRYABLE_STATUSES, and the sets of writeRequest and the default.  *)
RetryableStatuses(k) ==
    CASE k = "read" -> {"throttled", "gateway"}
      [] k = "single" -> {"throttled"}
      [] OTHER -> {}

RetryAmbiguousNetwork(k) == k # "write"

Attempts(k) ==
    CASE k = "read" -> MaxAttempts
      [] k = "write" -> MaxWrites
      [] k = "single" -> 1
      [] OTHER -> MaxRetries + 1

(* Mutant: a throttled POST is replayed too.                               *)
MutantRetryable(k, a) ==
    IF k \notin GraphQL THEN a = "throttled"
    ELSE \/ a \in RetryableStatuses(k) \cup {"unreached", "cancelled"}
         \/ a \in {"edge", "lost"} /\ RetryAmbiguousNetwork(k)

(* shouldRetryTransportError; `throttled` of fetchWithRateLimitRetry.      *)
Retryable(k, a) ==
    IF k \notin GraphQL THEN k = "PUT" /\ a = "throttled"
    ELSE \/ a \in RetryableStatuses(k) \cup {"unreached", "cancelled"}
         \/ a \in {"edge", "lost"} /\ RetryAmbiguousNetwork(k)

(* An authorization refusal is retried on a budget of its own.             *)
Settles(p, a) == a = "refused" /\ settled[p] < MaxSettle

(* Mutant: a settle retry is not counted.                                  *)
MutantSettle(p) ==
    Goes(p, "sleep") /\ Tried(p, attempt[p], settled[p]) /\ UNCHANGED heldVars

Settle(p) ==
    Goes(p, "sleep") /\ Tried(p, attempt[p], settled[p] + 1) /\ UNCHANGED heldVars

Retries(p, a) == attempt[p] < Attempts(kind[p]) - 1 /\ Retryable(kind[p], a)

Retry(p) ==
    Goes(p, "sleep") /\ Tried(p, attempt[p] + 1, settled[p]) /\ UNCHANGED heldVars

Send(p) ==
    /\ pc[p] = "send"
    /\ \E a \in Answers(p) :
          /\ \E n \in Effects(a) : landed' = [landed EXCEPT ![p] = @ + n]
          /\ \/ a = "ok" /\ Ends(p, "done")
             \/ Settles(p, a) /\ Settle(p)
             \/ ~Settles(p, a) /\ Retries(p, a) /\ Retry(p)
             \/ a # "ok" /\ ~Settles(p, a) /\ ~Retries(p, a) /\ Ends(p, "failed")
    /\ UNCHANGED <<keychainVars, kind, profile, issuerVars, boundVars, calm>>

(* The backoff is over; the token is not looked up again.                  *)
Wake(p) ==
    /\ pc[p] = "sleep"
    /\ Goes(p, "send")
    /\ UNCHANGED <<keychainVars, kind, heldVars, triesVars, landed, profile,
                   issuerVars, boundVars, calm>>

-----------------------------------------------------------------------------
KeychainRuns(p) ==
    /\ KeychainStep(p)
    /\ UNCHANGED <<pc, kind, heldVars, triesVars, landed, profile, issuerVars,
                   boundVars, calm>>

KeychainRefuses(p) ==
    /\ SetRefused(p) \/ DeleteRefused(p)
    /\ Fault(Slot(p))
    /\ UNCHANGED <<pc, kind, heldVars, triesVars, landed, profile, issuerVars, calls>>

(* The process dies; the next call is another process's.                   *)
Crash(p) ==
    /\ pc[p] \notin Resting
    /\ Fault(Slot(p))
    /\ Ends(p, "idle")
    /\ kc' = [kc EXCEPT ![p] = Idle(Slot(p))]
    /\ UNCHANGED <<primary, chunk, kind, landed, profile, issuerVars, calls>>

(* Time passes: the oldest token enters its last minute, or lapses.        *)
Expire ==
    /\ \/ expired < issued /\ expired' = expired + 1 /\ UNCHANGED lapsed
       \/ lapsed < expired /\ lapsed' = lapsed + 1 /\ UNCHANGED expired
    /\ UNCHANGED <<keychainVars, pc, kind, heldVars, triesVars, landed, profile,
                   issued, live, boundVars, calm>>

CallStep(p) ==
    \/ KeychainRuns(p) \/ UseCached(p)
    \/ Refresh(p) \/ RefreshDenied(p) \/ UseLiteral(p) \/ Mint(p) \/ NoToken(p)
    \/ TokenStored(p) \/ LoggedOut(p)
    \/ Send(p) \/ Wake(p)

Next ==
    \/ \E p \in Procs :
          CallStep(p) \/ Start(p) \/ Logout(p) \/ RefreshLost(p)
          \/ KeychainRefuses(p) \/ Crash(p)
    \/ Expire

Spec == Init /\ [][Next]_vars

(* Every await is answered: the keychain and the API within their          *)
(* timeouts, the identity provider by assumption (its request has none).   *)
FairSpec == Spec /\ \A p \in Procs : WF_vars(CallStep(p))

-----------------------------------------------------------------------------
(* No write is repeated after an answer that leaves open whether it took   *)
(* effect: however the attempts of one mutation or POST are answered, it   *)
(* takes effect once at most (authoring-client.ts:430-442,                 *)
(* rate-limit-retry.ts:10-19).  A PUT is repeated, and idempotent.         *)
WritesLandOnce ==
    \A p \in Procs : kind[p] \in {"write", "single", "POST"} => landed[p] <= 1

AtRest(s) == calm[s] /\ \A p \in Procs : ~Replacing(p, s)

(* As long as nothing dies, is refused or replaces a slot while another    *)
(* process uses it, a slot at rest holds one whole secret or nothing, and  *)
(* no parts of an older or deleted one.                                    *)
QuietSlotIsWhole ==
    \A s \in Slots : AtRest(s) =>
        /\ Stored(s) # Torn
        /\ (Stored(s) = None => primary[s] = NoEntry)
        /\ \A i \in Indexes : i > primary[s].chunks => chunk[s][i] = NoPiece

(* ... and the refresh token in it is one the identity provider accepts,   *)
(* however often it was rotated.                                           *)
ChainUnbroken ==
    \A s \in Slots : AtRest(s) /\ Stored(s) \in Secrets
        => Stored(s).refresh \in live \cup {0}

(* A call ends: with an answer, or an error after its budget of retries.   *)
CallsEnd == \A p \in Procs : []<>(pc[p] \in Resting)

-----------------------------------------------------------------------------
(* What comments say of the program and the runs refute.                   *)

(* "Chunks are written before the manifest so a crash mid-write leaves the *)
(* previous value referenced by the old primary blob rather than a         *)
(* half-written one" (keychain.ts:203-205).                                *)
CrashKeepsPrevious ==
    \A s \in Slots : (\A p \in Procs : ~Replacing(p, s)) => Stored(s) # Torn

(* "makes an empty / stale `cm:` slot self-heal: once the cached token     *)
(* lapses, getAccessToken falls through to acquireAccessToken, which       *)
(* re-mints from the automation client" (client-credentials.ts:537-539).   *)
SlotSelfHeals == \A p \in Procs : pc[p] = "denied" => profile # "client"
=============================================================================
