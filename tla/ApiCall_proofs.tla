--------------------------- MODULE ApiCall_proofs ---------------------------
(***************************************************************************)
(* The token calls, for every number of processes, budget of retries, mix  *)
(* of calls and size of secrets: that no write lands twice (LandInv), and  *)
(* that a slot of the keychain which nothing disturbed holds one whole     *)
(* secret with a refresh token that is still accepted (TokenInv).  That    *)
(* every call ends is left to TLC.                                         *)
(***************************************************************************)
EXTENDS ApiCall, TLAPS

OneShot == {"write", "single", "POST"}

UnderWay == {"cache", "refresh", "mint", "store", "send", "sleep"}

(* What the types have to do with it.                                      *)
CallTypeOK ==
    /\ pc \in [Procs -> Resting \cup UnderWay \cup {"logout"}]
    /\ DOMAIN kind = Procs
    /\ attempt \in [Procs -> Nat] /\ settled \in [Procs -> Nat]
    /\ landed \in [Procs -> Nat]

(* While a call that must not be repeated is still under way, it has not   *)
(* taken effect: only an answer that is no verdict on it, or one that says *)
(* it did not happen, leads back to sending.                               *)
LandInv ==
    \A p \in Procs : kind[p] \in OneShot =>
        /\ landed[p] <= 1
        /\ pc[p] \in UnderWay => landed[p] = 0

(* Steps that send nothing and start no call.                              *)
Quiet ==
    /\ UNCHANGED <<kind, landed>>
    /\ pc' \in [Procs -> Resting \cup UnderWay \cup {"logout"}]
    /\ attempt' \in [Procs -> Nat] /\ settled' \in [Procs -> Nat]
    /\ \A p \in Procs : pc'[p] \in UnderWay => pc[p] \in UnderWay

-----------------------------------------------------------------------------
(* Moving one process of the call's automaton, its tries kept or reset.    *)
LEMMA MoveIsQuiet ==
    ASSUME CallTypeOK, NEW p \in Procs, NEW where \in Resting \cup UnderWay \cup {"logout"},
           pc[p] \in UnderWay \/ where \notin UnderWay,
           Goes(p, where), UNCHANGED <<kind, landed>>,
           UNCHANGED triesVars \/ Tried(p, 0, 0)
    PROVE  Quiet
<1>1. pc' = [pc EXCEPT ![p] = where]
  BY DEF Goes
<1>2. attempt' \in [Procs -> Nat] /\ settled' \in [Procs -> Nat]
  BY DEF CallTypeOK, triesVars, Tried
<1> QED
  BY <1>1, <1>2 DEF Quiet, CallTypeOK

LEMMA EndIsQuiet ==
    ASSUME CallTypeOK, NEW p \in Procs, NEW how \in Resting,
           Ends(p, how), UNCHANGED <<kind, landed>>
    PROVE  Quiet
<1>1. how \notin UnderWay
  BY DEF Resting, UnderWay
<1> QED
  BY <1>1, MoveIsQuiet DEF Ends

LEMMA QuietKeeps ==
    ASSUME CallTypeOK, LandInv, Quiet
    PROVE  CallTypeOK' /\ LandInv'
BY DEF CallTypeOK, LandInv, Quiet

-----------------------------------------------------------------------------
(* An answer after which a call that must not be repeated is sent again    *)
(* says that it took no effect.                                            *)
LEMMA ReplayIsHarmless ==
    ASSUME CallTypeOK, NEW p \in Procs, kind[p] \in OneShot, NEW a \in Answers(p),
           Settles(p, a) \/ Retries(p, a)
    PROVE  Effects(a) = {0}
<1>1. CASE Settles(p, a)
  BY <1>1 DEF Settles, Effects, Decided
<1>2. CASE Retries(p, a)
  <2>1. attempt[p] \in Nat
    BY DEF CallTypeOK
  <2>2. kind[p] = "write"
    BY <1>2, <2>1 DEF Retries, Retryable, Attempts, OneShot, GraphQL
  <2>3. a \in {"unreached", "cancelled"}
    BY <1>2, <2>2 DEF Retries, Retryable, RetryableStatuses, RetryAmbiguousNetwork,
                      GraphQL
  <2> QED
    BY <2>3 DEF Effects, Decided
<1> QED
  BY <1>1, <1>2

LEMMA SendKeeps ==
    ASSUME CallTypeOK, LandInv, NEW p \in Procs, Send(p)
    PROVE  CallTypeOK' /\ LandInv'
<1>1. pc[p] = "send" /\ kind' = kind
  BY DEF Send
<1>2. PICK a \in Answers(p) :
        /\ \E n \in Effects(a) : landed' = [landed EXCEPT ![p] = @ + n]
        /\ \/ a = "ok" /\ Ends(p, "done")
           \/ Settles(p, a) /\ Settle(p)
           \/ ~Settles(p, a) /\ Retries(p, a) /\ Retry(p)
           \/ a # "ok" /\ ~Settles(p, a) /\ ~Retries(p, a) /\ Ends(p, "failed")
  BY DEF Send
<1>3. PICK n \in Effects(a) : landed' = [landed EXCEPT ![p] = @ + n]
  BY <1>2
<1>4. n \in {0, 1}
  BY DEF Effects
<1>5. /\ attempt' \in [Procs -> Nat] /\ settled' \in [Procs -> Nat]
      /\ \/ pc' = [pc EXCEPT ![p] = "sleep"] /\ (Settles(p, a) \/ Retries(p, a))
         \/ \E how \in {"done", "failed"} : pc' = [pc EXCEPT ![p] = how]
  BY <1>2 DEF Settle, Retry, Ends, Goes, Tried, CallTypeOK
<1>6. landed' \in [Procs -> Nat]
  BY <1>3, <1>4 DEF CallTypeOK
<1>7. CallTypeOK'
  BY <1>1, <1>5, <1>6 DEF CallTypeOK, UnderWay, Resting
<1>8. LandInv'
  <2> SUFFICES ASSUME NEW q \in Procs, kind[q] \in OneShot
               PROVE  landed'[q] <= 1 /\ (pc'[q] \in UnderWay => landed'[q] = 0)
    BY <1>1 DEF LandInv
  <2>1. CASE q # p
    BY <2>1, <1>3, <1>5 DEF LandInv, CallTypeOK
  <2>2. CASE q = p
    <3>1. landed[p] = 0
      BY <1>1, <2>2 DEF LandInv, UnderWay
    <3>2. landed'[p] = n
      BY <1>3, <1>4, <3>1 DEF CallTypeOK
    <3>3. pc'[p] \in UnderWay => Settles(p, a) \/ Retries(p, a)
      BY <1>5 DEF CallTypeOK, UnderWay
    <3>4. pc'[p] \in UnderWay => n = 0
      BY <3>3, <2>2, <1>3, ReplayIsHarmless
    <3> QED
      BY <2>2, <3>2, <3>4, <1>4
  <2> QED
    BY <2>1, <2>2
<1> QED
  BY <1>7, <1>8

LEMMA StartKeeps ==
    ASSUME CallTypeOK, LandInv, NEW p \in Procs, Start(p)
    PROVE  CallTypeOK' /\ LandInv'
<1>1. PICK k : kind' = [kind EXCEPT ![p] = k]
  BY DEF Start
<1>2. /\ pc' = [pc EXCEPT ![p] = "cache"]
      /\ landed' = [landed EXCEPT ![p] = 0]
      /\ UNCHANGED <<attempt, settled>>
  BY DEF Start, Goes, triesVars
<1>3. CallTypeOK'
  BY <1>1, <1>2 DEF CallTypeOK, UnderWay
<1> QED
  BY <1>1, <1>2, <1>3 DEF LandInv, CallTypeOK

-----------------------------------------------------------------------------
LEMMA InitLands == Init => CallTypeOK /\ LandInv
BY DEF Init, CallTypeOK, LandInv, OneShot, Resting

LEMMA TokenStepIsQuiet ==
    ASSUME CallTypeOK, NEW p \in Procs,
           \/ KeychainRuns(p) \/ UseCached(p) \/ Refresh(p) \/ RefreshDenied(p)
           \/ UseLiteral(p) \/ Mint(p) \/ NoToken(p) \/ TokenStored(p)
    PROVE  Quiet
<1> USE DEF UnderWay, Resting
<1>1. CASE KeychainRuns(p)
  BY <1>1 DEF KeychainRuns, Quiet, CallTypeOK, triesVars
<1>2. CASE UseCached(p)
  <2>1. \E where \in {"send", "refresh", "mint"} : Goes(p, where)
    BY <1>2 DEF UseCached
  <2> QED
    BY <1>2, <2>1, MoveIsQuiet DEF UseCached
<1>3. CASE Refresh(p)
  BY <1>3, MoveIsQuiet DEF Refresh, Stores
<1>4. CASE RefreshDenied(p)
  BY <1>4, EndIsQuiet DEF RefreshDenied
<1>5. CASE UseLiteral(p)
  BY <1>5, MoveIsQuiet DEF UseLiteral
<1>6. CASE Mint(p)
  BY <1>6, MoveIsQuiet DEF Mint, Stores
<1>7. CASE NoToken(p)
  BY <1>7, EndIsQuiet DEF NoToken
<1>8. CASE TokenStored(p)
  BY <1>8, MoveIsQuiet DEF TokenStored
<1> QED
  BY <1>1, <1>2, <1>3, <1>4, <1>5, <1>6, <1>7, <1>8

LEMMA OtherStepIsQuiet ==
    ASSUME CallTypeOK, NEW p \in Procs,
           \/ LoggedOut(p) \/ Wake(p) \/ Logout(p) \/ RefreshLost(p)
           \/ KeychainRefuses(p) \/ Crash(p)
    PROVE  Quiet
<1> USE DEF UnderWay, Resting
<1>1. CASE LoggedOut(p)
  BY <1>1, MoveIsQuiet DEF LoggedOut
<1>2. CASE Wake(p)
  BY <1>2, MoveIsQuiet DEF Wake
<1>3. CASE Logout(p)
  BY <1>3, MoveIsQuiet DEF Logout
<1>4. CASE RefreshLost(p)
  BY <1>4, EndIsQuiet DEF RefreshLost
<1>5. CASE KeychainRefuses(p)
  BY <1>5 DEF KeychainRefuses, Quiet, CallTypeOK, triesVars
<1>6. CASE Crash(p)
  BY <1>6, EndIsQuiet DEF Crash
<1> QED
  BY <1>1, <1>2, <1>3, <1>4, <1>5, <1>6

LEMMA NextLands == CallTypeOK /\ LandInv /\ [Next]_vars => CallTypeOK' /\ LandInv'
<1> SUFFICES ASSUME CallTypeOK, LandInv, [Next]_vars
             PROVE  CallTypeOK' /\ LandInv'
  OBVIOUS
<1>1. CASE UNCHANGED vars
  BY <1>1, QuietKeeps DEF vars, Quiet, CallTypeOK, triesVars
<1>2. CASE Expire
  BY <1>2, QuietKeeps DEF Expire, Quiet, CallTypeOK, triesVars
<1>3. ASSUME NEW p \in Procs,
             CallStep(p) \/ Start(p) \/ Logout(p) \/ RefreshLost(p)
             \/ KeychainRefuses(p) \/ Crash(p)
      PROVE  CallTypeOK' /\ LandInv'
  <2>1. CASE Send(p)
    BY <2>1, SendKeeps
  <2>2. CASE Start(p)
    BY <2>2, StartKeeps
  <2>3. CASE ~Send(p) /\ ~Start(p)
    BY <1>3, <2>3, TokenStepIsQuiet, OtherStepIsQuiet, QuietKeeps DEF CallStep
  <2> QED
    BY <2>1, <2>2, <2>3
<1> QED
  BY <1>1, <1>2, <1>3 DEF Next

(* However its attempts are answered, one mutation or POST takes effect    *)
(* once at most: the retry loops of shared/graphql.ts and                  *)
(* shared/rate-limit-retry.ts send a write again only after an answer that *)
(* says nothing happened.                                                  *)
THEOREM NoWriteLandsTwice == Spec => []WritesLandOnce
<1>1. LandInv => WritesLandOnce
  BY DEF LandInv, WritesLandOnce, OneShot
<1> QED
  BY <1>1, InitLands, NextLands, PTL DEF Spec

-----------------------------------------------------------------------------
(* The keychain.  What it holds, how far a call that replaces the content  *)
(* of a slot has come, and what both have to do with the token calls.      *)

(* What a slot may hold: only the CM slot's bundles come with a refresh    *)
(* token.                                                                  *)
Bundles(s) == {v \in Secrets : s = "cm" \/ v.refresh = 0}

PieceOf(s) == [secret : Bundles(s), index : Indexes]

KcOps == {"idle", "read", "gather", "write", "put", "manifest", "drop", "delete",
          "clear", "unset", "got", "ended"}

(* A keychain call as it goes along.                                       *)
KcRecord ==
    [op : KcOps, slot : Slots, secret : Secrets \cup {None, Torn},
     old : 0 .. MaxChunks, i : 1 .. MaxChunks + 1, parts : Seq(Piece)]

KcFits(c) ==
    /\ c.secret \in Bundles(c.slot) \cup {None, Torn}
    /\ c.parts \in Seq(PieceOf(c.slot))
    /\ c.op \in {"read", "write", "delete"} => c.i = 1
    /\ IF c.op = "gather" THEN c.i <= c.old /\ Len(c.parts) = c.i - 1
       ELSE IF c.op = "got" THEN Len(c.parts) <= MaxChunks ELSE c.parts = <<>>
    /\ c.op \in {"write", "put", "manifest", "drop"} => c.secret \in Bundles(c.slot)
    /\ c.op \in {"delete", "clear", "unset"} => c.secret = None
    /\ c.op = "ended" => c.secret # Torn
    /\ c.op = "put" => c.i <= Size(c.secret)
    /\ c.op = "manifest" => c.i = Size(c.secret) + 1 /\ Size(c.secret) > 1
    /\ c.op \in {"drop", "clear"} => c.i <= c.old

KeychainInv ==
    /\ primary \in [Slots -> [whole : Secrets \cup {None}, chunks : 0 .. MaxChunks]]
    /\ chunk \in [Slots -> [Indexes -> Piece \cup {NoPiece}]]
    /\ kc \in [Procs -> KcRecord]
    /\ \A s \in Slots : primary[s].whole \in Bundles(s) \cup {None}
    /\ \A s \in Slots : \A i \in Indexes : chunk[s][i] \in PieceOf(s) \cup {NoPiece}
    /\ \A p \in Procs : KcFits(kc[p])

-----------------------------------------------------------------------------
(* The entries of a slot that holds v and nothing else.                    *)
PartsIn(v) == IF v = None \/ Size(v) = 1 THEN 0 ELSE Size(v)
EntryOf(v) == IF PartsIn(v) = 0 THEN Whole(v) ELSE Manifest(PartsIn(v))
PartOf(v, i) == IF i <= PartsIn(v) THEN [secret |-> v, index |-> i] ELSE NoPiece

Holding(s, v) == primary[s] = EntryOf(v) /\ \A i \in Indexes : chunk[s][i] = PartOf(v, i)

HoldsOne(s) == \E v \in Bundles(s) \cup {None} : Holding(s, v)

(* How far a call that replaces the content of its slot has come.          *)
Progress(c) ==
    /\ c.op \in {"write", "delete"} => HoldsOne(c.slot)
    /\ c.op \in {"put", "manifest"} =>
          \A j \in Indexes :
             /\ j < c.i => chunk[c.slot][j] = [secret |-> c.secret, index |-> j]
             /\ j >= c.i /\ j > c.old => chunk[c.slot][j] = NoPiece
    /\ c.op = "drop" =>
          /\ primary[c.slot] = EntryOf(c.secret)
          /\ c.i > PartsIn(c.secret)
    /\ c.op \in {"drop", "clear"} =>
          \A j \in Indexes : j < c.i \/ j > c.old => chunk[c.slot][j] = PartOf(c.secret, j)
    /\ c.op = "unset" => \A j \in Indexes : chunk[c.slot][j] = NoPiece
    /\ c.op = "ended" => Holding(c.slot, c.secret)

(* The keychain call that goes with the place in a call.                   *)
OpsAt(where) ==
    CASE where = "cache" -> {"read", "gather", "got"}
      [] where = "store" -> {"write", "put", "manifest", "drop", "ended"}
      [] where = "logout" -> {"delete", "clear", "unset", "ended"}
      [] OTHER -> {"idle"}

Changing(p, s) == Slot(p) = s /\ pc[p] \in {"store", "logout"}

Accepted(v) == v # None => v.refresh \in live \cup {0}

CalmInv(s) == calm[s] =>
    /\ \A p, q \in Procs : Replacing(p, s) /\ Replacing(q, s) => p = q
    /\ \A p \in Procs : Changing(p, s) => Progress(kc[p]) /\ Accepted(kc[p].secret)
    /\ (\A p \in Procs : ~Changing(p, s)) =>
          \E v \in Bundles(s) \cup {None} : Holding(s, v) /\ Accepted(v)

PlaceInv(p) ==
    /\ kc[p].slot = Slot(p)
    /\ kc[p].op \in OpsAt(pc[p])
    /\ pc[p] \in {"refresh", "logout"} => Slot(p) = "cm"

-----------------------------------------------------------------------------
LEMMA SizeFacts ==
    ASSUME NEW v \in Secrets
    PROVE  Size(v) \in 1 .. MaxChunks /\ v # None /\ v # Torn
  BY KeychainAssumption

LEMMA SlotFacts ==
    /\ {"cm", "api"} \subseteq Slots
    /\ \A s \in Slots : Bundles(s) \subseteq Secrets /\ PieceOf(s) \subseteq Piece
    /\ MaxChunks \in Nat \ {0} /\ Indexes = 1 .. MaxChunks
  BY KeychainAssumption, ApiCallAssumption DEF Bundles, PieceOf, Piece, Indexes

(* A call with the fields that change on its way.                          *)
KcAt(c, op, old, i) ==
    [op |-> op, slot |-> c.slot, secret |-> c.secret, old |-> old, i |-> i,
     parts |-> c.parts]

LEMMA KcFacts ==
    ASSUME KeychainInv, NEW p \in Procs
    PROVE  /\ kc[p] \in KcRecord /\ KcFits(kc[p]) /\ kc[p].slot \in Slots
           /\ kc[p].i \in 1 .. MaxChunks + 1 /\ kc[p].old \in 0 .. MaxChunks
           /\ kc[p].secret \in Secrets \cup {None, Torn} /\ kc[p].parts \in Seq(Piece)
           /\ kc[p].op \in KcOps
           /\ ChunkCount(p) \in 0 .. MaxChunks
           /\ primary[kc[p].slot].whole \in Bundles(kc[p].slot) \cup {None}
           /\ MaxChunks \in Nat \ {0}
<1>1. kc[p] \in KcRecord /\ KcFits(kc[p])
  BY DEF KeychainInv
<1>2. /\ kc[p].slot \in Slots /\ kc[p].op \in KcOps
      /\ kc[p].i \in 1 .. MaxChunks + 1 /\ kc[p].old \in 0 .. MaxChunks
      /\ kc[p].secret \in Secrets \cup {None, Torn} /\ kc[p].parts \in Seq(Piece)
  BY <1>1 DEF KcRecord
<1>3. primary[kc[p].slot] \in [whole : Secrets \cup {None}, chunks : 0 .. MaxChunks]
  BY <1>2 DEF KeychainInv
<1> QED  BY <1>1, <1>2, <1>3, KeychainAssumption DEF ChunkCount, KeychainInv

LEMMA KcAtType ==
    ASSUME NEW c \in KcRecord, NEW op \in KcOps, NEW old \in 0 .. MaxChunks,
           NEW i \in 1 .. MaxChunks + 1
    PROVE  KcAt(c, op, old, i) \in KcRecord
<1>1. c.slot \in Slots /\ c.secret \in Secrets \cup {None, Torn} /\ c.parts \in Seq(Piece)
  BY DEF KcRecord
<1> QED  BY <1>1 DEF KcRecord, KcAt

(* The step of a call is one of its record.                                *)
Moves(p, op, old, i) == kc' = [kc EXCEPT ![p] = KcAt(kc[p], op, old, i)]

LEMMA StepIs ==
    ASSUME KeychainInv, NEW p \in Procs, NEW op, NEW n
    PROVE  /\ kc' = [kc EXCEPT ![p].op = op] => Moves(p, op, kc[p].old, kc[p].i)
           /\ kc' = [kc EXCEPT ![p].op = op, ![p].old = n] => Moves(p, op, n, kc[p].i)
           /\ kc' = [kc EXCEPT ![p].op = op, ![p].i = n] => Moves(p, op, kc[p].old, n)
<1> PICK c : c = kc[p]
  OBVIOUS
<1>1. c \in KcRecord /\ kc \in [Procs -> KcRecord]
  BY DEF KeychainInv
<1>2. [kc EXCEPT ![p].op = op] = [kc EXCEPT ![p] = [c EXCEPT !.op = op]]
  BY <1>1
<1>3. [kc EXCEPT ![p].op = op, ![p].old = n]
       = [kc EXCEPT ![p] = [c EXCEPT !.op = op, !.old = n]]
  BY <1>1 DEF KcRecord
<1>4. [kc EXCEPT ![p].op = op, ![p].i = n]
       = [kc EXCEPT ![p] = [c EXCEPT !.op = op, !.i = n]]
  BY <1>1 DEF KcRecord
<1> DEFINE d == [c EXCEPT !.op = op]
           e == KcAt(c, op, c.old, c.i)
<1>5. d = e
  BY <1>1 DEF KcRecord, KcAt
<1>6. /\ [c EXCEPT !.op = op, !.old = n] = [d EXCEPT !.old = n]
      /\ [c EXCEPT !.op = op, !.i = n] = [d EXCEPT !.i = n]
  OBVIOUS
<1>7. [e EXCEPT !.old = n] = KcAt(c, op, n, c.i)
  BY DEF KcAt
<1>8. [e EXCEPT !.i = n] = KcAt(c, op, c.old, n)
  BY DEF KcAt
<1> HIDE DEF d, e
<1>9. [d EXCEPT !.old = n] = [e EXCEPT !.old = n] /\ [d EXCEPT !.i = n] = [e EXCEPT !.i = n]
  BY <1>5
<1>10. /\ [c EXCEPT !.op = op] = KcAt(c, op, c.old, c.i)
       /\ [c EXCEPT !.op = op, !.old = n] = KcAt(c, op, n, c.i)
       /\ [c EXCEPT !.op = op, !.i = n] = KcAt(c, op, c.old, n)
  BY <1>5, <1>6, <1>7, <1>8, <1>9 DEF d, e
<1>11. /\ [kc EXCEPT ![p].op = op] = [kc EXCEPT ![p] = KcAt(c, op, c.old, c.i)]
       /\ [kc EXCEPT ![p].op = op, ![p].old = n] = [kc EXCEPT ![p] = KcAt(c, op, n, c.i)]
       /\ [kc EXCEPT ![p].op = op, ![p].i = n] = [kc EXCEPT ![p] = KcAt(c, op, c.old, n)]
  BY <1>2, <1>3, <1>4, <1>10
<1>12. /\ Moves(p, op, c.old, c.i) <=> kc' = [kc EXCEPT ![p] = KcAt(c, op, c.old, c.i)]
       /\ Moves(p, op, n, c.i) <=> kc' = [kc EXCEPT ![p] = KcAt(c, op, n, c.i)]
       /\ Moves(p, op, c.old, n) <=> kc' = [kc EXCEPT ![p] = KcAt(c, op, c.old, n)]
  BY DEF Moves
<1> QED  BY <1>11, <1>12

LEMMA IdleFits ==
    ASSUME NEW s \in Slots
    PROVE  Idle(s) \in KcRecord /\ KcFits(Idle(s)) /\ Idle(s).op = "idle"
<1>1. 1 \in 1 .. MaxChunks + 1 /\ 0 \in 0 .. MaxChunks
  BY KeychainAssumption
<1>2. <<>> \in Seq(Piece) /\ <<>> \in Seq(PieceOf(s))
  OBVIOUS
<1> QED  BY <1>1, <1>2 DEF Idle, Call, KcRecord, KcFits, KcOps

(* A call as it is made.                                                   *)
LEMMA CallFits ==
    ASSUME NEW op \in {"read", "write", "delete"}, NEW s \in Slots,
           NEW v \in Bundles(s) \cup {None}, op = "write" => v \in Bundles(s),
           op = "delete" => v = None
    PROVE  Call(op, s, v) \in KcRecord /\ KcFits(Call(op, s, v))
<1>1. 1 \in 1 .. MaxChunks + 1 /\ 0 \in 0 .. MaxChunks
  BY KeychainAssumption
<1>2. <<>> \in Seq(Piece) /\ <<>> \in Seq(PieceOf(s))
  OBVIOUS
<1>3. v \in Secrets \cup {None, Torn}
  BY SlotFacts
<1> DEFINE c == Call(op, s, v)
<1>4. /\ c.op = op /\ c.slot = s /\ c.secret = v /\ c.old = 0 /\ c.i = 1
      /\ c.parts = <<>>
  BY DEF Call
<1>5. c \in KcRecord
  BY <1>1, <1>2, <1>3 DEF Call, KcRecord, KcOps
<1> HIDE DEF c
<1>6. KcFits(c)
  BY <1>2, <1>4 DEF KcFits
<1> QED  BY <1>5, <1>6 DEF c

LEMMA ReplaceFits ==
    ASSUME KeychainInv, NEW p \in Procs, NEW c \in KcRecord, KcFits(c),
           kc' = [kc EXCEPT ![p] = c], UNCHANGED <<primary, chunk>>
    PROVE  KeychainInv'
  BY DEF KeychainInv

LEMMA EntryFits ==
    ASSUME KeychainInv, NEW p \in Procs, NEW c \in KcRecord, KcFits(c),
           kc' = [kc EXCEPT ![p] = c], UNCHANGED chunk, NEW s \in Slots,
           NEW e \in [whole : Bundles(s) \cup {None}, chunks : 0 .. MaxChunks],
           primary' = [primary EXCEPT ![s] = e]
    PROVE  KeychainInv'
<1>1. e \in [whole : Secrets \cup {None}, chunks : 0 .. MaxChunks]
  BY SlotFacts
<1>2. primary' \in [Slots -> [whole : Secrets \cup {None}, chunks : 0 .. MaxChunks]]
  BY <1>1 DEF KeychainInv
<1>3. \A t \in Slots : primary'[t].whole \in Bundles(t) \cup {None}
  BY DEF KeychainInv
<1>4. kc' \in [Procs -> KcRecord] /\ \A q \in Procs : KcFits(kc'[q])
  BY DEF KeychainInv
<1> QED  BY <1>2, <1>3, <1>4 DEF KeychainInv

LEMMA PieceFits ==
    ASSUME KeychainInv, NEW p \in Procs, NEW c \in KcRecord, KcFits(c),
           kc' = [kc EXCEPT ![p] = c], UNCHANGED primary, NEW s \in Slots,
           NEW i \in Indexes, NEW piece \in PieceOf(s) \cup {NoPiece},
           chunk' = [chunk EXCEPT ![s][i] = piece]
    PROVE  KeychainInv'
<1>1. piece \in Piece \cup {NoPiece}
  BY SlotFacts
<1>2. chunk' \in [Slots -> [Indexes -> Piece \cup {NoPiece}]]
  BY <1>1 DEF KeychainInv
<1>3. \A t \in Slots : \A j \in Indexes : chunk'[t][j] \in PieceOf(t) \cup {NoPiece}
  BY DEF KeychainInv
<1>4. kc' \in [Procs -> KcRecord] /\ \A q \in Procs : KcFits(kc'[q])
  BY DEF KeychainInv
<1> QED  BY <1>2, <1>3, <1>4 DEF KeychainInv

-----------------------------------------------------------------------------
(* The steps of a reading call.                                            *)

(* What a step of a keychain call does.                                    *)
Effect(p) ==
    /\ KeychainInv'
    /\ \A q \in Procs \ {p} : kc'[q] = kc[q]
    /\ kc'[p].slot = kc[p].slot
    /\ \A where \in {"cache", "store", "logout"} :
          kc[p].op \in OpsAt(where) => kc'[p].op \in OpsAt(where)
    /\ \A s \in Slots : s # kc[p].slot \/ kc[p].op \in OpsAt("cache")
          => primary'[s] = primary[s] /\ chunk'[s] = chunk[s]
    /\ kc[p].op \notin OpsAt("cache") =>
          kc'[p].secret = kc[p].secret /\ (Progress(kc[p]) => Progress(kc[p])')

LEMMA ReadEffect ==
    ASSUME KeychainInv, NEW p \in Procs, NEW c \in KcRecord, KcFits(c),
           kc[p].op \in {"read", "gather"}, c.op \in {"gather", "got"},
           c.slot = kc[p].slot, kc' = [kc EXCEPT ![p] = c], UNCHANGED <<primary, chunk>>
    PROVE  Effect(p)
<1>1. KeychainInv'
  BY ReplaceFits
<1>2. /\ \A q \in Procs \ {p} : kc'[q] = kc[q]
      /\ kc'[p] = c
  BY DEF KeychainInv
<1>3. \A s \in Slots : primary'[s] = primary[s] /\ chunk'[s] = chunk[s]
  OBVIOUS
<1> QED  BY <1>1, <1>2, <1>3 DEF Effect, OpsAt

LEMMA ReturnsEffect ==
    ASSUME KeychainInv, NEW p \in Procs,
           NEW v \in Bundles(kc[p].slot) \cup {None, Torn}, kc[p].op \in {"read", "gather"},
           NEW parts \in Seq(PieceOf(kc[p].slot)), Len(parts) <= MaxChunks,
           Returns(p, v, parts), UNCHANGED <<primary, chunk>>
    PROVE  Effect(p)
<1> DEFINE s == kc[p].slot
           c == [Idle(s) EXCEPT !.op = "got", !.secret = v, !.parts = parts]
<1>1. s \in Slots
  BY KcFacts
<1>2. v \in Secrets \cup {None, Torn}
  BY <1>1, SlotFacts
<1>3. c = [op |-> "got", slot |-> s, secret |-> v, old |-> 0, i |-> 1, parts |-> parts]
  <2> DEFINE d == [op |-> "got", slot |-> s, secret |-> None, old |-> 0, i |-> 1,
                   parts |-> <<>>]
             e == [op |-> "got", slot |-> s, secret |-> v, old |-> 0, i |-> 1,
                   parts |-> <<>>]
  <2>1. [Idle(s) EXCEPT !.op = "got"] = d
    BY DEF Idle, Call
  <2>2. c = [[[Idle(s) EXCEPT !.op = "got"] EXCEPT !.secret = v] EXCEPT !.parts = parts]
    OBVIOUS
  <2>3. [d EXCEPT !.secret = v] = e
    OBVIOUS
  <2>4. [e EXCEPT !.parts = parts]
         = [op |-> "got", slot |-> s, secret |-> v, old |-> 0, i |-> 1, parts |-> parts]
    OBVIOUS
  <2> HIDE DEF c, d, e
  <2> QED  BY <2>1, <2>2, <2>3, <2>4
<1>4. 1 \in 1 .. MaxChunks + 1 /\ 0 \in 0 .. MaxChunks
  BY KeychainAssumption
<1>5. parts \in Seq(Piece)
  BY <1>1, SlotFacts
<1>6. c \in KcRecord
  BY <1>1, <1>2, <1>3, <1>4, <1>5 DEF KcRecord, KcOps
<1>7. c.op = "got" /\ c.slot = s /\ c.secret = v /\ c.parts = parts
  BY <1>3
<1>8. kc' = [kc EXCEPT ![p] = c]
  BY DEF Returns
<1> HIDE DEF c
<1>9. KcFits(c)
  BY <1>7 DEF KcFits
<1> QED  BY <1>6, <1>7, <1>8, <1>9, ReadEffect

LEMMA JoinedType ==
    ASSUME NEW s \in Slots, NEW parts \in Seq(PieceOf(s) \cup {NoPiece}), Len(parts) > 0,
           parts[1] # NoPiece
    PROVE  Joined(parts) \in Bundles(s) \cup {Torn}
<1>1. parts[1] \in PieceOf(s)
  OBVIOUS
<1>2. parts[1].secret \in Bundles(s)
  BY <1>1 DEF PieceOf
<1> QED  BY <1>2 DEF Joined

LEMMA ReadPrimaryEffect ==
    ASSUME KeychainInv, NEW p \in Procs, ReadPrimary(p)
    PROVE  Effect(p)
<1>1. kc[p].op = "read" /\ UNCHANGED <<primary, chunk>>
  BY DEF ReadPrimary, Doing
<1>2. CASE ChunkCount(p) = 0
  <2>1. <<>> \in Seq(PieceOf(kc[p].slot)) /\ Len(<<>>) <= MaxChunks
    BY KcFacts
  <2> QED  BY <1>1, <1>2, <2>1, KcFacts, ReturnsEffect DEF ReadPrimary
<1>3. CASE ChunkCount(p) # 0
  <2> DEFINE c == KcAt(kc[p], "gather", ChunkCount(p), kc[p].i)
  <2>1. kc' = [kc EXCEPT ![p] = c]
    BY <1>3, StepIs DEF ReadPrimary, Moves
  <2>2. c \in KcRecord
    BY KcFacts, KcAtType DEF KcOps
  <2>3. /\ c.op = "gather" /\ c.old = ChunkCount(p) /\ c.i = kc[p].i
        /\ c.parts = kc[p].parts /\ c.slot = kc[p].slot /\ c.secret = kc[p].secret
    BY DEF KcAt
  <2>4. /\ kc[p].i = 1 /\ kc[p].parts = <<>> /\ KcFits(kc[p])
        /\ ChunkCount(p) \in 1 .. MaxChunks
    BY <1>1, <1>3, KcFacts DEF KcFits
  <2> HIDE DEF c
  <2>5. KcFits(c)
    BY <2>3, <2>4 DEF KcFits
  <2> QED  BY <1>1, <2>1, <2>2, <2>3, <2>5, ReadEffect
<1> QED  BY <1>2, <1>3

LEMMA ReadChunkEffect ==
    ASSUME KeychainInv, NEW p \in Procs, ReadChunk(p)
    PROVE  Effect(p)
<1> DEFINE s == kc[p].slot
           part == chunk[s][kc[p].i]
           parts == Append(kc[p].parts, part)
<1>1. kc[p].op = "gather" /\ UNCHANGED <<primary, chunk>>
  BY DEF ReadChunk, Doing
<1>2. /\ kc[p].i <= kc[p].old /\ Len(kc[p].parts) = kc[p].i - 1 /\ s \in Slots
      /\ kc[p].parts \in Seq(PieceOf(s)) /\ KcFits(kc[p])
      /\ kc[p].i \in 1 .. MaxChunks + 1 /\ kc[p].old \in 0 .. MaxChunks
      /\ kc[p].secret \in Bundles(s) \cup {None, Torn}
  BY <1>1, KcFacts DEF KcFits
<1>3. kc[p].i \in Indexes
  BY <1>2, SlotFacts
<1>4. part \in PieceOf(s) \cup {NoPiece}
  BY <1>2, <1>3 DEF KeychainInv
<1>5. CASE part = NoPiece
  <2>1. <<>> \in Seq(PieceOf(s)) /\ Len(<<>>) <= MaxChunks
    BY SlotFacts
  <2> QED  BY <1>1, <1>5, <2>1, ReturnsEffect DEF ReadChunk
<1>6. CASE part # NoPiece
  <2>1. parts \in Seq(PieceOf(s)) /\ Len(parts) = kc[p].i
    <3> HIDE DEF part, s
    <3> QED  BY <1>2, <1>4, <1>6
  <2> HIDE DEF parts
  <2>2. CASE kc[p].i = kc[p].old
    <3>1. Returns(p, Joined(parts), parts)
      BY <1>6, <2>2 DEF ReadChunk, parts
    <3>2. parts[1] # NoPiece
      BY <2>1, <1>2 DEF PieceOf, NoPiece, Indexes
    <3>3. parts \in Seq(PieceOf(s) \cup {NoPiece}) /\ Len(parts) > 0
      BY <1>2, <2>1
    <3>4. Joined(parts) \in Bundles(s) \cup {Torn}
      BY <1>2, <3>2, <3>3, JoinedType
    <3>5. Len(parts) <= MaxChunks
      BY <1>2, <2>1, <2>2, SlotFacts
    <3> QED  BY <1>1, <2>1, <3>1, <3>4, <3>5, ReturnsEffect
  <2>3. CASE kc[p].i # kc[p].old
    <3> DEFINE c == [kc[p] EXCEPT !.i = kc[p].i + 1, !.parts = parts]
               n == kc[p].i + 1
               d == [op |-> "gather", slot |-> s, secret |-> kc[p].secret, old |-> kc[p].old,
                     i |-> n, parts |-> parts]
    <3>1. kc' = [kc EXCEPT ![p] = c]
      BY <1>6, <2>3, KcFacts DEF ReadChunk, KeychainInv, KcRecord, parts
    <3>2. parts \in Seq(Piece) /\ n \in 1 .. MaxChunks + 1 /\ n <= kc[p].old
          /\ Len(parts) = n - 1
      BY <1>2, <2>1, <2>3, SlotFacts
    <3>3. c = d
      <4> PICK r : r = kc[p]
        OBVIOUS
      <4>1. r \in KcRecord /\ r.op = "gather"
        BY <1>1 DEF KeychainInv
      <4>2. [r EXCEPT !.i = n]
             = [op |-> "gather", slot |-> r.slot, secret |-> r.secret, old |-> r.old,
                i |-> n, parts |-> r.parts]
        <5> HIDE DEF n
        <5> QED  BY <4>1 DEF KcRecord
      <4>3. [r EXCEPT !.i = n, !.parts = parts] = [[r EXCEPT !.i = n] EXCEPT !.parts = parts]
        OBVIOUS
      <4>4. [[op |-> "gather", slot |-> r.slot, secret |-> r.secret, old |-> r.old,
                i |-> n, parts |-> r.parts] EXCEPT !.parts = parts] =
               [op |-> "gather", slot |-> r.slot, secret |-> r.secret, old |-> r.old,
                i |-> n, parts |-> parts]
        OBVIOUS
      <4>5. [r EXCEPT !.i = n, !.parts = parts] =
               [op |-> "gather", slot |-> r.slot, secret |-> r.secret, old |-> r.old,
                i |-> n, parts |-> parts]
        BY <4>2, <4>3, <4>4
      <4> QED  BY <4>5
    <3> HIDE DEF n
    <3>4. d \in KcRecord
      BY <1>2, <3>2, KcFacts DEF KcRecord, KcOps
    <3>5. d.op = "gather" /\ d.slot = s /\ d.secret = kc[p].secret /\ d.old = kc[p].old
          /\ d.i = n /\ d.parts = parts
      OBVIOUS
    <3> HIDE DEF c, d
    <3>6. KcFits(d)
      BY <1>2, <2>1, <3>2, <3>5 DEF KcFits
    <3> QED  BY <1>1, <3>1, <3>3, <3>4, <3>5, <3>6, ReadEffect
  <2> QED  BY <2>2, <2>3
<1> QED  BY <1>5, <1>6

-----------------------------------------------------------------------------
(* The steps of a writing call.  Until its last set, what it has put is in *)
(* place and nothing lies beyond what it found; then it drops the rest.    *)

Moved(p, op, old, i) ==
    /\ kc'[p] \in KcRecord
    /\ kc'[p].op = op /\ kc'[p].old = old /\ kc'[p].i = i
    /\ kc'[p].slot = kc[p].slot /\ kc'[p].secret = kc[p].secret
    /\ kc'[p].parts = kc[p].parts
    /\ kc' = [kc EXCEPT ![p] = kc'[p]]
    /\ \A q \in Procs \ {p} : kc'[q] = kc[q]

LEMMA AtFacts ==
    ASSUME KeychainInv, NEW p \in Procs, NEW op \in KcOps, NEW old \in 0 .. MaxChunks,
           NEW i \in 1 .. MaxChunks + 1, Moves(p, op, old, i)
    PROVE  Moved(p, op, old, i)
<1>1. KcAt(kc[p], op, old, i) \in KcRecord
  BY KcFacts, KcAtType
<1>2. /\ kc'[p] = KcAt(kc[p], op, old, i) /\ \A q \in Procs \ {p} : kc'[q] = kc[q]
      /\ kc' = [kc EXCEPT ![p] = kc'[p]]
  BY DEF KeychainInv, Moves
<1> QED  BY <1>1, <1>2 DEF KcAt, Moved

LEMMA WholeFacts ==
    ASSUME NEW v \in Secrets \cup {None}
    PROVE  /\ PartsIn(v) \in 0 .. MaxChunks
           /\ v = None \/ Size(v) = 1 => PartsIn(v) = 0 /\ EntryOf(v) = Whole(v)
           /\ v # None /\ Size(v) # 1 => PartsIn(v) = Size(v) /\ EntryOf(v) = Manifest(Size(v))
           /\ EntryOf(v).chunks = PartsIn(v)
<1>1. CASE v = None \/ Size(v) = 1
  BY <1>1, SlotFacts DEF PartsIn, EntryOf, Whole
<1>2. CASE v # None /\ Size(v) # 1
  <2>1. Size(v) \in 1 .. MaxChunks
    BY <1>2, SizeFacts
  <2> QED  BY <1>2, <2>1 DEF PartsIn, EntryOf, Manifest
<1> QED  BY <1>1, <1>2

(* The call measures what it replaces.                                     *)
LEMMA HeldParts ==
    ASSUME NEW s \in Slots, HoldsOne(s)
    PROVE  \A j \in Indexes : j > primary[s].chunks => chunk[s][j] = NoPiece
<1>1. PICK v \in Bundles(s) \cup {None} : Holding(s, v)
  BY DEF HoldsOne
<1>2. v \in Secrets \cup {None}
  BY SlotFacts
<1>3. primary[s].chunks = PartsIn(v) /\ PartsIn(v) \in Nat
  BY <1>1, <1>2, WholeFacts, SlotFacts DEF Holding
<1>4. ASSUME NEW j \in Indexes, j > primary[s].chunks
      PROVE  chunk[s][j] = NoPiece
  <2>1. ~(j <= PartsIn(v))
    BY <1>3, <1>4, SlotFacts
  <2>2. chunk[s][j] = PartOf(v, j)
    BY <1>1 DEF Holding
  <2> QED  BY <2>1, <2>2 DEF PartOf
<1> QED  BY <1>4

LEMMA MeasureOldEffect ==
    ASSUME KeychainInv, NEW p \in Procs, MeasureOld(p)
    PROVE  Effect(p)
<1> DEFINE s == kc[p].slot
           c == kc'[p]
<1>1. kc[p].op = "write" /\ UNCHANGED <<primary, chunk>>
  BY DEF MeasureOld, Doing
<1>2. Moves(p, "put", ChunkCount(p), kc[p].i)
  BY StepIs DEF MeasureOld
<1>3. Moved(p, "put", ChunkCount(p), kc[p].i)
  <2>1. "put" \in KcOps
    BY DEF KcOps
  <2>2. ChunkCount(p) \in 0 .. MaxChunks /\ kc[p].i \in 1 .. MaxChunks + 1
    BY KcFacts
  <2> QED  BY <1>2, <2>1, <2>2, AtFacts
<1>4. /\ kc[p].i = 1 /\ kc[p].parts = <<>> /\ kc[p].secret \in Bundles(s) /\ s \in Slots
      /\ kc[p].parts \in Seq(PieceOf(s))
  BY <1>1, KcFacts DEF KcFits
<1>5. Size(kc[p].secret) \in 1 .. MaxChunks
  BY <1>4, SlotFacts, SizeFacts
<1>6. KcFits(c)
  BY <1>3, <1>4, <1>5, SlotFacts DEF KcFits, Moved
<1>7. KeychainInv'
  BY <1>1, <1>3, <1>6, ReplaceFits DEF Moved
<1>8. ASSUME Progress(kc[p])
      PROVE  Progress(kc[p])'
  <2>1. \A j \in Indexes : j > ChunkCount(p) => chunk[s][j] = NoPiece
    BY <1>1, <1>4, <1>8, HeldParts DEF Progress, ChunkCount
  <2> QED  BY <1>1, <1>3, <1>4, <2>1, SlotFacts DEF Progress, Moved
<1> QED  BY <1>1, <1>3, <1>7, <1>8 DEF Effect, OpsAt, Moved

(* After its last set a write drops what lies beyond it.                   *)
LEMMA DropFromEffect ==
    ASSUME KeychainInv, NEW p \in Procs, NEW from \in 1 .. MaxChunks + 1,
           kc[p].op \in {"put", "manifest"},
           from = PartsIn(kc[p].secret) + 1, kc[p].i = from, DropFrom(p, from),
           primary' = [primary EXCEPT ![kc[p].slot] = EntryOf(kc[p].secret)],
           UNCHANGED chunk,
           \A j \in Indexes : j < from =>
              (Progress(kc[p]) => chunk[kc[p].slot][j] = PartOf(kc[p].secret, j))
    PROVE  Effect(p)
<1> DEFINE s == kc[p].slot
           v == kc[p].secret
           c == kc'[p]
<1>0. PICK op, i :
         /\ op = IF kc[p].old >= from THEN "drop" ELSE "ended"
         /\ i = IF kc[p].old >= from THEN from ELSE 1
         /\ kc' = [kc EXCEPT ![p].op = op, ![p].i = i]
  BY DEF DropFrom
<1>2. /\ op \in KcOps /\ i \in 1 .. MaxChunks + 1 /\ op \in {"drop", "ended"}
      /\ op = "drop" => kc[p].old >= from /\ i = from
      /\ op = "ended" => kc[p].old < from
  BY <1>0, KcFacts DEF KcOps
<1>1. Moves(p, op, kc[p].old, i)
  BY <1>0, StepIs
<1>3. Moved(p, op, kc[p].old, i)
  <2>1. kc[p].old \in 0 .. MaxChunks
    BY KcFacts
  <2> QED  BY <1>1, <1>2, <2>1, AtFacts
<1>4. /\ kc[p].parts = <<>> /\ v \in Bundles(s) /\ s \in Slots
      /\ kc[p].parts \in Seq(PieceOf(s)) /\ kc[p].old \in 0 .. MaxChunks
  BY KcFacts DEF KcFits
<1>5. v \in Secrets /\ v # Torn
  BY <1>4, SlotFacts, SizeFacts
<1>6. KcFits(c)
  BY <1>2, <1>3, <1>4, <1>5 DEF KcFits, Moved
<1>7. KeychainInv'
  <2>1. EntryOf(v) \in [whole : Bundles(s) \cup {None}, chunks : 0 .. MaxChunks]
    <3>1. PartsIn(v) \in 0 .. MaxChunks
      BY <1>5, WholeFacts
    <3> QED  BY <1>4, <3>1, SlotFacts DEF EntryOf, Whole, Manifest
  <2> QED  BY <1>1, <1>3, <1>4, <1>6, <2>1, EntryFits DEF Moved
<1>8. ASSUME Progress(kc[p])
      PROVE  Progress(kc[p])'
  <2>1. \A j \in Indexes : j < from => chunk[s][j] = PartOf(v, j)
    BY <1>8
  <2>2. \A j \in Indexes : j >= from /\ j > kc[p].old => chunk[s][j] = NoPiece
    BY <1>8 DEF Progress
  <2>3. \A j \in Indexes : j >= from => PartOf(v, j) = NoPiece
    <3>1. PartsIn(v) \in Nat
      BY <1>5, WholeFacts, SlotFacts
    <3> QED  BY <3>1, SlotFacts DEF PartOf
  <2>4. \A j \in Indexes : j < from \/ j > kc[p].old => chunk[s][j] = PartOf(v, j)
    <3> SUFFICES ASSUME NEW j \in Indexes, j < from \/ j > kc[p].old
                 PROVE  chunk[s][j] = PartOf(v, j)
      OBVIOUS
    <3>1. j < from \/ j >= from
      BY SlotFacts
    <3> QED  BY <2>1, <2>2, <2>3, <3>1
  <2>5. primary'[s] = EntryOf(v)
    BY <1>4 DEF KeychainInv
  <2>6. CASE op = "drop"
    <3>1. i > PartsIn(v)
      BY <1>2, <1>5, <2>6, WholeFacts, SlotFacts
    <3> QED  BY <1>2, <1>3, <2>4, <2>5, <2>6, <3>1 DEF Progress, Moved
  <2>7. CASE op = "ended"
    <3>1. \A j \in Indexes : j < from \/ j > kc[p].old
      BY <1>2, <1>4, <2>7, SlotFacts
    <3> QED  BY <1>3, <2>4, <2>5, <2>7, <3>1 DEF Progress, Holding, Moved
  <2> QED  BY <1>2, <2>6, <2>7
<1>9. \A t \in Slots : t # s => primary'[t] = primary[t] /\ chunk'[t] = chunk[t]
  BY DEF KeychainInv
<1> QED  BY <1>2, <1>3, <1>7, <1>8, <1>9 DEF Effect, OpsAt, Moved

LEMMA PutWholeEffect ==
    ASSUME KeychainInv, NEW p \in Procs, PutWhole(p)
    PROVE  Effect(p)
<1>1. /\ kc[p].op = "put" /\ Size(kc[p].secret) = 1 /\ DropFrom(p, 1) /\ UNCHANGED chunk
      /\ primary' = [primary EXCEPT ![kc[p].slot] = Whole(kc[p].secret)]
  BY DEF PutWhole, Doing
<1>2. kc[p].secret \in Secrets /\ kc[p].i <= 1 /\ kc[p].i \in 1 .. MaxChunks + 1
  BY <1>1, KcFacts, SlotFacts DEF KcFits
<1>3. PartsIn(kc[p].secret) = 0 /\ EntryOf(kc[p].secret) = Whole(kc[p].secret)
  BY <1>1, <1>2, WholeFacts
<1>4. 1 \in 1 .. MaxChunks + 1 /\ kc[p].i = 1 /\ \A j \in Indexes : ~(j < 1)
  BY <1>2, SlotFacts
<1>5. 1 = PartsIn(kc[p].secret) + 1
  BY <1>3
<1>6. primary' = [primary EXCEPT ![kc[p].slot] = EntryOf(kc[p].secret)]
  BY <1>1, <1>3
<1> QED  BY <1>1, <1>4, <1>5, <1>6, DropFromEffect

LEMMA PutManifestEffect ==
    ASSUME KeychainInv, NEW p \in Procs, PutManifest(p)
    PROVE  Effect(p)
<1> DEFINE v == kc[p].secret
<1>1. /\ kc[p].op = "manifest" /\ DropFrom(p, Size(v) + 1) /\ UNCHANGED chunk
      /\ primary' = [primary EXCEPT ![kc[p].slot] = Manifest(Size(v))]
  BY DEF PutManifest, Doing
<1>2. v \in Secrets /\ kc[p].i = Size(v) + 1 /\ Size(v) > 1
  BY <1>1, KcFacts, SlotFacts DEF KcFits
<1>3. Size(v) \in 1 .. MaxChunks
  BY <1>2, SizeFacts
<1>4. PartsIn(v) = Size(v) /\ EntryOf(v) = Manifest(Size(v))
  BY <1>2, <1>3, WholeFacts, SizeFacts
<1>5. Size(v) + 1 \in 1 .. MaxChunks + 1
  BY <1>3, SlotFacts
<1>6. \A j \in Indexes : j < Size(v) + 1 =>
         (Progress(kc[p]) => chunk[kc[p].slot][j] = PartOf(v, j))
  BY <1>1, <1>2, <1>3, <1>4, SlotFacts DEF Progress, PartOf
<1> QED  BY <1>1, <1>2, <1>4, <1>5, <1>6, DropFromEffect

-----------------------------------------------------------------------------
(* ... and of a deleting one.                                              *)

LEMMA PutChunkEffect ==
    ASSUME KeychainInv, NEW p \in Procs, PutChunk(p)
    PROVE  Effect(p)
<1> DEFINE s == kc[p].slot
           v == kc[p].secret
           piece == [secret |-> v, index |-> kc[p].i]
<1>1. /\ kc[p].op = "put" /\ Size(v) > 1 /\ UNCHANGED primary
      /\ chunk' = [chunk EXCEPT ![s][kc[p].i] = piece]
  BY DEF PutChunk, Doing
<1>2. PICK op, i :
         /\ op = IF kc[p].i = Size(v) THEN "manifest" ELSE "put"
         /\ i = kc[p].i + 1
         /\ kc' = [kc EXCEPT ![p].op = op, ![p].i = i]
  <2>1. kc[p].i + 1 = kc[p].i + 1
    OBVIOUS
  <2>2. kc' = [kc EXCEPT ![p].op = IF kc[p].i = Size(v) THEN "manifest" ELSE "put",
                         ![p].i = kc[p].i + 1]
    BY KcFacts DEF PutChunk, KcRecord, KeychainInv
  <2> QED  BY <2>2
<1>3. /\ kc[p].parts = <<>> /\ v \in Bundles(s) /\ s \in Slots
      /\ kc[p].parts \in Seq(PieceOf(s)) /\ kc[p].old \in 0 .. MaxChunks
      /\ kc[p].i <= Size(v) /\ kc[p].i \in 1 .. MaxChunks + 1
  BY <1>1, KcFacts DEF KcFits
<1>4. v \in Secrets /\ v # Torn /\ Size(v) \in 1 .. MaxChunks
  BY <1>3, SlotFacts, SizeFacts
<1>5. /\ op \in KcOps /\ i \in 1 .. MaxChunks + 1 /\ op \in {"put", "manifest"}
      /\ op = "put" => i <= Size(v)
      /\ op = "manifest" => i = Size(v) + 1
      /\ kc[p].i \in Indexes /\ i = kc[p].i + 1
  BY <1>2, <1>3, <1>4, SlotFacts DEF KcOps
<1>6. Moved(p, op, kc[p].old, i)
  BY <1>2, <1>3, <1>5, StepIs, AtFacts
<1>7. KcFits(kc'[p])
  BY <1>1, <1>3, <1>4, <1>5, <1>6 DEF KcFits, Moved
<1>8. piece \in PieceOf(s)
  BY <1>3, <1>5 DEF PieceOf
<1>9. KeychainInv'
  <2> HIDE DEF piece
  <2> QED  BY <1>1, <1>3, <1>5, <1>6, <1>7, <1>8, PieceFits DEF Moved
<1>10. ASSUME Progress(kc[p])
       PROVE  Progress(kc[p])'
  <2>1. \A j \in Indexes : chunk'[s][j] = IF j = kc[p].i THEN piece ELSE chunk[s][j]
    BY <1>1, <1>3, <1>5 DEF KeychainInv
  <2>2. \A j \in Indexes :
           /\ j < kc[p].i => chunk[s][j] = [secret |-> v, index |-> j]
           /\ j >= kc[p].i /\ j > kc[p].old => chunk[s][j] = NoPiece
    BY <1>1, <1>10 DEF Progress
  <2>3. ASSUME NEW j \in Indexes
        PROVE  /\ j < i => chunk'[s][j] = [secret |-> v, index |-> j]
               /\ j >= i /\ j > kc[p].old => chunk'[s][j] = NoPiece
    <3>1. j \in Nat /\ kc[p].i \in Nat
      BY <1>5, SlotFacts
    <3>2. CASE j = kc[p].i
      BY <1>5, <2>1, <3>1, <3>2
    <3>3. CASE j # kc[p].i
      <4>1. chunk'[s][j] = chunk[s][j]
        BY <2>1, <3>3
      <4>2. (j < i => j < kc[p].i) /\ (j >= i => j >= kc[p].i)
        BY <1>5, <3>1, <3>3
      <4> QED  BY <2>2, <4>1, <4>2
    <3> QED  BY <3>2, <3>3
  <2> QED  BY <1>5, <1>6, <2>3 DEF Progress, Moved
<1>11. \A t \in Slots : t # s => primary'[t] = primary[t] /\ chunk'[t] = chunk[t]
  BY <1>1 DEF KeychainInv
<1> QED  BY <1>1, <1>5, <1>6, <1>9, <1>10, <1>11 DEF Effect, OpsAt, Moved

(* After a chunk was deleted, or was not, deleteChunks goes on.            *)
LEMMA AfterChunkFacts ==
    ASSUME KeychainInv, NEW p \in Procs, AfterChunk(p)
    PROVE  /\ KcFits(kc'[p]) /\ kc[p].slot \in Slots /\ kc[p].op \in {"drop", "clear"}
           /\ kc[p].secret \in Bundles(kc[p].slot) \cup {None}
           /\ kc[p].secret \in Secrets \cup {None}
           /\ kc[p].op = "drop" => kc[p].secret \in Bundles(kc[p].slot)
           /\ kc[p].op = "clear" => kc[p].secret = None
           /\ kc[p].i \in Indexes /\ kc[p].i <= kc[p].old
           /\ \E op \in {"drop", "clear", "ended", "unset"}, i \in 1 .. MaxChunks + 1 :
                 /\ Moved(p, op, kc[p].old, i)
                 /\ op \in {"drop", "clear"} =>
                       op = kc[p].op /\ i = kc[p].i + 1 /\ i <= kc[p].old
                 /\ op \in {"ended", "unset"} => kc[p].i = kc[p].old
                 /\ op = "ended" => kc[p].op = "drop"
                 /\ op = "unset" => kc[p].op = "clear"
<1> DEFINE s == kc[p].slot
           v == kc[p].secret
<1>1. kc[p].op \in {"drop", "clear"}
  BY DEF AfterChunk, Doing
<1>2. PICK op, i :
         /\ op = IF kc[p].i < kc[p].old THEN kc[p].op
                 ELSE IF kc[p].op = "drop" THEN "ended" ELSE "unset"
         /\ i = IF kc[p].i < kc[p].old THEN kc[p].i + 1 ELSE 1
         /\ kc' = [kc EXCEPT ![p].op = op, ![p].i = i]
  <2>1. kc' = [kc EXCEPT ![p].op = IF kc[p].i < kc[p].old THEN kc[p].op
                                   ELSE IF kc[p].op = "drop" THEN "ended" ELSE "unset",
                         ![p].i = IF kc[p].i < kc[p].old THEN kc[p].i + 1 ELSE 1]
    BY KcFacts DEF AfterChunk, KcRecord, KeychainInv
  <2> QED  BY <2>1
<1>3. /\ kc[p].parts = <<>> /\ v \in Bundles(s) \cup {None} /\ s \in Slots
      /\ kc[p].parts \in Seq(PieceOf(s)) /\ kc[p].old \in 0 .. MaxChunks
      /\ kc[p].i <= kc[p].old /\ kc[p].i \in 1 .. MaxChunks + 1
      /\ kc[p].op = "drop" => v \in Bundles(s)
      /\ kc[p].op = "clear" => v = None
  BY <1>1, KcFacts DEF KcFits
<1>4. v \in Secrets \cup {None} /\ v # Torn
  BY <1>3, SlotFacts, SizeFacts, KeychainAssumption
<1>5. /\ op \in KcOps /\ i \in 1 .. MaxChunks + 1 /\ op \in {"drop", "clear", "ended", "unset"}
      /\ op \in {"drop", "clear"} => op = kc[p].op /\ i = kc[p].i + 1 /\ i <= kc[p].old
      /\ op \in {"ended", "unset"} => kc[p].i = kc[p].old
      /\ op = "ended" => kc[p].op = "drop"
      /\ op = "unset" => kc[p].op = "clear"
      /\ kc[p].i \in Indexes
  BY <1>1, <1>2, <1>3, SlotFacts DEF KcOps
<1>6. Moved(p, op, kc[p].old, i)
  BY <1>2, <1>3, <1>5, StepIs, AtFacts
<1>7. KcFits(kc'[p])
  BY <1>1, <1>3, <1>4, <1>5, <1>6 DEF KcFits, Moved
<1> QED  BY <1>1, <1>3, <1>4, <1>5, <1>6, <1>7

LEMMA DropChunkEffect ==
    ASSUME KeychainInv, NEW p \in Procs, DropChunk(p)
    PROVE  Effect(p)
<1> DEFINE s == kc[p].slot
           v == kc[p].secret
<1>1. /\ AfterChunk(p) /\ kc[p].op \in {"drop", "clear"} /\ UNCHANGED primary
      /\ chunk' = [chunk EXCEPT ![s][kc[p].i] = NoPiece]
  BY DEF DropChunk, AfterChunk, Doing
<1>3. /\ v \in Bundles(s) \cup {None} /\ s \in Slots
      /\ kc[p].old \in 0 .. MaxChunks
      /\ kc[p].i <= kc[p].old /\ kc[p].i \in 1 .. MaxChunks + 1 /\ kc[p].i \in Indexes
      /\ kc[p].op = "drop" => v \in Bundles(s)
      /\ kc[p].op = "clear" => v = None
  BY <1>1, KcFacts, AfterChunkFacts
<1>4. v \in Secrets \cup {None}
  BY <1>1, AfterChunkFacts
<1>2. PICK op \in {"drop", "clear", "ended", "unset"}, i \in 1 .. MaxChunks + 1 :
         /\ Moved(p, op, kc[p].old, i)
         /\ op \in {"drop", "clear"} => op = kc[p].op /\ i = kc[p].i + 1 /\ i <= kc[p].old
         /\ op \in {"ended", "unset"} => kc[p].i = kc[p].old
         /\ op = "ended" => kc[p].op = "drop"
         /\ op = "unset" => kc[p].op = "clear"
  BY <1>1, AfterChunkFacts
<1>5. /\ op \in {"drop", "clear", "ended", "unset"} /\ i \in 1 .. MaxChunks + 1
      /\ op \in {"drop", "clear"} => op = kc[p].op /\ i = kc[p].i + 1 /\ i <= kc[p].old
      /\ op \in {"ended", "unset"} => kc[p].i = kc[p].old
      /\ op = "ended" => kc[p].op = "drop"
      /\ op = "unset" => kc[p].op = "clear"
      /\ kc[p].i \in Indexes
  BY <1>2, <1>3
<1>6. Moved(p, op, kc[p].old, i)
  BY <1>2
<1>7. KcFits(kc'[p])
  BY <1>1, AfterChunkFacts
<1>9. KeychainInv'
  BY <1>1, <1>3, <1>5, <1>6, <1>7, PieceFits DEF Moved
<1>10. ASSUME Progress(kc[p])
       PROVE  Progress(kc[p])'
  <2>1. \A j \in Indexes : chunk'[s][j] = IF j = kc[p].i THEN NoPiece ELSE chunk[s][j]
    BY <1>1, <1>3, <1>5 DEF KeychainInv
  <2>2. \A j \in Indexes : j < kc[p].i \/ j > kc[p].old => chunk[s][j] = PartOf(v, j)
    BY <1>1, <1>10 DEF Progress
  <2>3. /\ kc[p].op = "drop" => primary[s] = EntryOf(v) /\ kc[p].i > PartsIn(v)
        /\ kc[p].op = "clear" => PartsIn(v) = 0
    BY <1>3, <1>4, <1>10, WholeFacts DEF Progress
  <2>4. kc[p].i > PartsIn(v) /\ PartsIn(v) \in Nat /\ kc[p].i \in Nat
    BY <1>1, <1>3, <1>4, <2>3, WholeFacts, SlotFacts
  <2>5. PartOf(v, kc[p].i) = NoPiece
    BY <2>4 DEF PartOf
  <2>6. \A j \in Indexes : j <= kc[p].i \/ j > kc[p].old => chunk'[s][j] = PartOf(v, j)
    <3> SUFFICES ASSUME NEW j \in Indexes, j <= kc[p].i \/ j > kc[p].old
                 PROVE  chunk'[s][j] = PartOf(v, j)
      OBVIOUS
    <3>1. CASE j = kc[p].i
      BY <2>1, <2>5, <3>1
    <3>2. CASE j # kc[p].i
      <4>1. j < kc[p].i \/ j > kc[p].old
        BY <2>4, <3>2, SlotFacts
      <4> QED  BY <2>1, <2>2, <3>2, <4>1
    <3> QED  BY <3>1, <3>2
  <2>7. CASE op \in {"drop", "clear"}
    <3>1. i > PartsIn(v)
      BY <1>5, <2>4, <2>7
    <3>2. \A j \in Indexes : j < i \/ j > kc[p].old => chunk'[s][j] = PartOf(v, j)
      BY <1>5, <2>4, <2>6, <2>7, SlotFacts
    <3> QED  BY <1>1, <1>5, <1>6, <2>3, <2>7, <3>1, <3>2 DEF Progress, Moved
  <2>8. CASE op \in {"ended", "unset"}
    <3>1. \A j \in Indexes : chunk'[s][j] = PartOf(v, j)
      BY <1>5, <2>4, <2>6, <2>8, SlotFacts
    <3>2. CASE op = "ended"
      BY <1>1, <1>5, <1>6, <2>3, <3>1, <3>2 DEF Progress, Moved, Holding
    <3>3. CASE op = "unset"
      <4>1. \A j \in Indexes : PartOf(v, j) = NoPiece
        BY <1>5, <2>3, <3>3, SlotFacts DEF PartOf
      <4> QED  BY <1>6, <3>1, <3>3, <4>1 DEF Progress, Moved
    <3> QED  BY <2>8, <3>2, <3>3
  <2> QED  BY <1>5, <2>7, <2>8
<1>11. \A t \in Slots : t # s => primary'[t] = primary[t] /\ chunk'[t] = chunk[t]
  BY <1>1 DEF KeychainInv
<1> QED  BY <1>1, <1>5, <1>6, <1>9, <1>10, <1>11 DEF Effect, OpsAt, Moved

LEMMA MeasureDeletedEffect ==
    ASSUME KeychainInv, NEW p \in Procs, MeasureDeleted(p)
    PROVE  Effect(p)
<1> DEFINE s == kc[p].slot
<1>1. kc[p].op = "delete" /\ UNCHANGED <<primary, chunk>>
  BY DEF MeasureDeleted, Doing
<1>2. PICK op, n :
         /\ op = IF ChunkCount(p) > 0 THEN "clear" ELSE "unset"
         /\ n = ChunkCount(p)
         /\ kc' = [kc EXCEPT ![p].op = op, ![p].old = n]
  BY DEF MeasureDeleted
<1>3. /\ kc[p].i = 1 /\ kc[p].parts = <<>> /\ kc[p].secret = None /\ s \in Slots
      /\ kc[p].parts \in Seq(PieceOf(s)) /\ n \in 0 .. MaxChunks
      /\ kc[p].i \in 1 .. MaxChunks + 1
  BY <1>1, <1>2, KcFacts DEF KcFits
<1>4. op \in KcOps /\ op \in {"clear", "unset"} /\ (op = "clear" => 1 <= n)
      /\ (op = "unset" => n = 0)
  BY <1>2, <1>3, SlotFacts DEF KcOps
<1>5. Moved(p, op, n, kc[p].i)
  BY <1>2, <1>3, <1>4, StepIs, AtFacts
<1>6. KcFits(kc'[p])
  BY <1>3, <1>4, <1>5 DEF KcFits, Moved
<1>7. KeychainInv'
  BY <1>1, <1>5, <1>6, ReplaceFits DEF Moved
<1>8. ASSUME Progress(kc[p])
      PROVE  Progress(kc[p])'
  <2>1. \A j \in Indexes : j > n => chunk[s][j] = NoPiece
    BY <1>1, <1>2, <1>3, <1>8, HeldParts DEF Progress, ChunkCount
  <2>2. \A j \in Indexes : PartOf(None, j) = NoPiece /\ j > 0 /\ ~(j < 1)
    BY SlotFacts DEF PartOf, PartsIn
  <2> QED  BY <1>1, <1>3, <1>4, <1>5, <2>1, <2>2 DEF Progress, Moved
<1> QED  BY <1>1, <1>4, <1>5, <1>7, <1>8 DEF Effect, OpsAt, Moved

LEMMA UnsetEffect ==
    ASSUME KeychainInv, NEW p \in Procs, Unset(p)
    PROVE  Effect(p)
<1> DEFINE s == kc[p].slot
<1>1. /\ kc[p].op = "unset" /\ UNCHANGED chunk
      /\ primary' = [primary EXCEPT ![s] = NoEntry]
  BY DEF Unset, Doing
<1>2. kc' = [kc EXCEPT ![p].op = "ended"]
  BY DEF Unset, Becomes
<1>3. /\ kc[p].parts = <<>> /\ kc[p].secret = None /\ s \in Slots /\ "ended" \in KcOps
      /\ kc[p].parts \in Seq(PieceOf(s)) /\ kc[p].old \in 0 .. MaxChunks
      /\ kc[p].i \in 1 .. MaxChunks + 1
  BY <1>1, KcFacts DEF KcFits, KcOps
<1>4. Moved(p, "ended", kc[p].old, kc[p].i)
  BY <1>2, <1>3, StepIs, AtFacts
<1>5. KcFits(kc'[p])
  BY <1>3, <1>4, KeychainAssumption DEF KcFits, Moved
<1>6. KeychainInv'
  <2>1. NoEntry \in [whole : Bundles(s) \cup {None}, chunks : 0 .. MaxChunks]
    BY SlotFacts DEF NoEntry
  <2> QED  BY <1>1, <1>3, <1>4, <1>5, <2>1, EntryFits DEF Moved
<1>7. ASSUME Progress(kc[p])
      PROVE  Progress(kc[p])'
  <2>1. \A j \in Indexes : chunk[s][j] = NoPiece /\ PartOf(None, j) = NoPiece
    BY <1>1, <1>7, SlotFacts DEF Progress, PartOf, PartsIn
  <2>2. primary'[s] = EntryOf(None)
    BY <1>1, <1>3 DEF KeychainInv, EntryOf, PartsIn, NoEntry, Whole
  <2> QED  BY <1>1, <1>3, <1>4, <2>1, <2>2 DEF Progress, Moved, Holding
<1>8. \A t \in Slots : t # s => primary'[t] = primary[t] /\ chunk'[t] = chunk[t]
  BY <1>1 DEF KeychainInv
<1> QED  BY <1>1, <1>4, <1>6, <1>7, <1>8 DEF Effect, OpsAt, Moved

LEMMA StepEffect ==
    ASSUME KeychainInv, NEW p \in Procs, KeychainStep(p)
    PROVE  Effect(p)
  BY ReadPrimaryEffect, ReadChunkEffect, MeasureOldEffect, PutWholeEffect, PutChunkEffect,
     PutManifestEffect, DropChunkEffect, MeasureDeletedEffect, UnsetEffect DEF KeychainStep

(* A refused set ends the call, with what was set before left in place; a   *)
(* refused delete leaves the entry.                                        *)
LEMMA SetRefusedEffect ==
    ASSUME KeychainInv, NEW p \in Procs, SetRefused(p)
    PROVE  /\ KcFits(kc'[p]) /\ Moved(p, "ended", kc[p].old, kc[p].i)
           /\ kc[p].op \in {"put", "manifest"}
<1> DEFINE s == kc[p].slot
<1>1. kc[p].op \in {"put", "manifest"}
  BY DEF SetRefused, Doing
<1>2. kc' = [kc EXCEPT ![p].op = "ended"]
  BY DEF SetRefused, Becomes
<1>3. /\ kc[p].parts = <<>> /\ kc[p].secret \in Bundles(s) /\ s \in Slots
      /\ "ended" \in KcOps
      /\ kc[p].parts \in Seq(PieceOf(s)) /\ kc[p].old \in 0 .. MaxChunks
      /\ kc[p].i \in 1 .. MaxChunks + 1
  BY <1>1, KcFacts DEF KcFits, KcOps
<1>4. Moved(p, "ended", kc[p].old, kc[p].i)
  BY <1>2, <1>3, StepIs, AtFacts
<1>5. kc[p].secret # Torn
  BY <1>3, SlotFacts, SizeFacts
<1>6. KcFits(kc'[p])
  BY <1>3, <1>4, <1>5 DEF KcFits, Moved
<1> QED  BY <1>1, <1>4, <1>6

LEMMA UnsetRefusedEffect ==
    ASSUME KeychainInv, NEW p \in Procs, Doing(p, "unset"), Becomes(p, "ended")
    PROVE  /\ KcFits(kc'[p]) /\ Moved(p, "ended", kc[p].old, kc[p].i)
           /\ kc[p].op = "unset"
<1> DEFINE s == kc[p].slot
<1>1. kc[p].op = "unset"
  BY DEF Doing
<1>2. kc' = [kc EXCEPT ![p].op = "ended"]
  BY DEF Becomes
<1>3. /\ kc[p].parts = <<>> /\ kc[p].secret = None /\ s \in Slots /\ "ended" \in KcOps
      /\ kc[p].parts \in Seq(PieceOf(s)) /\ kc[p].old \in 0 .. MaxChunks
      /\ kc[p].i \in 1 .. MaxChunks + 1
  BY <1>1, KcFacts DEF KcFits, KcOps
<1>4. Moved(p, "ended", kc[p].old, kc[p].i)
  BY <1>2, <1>3, StepIs, AtFacts
<1>5. KcFits(kc'[p])
  BY <1>3, <1>4, KeychainAssumption DEF KcFits, Moved
<1> QED  BY <1>1, <1>4, <1>5

LEMMA RefusedEffect ==
    ASSUME KeychainInv, NEW p \in Procs, SetRefused(p) \/ DeleteRefused(p)
    PROVE  /\ KeychainInv' /\ UNCHANGED <<primary, chunk>>
           /\ kc[p].op \in {"put", "manifest", "drop", "clear", "unset"}
           /\ \A where \in {"store", "logout"} :
                 kc[p].op \in OpsAt(where) => kc'[p].op \in OpsAt(where)
           /\ kc'[p].slot = kc[p].slot
           /\ \A q \in Procs \ {p} : kc'[q] = kc[q]
<1>1. UNCHANGED <<primary, chunk>>
  BY DEF SetRefused, DeleteRefused
<1>2. SetRefused(p) \/ AfterChunk(p) \/ (Doing(p, "unset") /\ Becomes(p, "ended"))
  BY DEF DeleteRefused
<1>3. PICK op, i : Moved(p, op, kc[p].old, i)
  BY <1>2, SetRefusedEffect, AfterChunkFacts, UnsetRefusedEffect
<1>4. KcFits(kc'[p])
  BY <1>2, SetRefusedEffect, AfterChunkFacts, UnsetRefusedEffect
<1>5. KeychainInv'
  BY <1>1, <1>3, <1>4, ReplaceFits DEF Moved
<1>6. CASE SetRefused(p) \/ (Doing(p, "unset") /\ Becomes(p, "ended"))
  <2>1. /\ kc'[p].op = "ended" /\ kc[p].op \in {"put", "manifest", "unset"}
    BY <1>6, SetRefusedEffect, UnsetRefusedEffect DEF Moved
  <2> QED  BY <1>1, <1>3, <1>5, <2>1 DEF Moved, OpsAt
<1>7. CASE AfterChunk(p)
  <2>1. /\ kc[p].op \in {"drop", "clear"}
        /\ kc'[p].op \in {kc[p].op, IF kc[p].op = "drop" THEN "ended" ELSE "unset"}
    BY <1>7, AfterChunkFacts DEF Moved
  <2> QED  BY <1>1, <1>3, <1>5, <2>1 DEF Moved, OpsAt
<1> QED  BY <1>2, <1>6, <1>7

-----------------------------------------------------------------------------
(* A slot, seen from the token calls of several processes.                 *)

(* The rest of the types.                                                  *)
HeldTypeOK ==
    /\ \A p \in Procs : kind[p] \in Kinds(p) \cup {"read"}
    /\ token \in [Procs -> 0 .. MaxTokens \cup {None, Torn}]
    /\ spare \in [Procs -> 0 .. MaxTokens]

IssuerTypeOK ==
    /\ profile \in Profiles
    /\ issued \in 1 .. MaxTokens
    /\ live \subseteq 1 .. issued
    /\ expired \in 0 .. issued /\ lapsed \in 0 .. expired

BoundTypeOK ==
    /\ calls \in [Procs -> 0 .. MaxCalls] /\ faults \in 0 .. MaxFaults
    /\ calm \in [Slots -> BOOLEAN]

TokenInv ==
    /\ KeychainInv /\ HeldTypeOK /\ IssuerTypeOK /\ BoundTypeOK
    /\ \A p \in Procs : PlaceInv(p)
    /\ \A s \in Slots : CalmInv(s)

LEMMA TypesTogether ==
    ASSUME CallTypeOK, TokenInv
    PROVE  ApiTypeOK
<1>1. KeychainTypeOK
  <2> SUFFICES ASSUME NEW p \in Procs
               PROVE  /\ kc[p].op \in KcOps /\ kc[p].slot \in Slots
                      /\ kc[p].secret \in Secrets \cup {None, Torn}
                      /\ kc[p].old \in 0 .. MaxChunks
                      /\ kc[p].i \in 1 .. MaxChunks + 1
                      /\ Len(kc[p].parts) <= MaxChunks
    BY DEF TokenInv, KeychainInv, KeychainTypeOK, KcOps
  <2>1. Len(kc[p].parts) <= MaxChunks
    <3>1. /\ kc[p].op = "gather" => kc[p].i <= kc[p].old /\ Len(kc[p].parts) = kc[p].i - 1
          /\ kc[p].op \notin {"gather", "got"} => kc[p].parts = <<>>
          /\ kc[p].op = "got" => Len(kc[p].parts) <= MaxChunks
      BY KcFacts DEF TokenInv, KcFits
    <3>2. kc[p].old \in 0 .. MaxChunks /\ kc[p].i \in 1 .. MaxChunks + 1
      BY KcFacts DEF TokenInv
    <3> QED  BY <3>1, <3>2, SlotFacts
  <2> QED  BY <2>1, KcFacts DEF TokenInv
<1>2. pc \in [Procs -> Resting \cup {"cache", "refresh", "mint", "store", "send",
                                      "sleep", "logout"}]
  BY DEF CallTypeOK, UnderWay
<1> QED  BY <1>1, <1>2 DEF CallTypeOK, TokenInv, HeldTypeOK, IssuerTypeOK, BoundTypeOK,
            ApiTypeOK

-----------------------------------------------------------------------------
(* A step of one process, seen from the others.                            *)
Others(p) ==
    \A q \in Procs \ {p} : pc'[q] = pc[q] /\ kind'[q] = kind[q] /\ kc'[q] = kc[q]

(* ... and from a slot, but for what that process does to it.              *)
Frame(p, s) ==
    /\ Others(p)
    /\ primary'[s] = primary[s] /\ chunk'[s] = chunk[s]
    /\ calm'[s] => calm[s]

LEMMA SlotIs == \A p \in Procs : Slot(p) \in {"cm", "api"} /\ Slot(p) \in Slots
  BY SlotFacts DEF Slot, SlotOf

LEMMA PlacesKept ==
    ASSUME TokenInv, NEW p \in Procs, Others(p), PlaceInv(p)'
    PROVE  \A q \in Procs : PlaceInv(q)'
  BY DEF TokenInv, PlaceInv, Others, Slot

(* What a change writes is a bundle of its slot.                           *)
LEMMA ChangeFacts ==
    ASSUME TokenInv, NEW p \in Procs, NEW s \in Slots, Changing(p, s)
    PROVE  /\ Replacing(p, s) /\ kc[p].slot = s
           /\ kc[p].secret \in Bundles(s) \cup {None}
           /\ kc[p].op \notin OpsAt("cache")
<1>1. /\ kc[p].slot = s /\ PlaceInv(p) /\ Replacing(p, s)
      /\ pc[p] \in {"store", "logout"}
  BY DEF TokenInv, PlaceInv, Changing, Replacing
<1>2. kc[p].op \in {"write", "put", "manifest", "drop", "ended", "delete", "clear", "unset"}
  BY <1>1 DEF PlaceInv, OpsAt
<1>3. KcFits(kc[p])
  BY KcFacts DEF TokenInv
<1> QED  BY <1>1, <1>2, <1>3 DEF KcFits, OpsAt

(* Without a refresh token, what the identity provider accepts does not    *)
(* matter.                                                                 *)
LEMMA AcceptedKept ==
    ASSUME NEW s \in Slots, NEW v \in Bundles(s) \cup {None}, Accepted(v),
           s = "cm" => live' = live
    PROVE  Accepted(v)'
  BY DEF Accepted, Bundles

LEMMA HoldingKept ==
    ASSUME NEW s \in Slots, primary'[s] = primary[s], chunk'[s] = chunk[s], NEW v
    PROVE  Holding(s, v)' <=> Holding(s, v)
  BY DEF Holding

LEMMA ProgressKept ==
    ASSUME NEW q \in Procs, NEW s \in Slots, kc[q].slot = s, kc'[q] = kc[q],
           primary'[s] = primary[s], chunk'[s] = chunk[s], Progress(kc[q])
    PROVE  Progress(kc[q])'
  BY DEF Progress, HoldsOne, Holding

LEMMA Undisturbed ==
    ASSUME NEW s \in Slots, ~calm'[s]
    PROVE  CalmInv(s)'
  BY DEF CalmInv

(* The process does not change the slot, and where it decides to, no other *)
(* is about to.                                                            *)
LEMMA AsideKeeps ==
    ASSUME TokenInv, NEW p \in Procs, NEW s \in Slots, Frame(p, s),
           s = "cm" => live' = live,
           ~Changing(p, s), ~Changing(p, s)',
           Replacing(p, s)' => \/ Replacing(p, s)
                               \/ calm'[s] => \A q \in Procs \ {p} : ~Replacing(q, s)
    PROVE  CalmInv(s)'
<1> SUFFICES ASSUME calm'[s]
             PROVE  CalmInv(s)'
  BY Undisturbed
<1>1. /\ \A q, r \in Procs : Replacing(q, s) /\ Replacing(r, s) => q = r
      /\ \A q \in Procs : Changing(q, s) => Progress(kc[q]) /\ Accepted(kc[q].secret)
      /\ (\A q \in Procs : ~Changing(q, s)) =>
            \E v \in Bundles(s) \cup {None} : Holding(s, v) /\ Accepted(v)
  BY DEF Frame, TokenInv, CalmInv
<1>2. \A q \in Procs \ {p} : /\ Replacing(q, s)' <=> Replacing(q, s)
                             /\ Changing(q, s)' <=> Changing(q, s)
  BY DEF Frame, Others, Replacing, Changing, Slot
<1>3. \A q, r \in Procs : Replacing(q, s)' /\ Replacing(r, s)' => q = r
  BY <1>1, <1>2
<1>4. ASSUME NEW q \in Procs, Changing(q, s)'
      PROVE  Progress(kc[q])' /\ Accepted(kc[q].secret)'
  <2>1. q # p
    BY <1>4
  <2>2. Changing(q, s) /\ kc'[q] = kc[q]
    BY <1>2, <1>4, <2>1 DEF Frame, Others
  <2>3. Accepted(kc[q].secret)'
    <3> PICK v : v = kc[q].secret
      OBVIOUS
    <3>1. v \in Bundles(s) \cup {None} /\ Accepted(v)
      BY <1>1, <2>2, ChangeFacts
    <3>2. Accepted(v)'
      BY <3>1, AcceptedKept
    <3> QED  BY <2>2, <3>2 DEF Accepted
  <2> QED  BY <1>1, <2>2, <2>3, ChangeFacts, ProgressKept DEF Frame
<1>5. ASSUME \A q \in Procs : ~Changing(q, s)'
      PROVE  \E v \in Bundles(s) \cup {None} : Holding(s, v)' /\ Accepted(v)'
  <2>1. \A q \in Procs : ~Changing(q, s)
    BY <1>2, <1>5
  <2> QED  BY <1>1, <2>1, AcceptedKept, HoldingKept DEF Frame
<1> QED  BY <1>3, <1>4, <1>5 DEF CalmInv

(* It starts to change the slot.                                           *)
LEMMA EnterKeeps ==
    ASSUME TokenInv, NEW p \in Procs, NEW s \in Slots, Frame(p, s),
           ~Changing(p, s), calm'[s] => \A q \in Procs \ {p} : ~Replacing(q, s),
           Changing(p, s)', kc'[p].op \in {"write", "delete"}, kc'[p].slot = s,
           Accepted(kc[p].secret)'
    PROVE  CalmInv(s)'
<1> SUFFICES ASSUME calm'[s]
             PROVE  CalmInv(s)'
  BY Undisturbed
<1>1. \A q \in Procs \ {p} : ~Replacing(q, s)' /\ ~Changing(q, s)'
  BY DEF Frame, Others, Replacing, Changing, Slot
<1>2. \A q \in Procs : ~Changing(q, s)
  BY DEF Replacing, Changing
<1>3. \E v \in Bundles(s) \cup {None} : Holding(s, v)
  BY <1>2 DEF Frame, TokenInv, CalmInv
<1>4. HoldsOne(s)'
  BY <1>3, HoldingKept DEF Frame, HoldsOne
<1>5. Progress(kc[p])'
  BY <1>4 DEF Progress
<1> QED  BY <1>1, <1>5 DEF CalmInv

(* It has changed the slot.                                                *)
LEMMA LeaveKeeps ==
    ASSUME TokenInv, NEW p \in Procs, NEW s \in Slots, Frame(p, s), UNCHANGED live,
           Changing(p, s), kc[p].op = "ended", ~Replacing(p, s)'
    PROVE  CalmInv(s)'
<1> SUFFICES ASSUME calm'[s]
             PROVE  CalmInv(s)'
  BY Undisturbed
<1>1. /\ \A q, r \in Procs : Replacing(q, s) /\ Replacing(r, s) => q = r
      /\ Progress(kc[p]) /\ Accepted(kc[p].secret)
  BY DEF Frame, TokenInv, CalmInv
<1>2. \A q \in Procs : ~Replacing(q, s)' /\ ~Changing(q, s)'
  BY <1>1, ChangeFacts DEF Frame, Others, Replacing, Changing, Slot
<1>3. PICK v : v = kc[p].secret
  OBVIOUS
<1>4. v \in Bundles(s) \cup {None} /\ Holding(s, v) /\ Accepted(v)
  BY <1>1, <1>3, ChangeFacts DEF Progress
<1>5. Holding(s, v)' /\ Accepted(v)'
  BY <1>4, HoldingKept DEF Frame, Accepted
<1> QED  BY <1>2, <1>4, <1>5 DEF CalmInv

(* It goes on changing it.                                                 *)
LEMMA RunsKeeps ==
    ASSUME TokenInv, NEW p \in Procs, NEW s \in Slots, Effect(p),
           kc[p].op # "idle", UNCHANGED <<pc, kind, live, calm>>
    PROVE  CalmInv(s)'
<1>1. Others(p)
  BY DEF Effect, Others
<1>2. CASE ~Changing(p, s)
  <2>1. kc[p].slot # s \/ kc[p].op \in OpsAt("cache") \/ kc[p].op = "idle"
    BY <1>2 DEF TokenInv, PlaceInv, Changing, OpsAt
  <2>2. primary'[s] = primary[s] /\ chunk'[s] = chunk[s]
    BY <2>1 DEF Effect
  <2>3. Frame(p, s)
    BY <1>1, <2>2 DEF Frame
  <2>4. ~Changing(p, s)' /\ (Replacing(p, s)' => Replacing(p, s))
    BY <1>2 DEF Changing, Replacing, Slot
  <2> QED  BY <1>2, <2>3, <2>4, AsideKeeps
<1>3. CASE Changing(p, s)
  <2> SUFFICES ASSUME calm'[s]
               PROVE  CalmInv(s)'
    BY Undisturbed
  <2>1. /\ \A q, r \in Procs : Replacing(q, s) /\ Replacing(r, s) => q = r
        /\ Progress(kc[p]) /\ Accepted(kc[p].secret)
    BY <1>3 DEF TokenInv, CalmInv
  <2>2. \A q \in Procs : /\ Replacing(q, s)' <=> Replacing(q, s)
                         /\ Changing(q, s)' <=> Changing(q, s)
    BY DEF Replacing, Changing, Slot
  <2>3. \A q \in Procs : Changing(q, s) => q = p
    BY <1>3, <2>1, ChangeFacts
  <2>4. Progress(kc[p])' /\ Accepted(kc[p].secret)'
    BY <1>3, <2>1, ChangeFacts DEF Effect, Accepted
  <2> QED  BY <1>3, <2>1, <2>2, <2>3, <2>4 DEF CalmInv
<1> QED  BY <1>2, <1>3

-----------------------------------------------------------------------------
(* The steps of a token call: the cached bundle is read and used, ...      *)

(* A call of a process moves on and makes another keychain call, or none.  *)
LEMMA CallsKeychain ==
    ASSUME KeychainInv, NEW p \in Procs, NEW op \in {"read", "write", "delete"},
           NEW s \in Slots, NEW v \in Bundles(s) \cup {None},
           op = "write" => v \in Bundles(s), op = "delete" => v = None,
           kc' = [kc EXCEPT ![p] = Call(op, s, v)], UNCHANGED <<primary, chunk>>
    PROVE  /\ KeychainInv' /\ kc'[p].op = op /\ kc'[p].slot = s /\ kc'[p].secret = v
           /\ \A q \in Procs \ {p} : kc'[q] = kc[q]
<1>1. Call(op, s, v) \in KcRecord /\ KcFits(Call(op, s, v))
  BY CallFits
<1>2. KeychainInv'
  BY <1>1, ReplaceFits
<1>3. kc'[p] = Call(op, s, v) /\ \A q \in Procs \ {p} : kc'[q] = kc[q]
  BY DEF KeychainInv
<1> QED  BY <1>2, <1>3 DEF Call

LEMMA IdlesKeychain ==
    ASSUME KeychainInv, NEW p \in Procs, NEW s \in Slots,
           kc' = [kc EXCEPT ![p] = Idle(s)], UNCHANGED <<primary, chunk>>
    PROVE  /\ KeychainInv' /\ kc'[p].op = "idle" /\ kc'[p].slot = s
           /\ \A q \in Procs \ {p} : kc'[q] = kc[q]
<1>1. Idle(s) \in KcRecord /\ KcFits(Idle(s)) /\ Idle(s).op = "idle"
  BY IdleFits
<1>2. KeychainInv'
  BY <1>1, ReplaceFits
<1>3. kc'[p] = Idle(s) /\ \A q \in Procs \ {p} : kc'[q] = kc[q]
  BY DEF KeychainInv
<1> QED  BY <1>1, <1>2, <1>3 DEF Idle, Call

LEMMA Goings ==
    ASSUME CallTypeOK, NEW p \in Procs, NEW where, Goes(p, where)
    PROVE  pc'[p] = where /\ \A q \in Procs \ {p} : pc'[q] = pc[q]
  BY DEF CallTypeOK, Goes

LEMMA Disturbed ==
    ASSUME BoundTypeOK, NEW s \in Slots, NEW d \in BOOLEAN, Disturb(s, d)
    PROVE  /\ calm' \in [Slots -> BOOLEAN]
           /\ calm'[s] => calm[s] /\ ~d
           /\ \A t \in Slots : t # s => calm'[t] = calm[t]
  BY DEF BoundTypeOK, Disturb

LEMMA Held ==
    ASSUME HeldTypeOK, NEW p \in Procs, NEW a \in 0 .. MaxTokens \cup {None, Torn},
           NEW r \in 0 .. MaxTokens, Holds(p, a, r)
    PROVE  /\ token' \in [Procs -> 0 .. MaxTokens \cup {None, Torn}]
           /\ spare' \in [Procs -> 0 .. MaxTokens]
  BY DEF HeldTypeOK, Holds

LEMMA StartKeepsSlots ==
    ASSUME CallTypeOK, TokenInv, NEW p \in Procs, Start(p)
    PROVE  TokenInv'
<1>1. PICK k \in Kinds(p) :
        /\ kind' = [kind EXCEPT ![p] = k]
        /\ kc' = [kc EXCEPT ![p] = Call("read", SlotOf(k), None)]
        /\ Disturb(SlotOf(k), \E q \in Procs \ {p} : Replacing(q, SlotOf(k)))
  BY DEF Start
<1> DEFINE s == SlotOf(k)
<1>2. /\ pc[p] \in Resting /\ calls[p] < MaxCalls /\ Goes(p, "cache")
      /\ calls' = [calls EXCEPT ![p] = @ + 1]
      /\ UNCHANGED <<primary, chunk, token, spare, profile, issued, live, expired, lapsed,
                     faults>>
  BY DEF Start, heldVars, issuerVars
<1>3. s \in Slots
  BY SlotFacts DEF SlotOf
<1>4. /\ KeychainInv' /\ kc'[p].op = "read" /\ kc'[p].slot = s
      /\ \A q \in Procs \ {p} : kc'[q] = kc[q]
  BY <1>1, <1>2, <1>3, CallsKeychain DEF TokenInv
<1>5. pc'[p] = "cache" /\ \A q \in Procs \ {p} : pc'[q] = pc[q]
  BY <1>2, Goings
<1>6. kind'[p] = k /\ \A q \in Procs \ {p} : kind'[q] = kind[q]
  BY <1>1 DEF CallTypeOK
<1>7. HeldTypeOK'
  BY <1>2, <1>6 DEF TokenInv, HeldTypeOK
<1>8. /\ calm' \in [Slots -> BOOLEAN] /\ \A t \in Slots : calm'[t] => calm[t]
  <2>1. \A t \in Slots : calm'[t] = calm[t] \/ (t = s /\ (calm'[t] => calm[t]))
    BY <1>1, <1>3, Disturbed DEF TokenInv
  <2> QED  BY <2>1, <1>1, <1>3, Disturbed DEF TokenInv
<1>9. BoundTypeOK'
  BY <1>2, <1>8, ApiCallAssumption DEF TokenInv, BoundTypeOK
<1>10. \A q \in Procs : PlaceInv(q)'
  <2>1. PlaceInv(p)'
    BY <1>4, <1>5, <1>6 DEF PlaceInv, OpsAt, Slot
  <2> QED  BY <1>4, <1>5, <1>6, <2>1, PlacesKept DEF Others
<1>11. \A t \in Slots : CalmInv(t)'
  <2> SUFFICES ASSUME NEW t \in Slots
               PROVE  CalmInv(t)'
    OBVIOUS
  <2>1. Frame(p, t)
    BY <1>2, <1>4, <1>5, <1>6, <1>8 DEF Frame, Others
  <2>2. ~Changing(p, t) /\ ~Changing(p, t)' /\ ~Replacing(p, t)'
    BY <1>2, <1>5 DEF Changing, Replacing, Resting
  <2> QED  BY <1>2, <2>1, <2>2, AsideKeeps
<1> QED  BY <1>2, <1>4, <1>7, <1>9, <1>10, <1>11 DEF TokenInv, IssuerTypeOK

LEMMA ParsedType ==
    ASSUME NEW s \in Slots, NEW read, read.secret \in Bundles(s) \cup {None, Torn},
           IssuerTypeOK, NEW b \in Parsed(s, read)
    PROVE  /\ b.access \in 0 .. MaxTokens \cup {None, Torn}
           /\ b.refresh \in 0 .. MaxTokens
           /\ b.refresh # 0 => s = "cm"
<1> DEFINE v == read.secret
<1>1. MaxTokens \in Nat /\ issued \in Nat /\ issued <= MaxTokens
  BY ApiCallAssumption DEF IssuerTypeOK
<1>2. CASE v \in Bundles(s)
  <2>1. b = Aged(v.access, v.refresh, v.access)
    BY <1>2, SlotFacts, SizeFacts DEF Parsed
  <2>2. v \in [access : 1 .. MaxTokens, refresh : 0 .. MaxTokens]
    BY <1>2, SlotFacts, ApiCallAssumption
  <2> QED  BY <1>1, <1>2, <2>1, <2>2 DEF Bundles, Aged
<1>3. CASE v \in {None, Torn}
  <2>1. \/ b = NoBundle
        \/ \E r \in IF s = "cm" THEN 0 .. issued ELSE {0} : \E n : b = Aged(Torn, r, n)
    BY <1>3 DEF Parsed
  <2> QED  BY <1>1, <2>1 DEF NoBundle, Aged
<1> QED  BY <1>2, <1>3

LEMMA UseCachedKeepsSlots ==
    ASSUME CallTypeOK, TokenInv, NEW p \in Procs, UseCached(p)
    PROVE  TokenInv'
<1> DEFINE s == Slot(p)
<1>1. PICK b \in Parsed(s, kc[p]) :
        \/ Goes(p, "send") /\ Holds(p, b.access, 0) /\ UNCHANGED calm
        \/ /\ Goes(p, IF b.refresh # 0 THEN "refresh" ELSE "mint")
           /\ Holds(p, None, b.refresh)
           /\ Disturb(s, Meets(p))
  BY DEF UseCached
<1>2. /\ pc[p] = "cache" /\ kc[p].op = "got" /\ kc' = [kc EXCEPT ![p] = Idle(s)]
      /\ UNCHANGED <<primary, chunk, kind, profile, issued, live, expired, lapsed,
                     calls, faults>>
  BY DEF UseCached, Doing, issuerVars, boundVars
<1>3. s \in Slots /\ s \in {"cm", "api"}
  BY SlotIs
<1>4. /\ KeychainInv' /\ kc'[p].op = "idle" /\ kc'[p].slot = s
      /\ \A q \in Procs \ {p} : kc'[q] = kc[q]
  BY <1>2, <1>3, IdlesKeychain DEF TokenInv
<1>5. kc[p].slot = s /\ kc[p].secret \in Bundles(s) \cup {None, Torn}
  BY KcFacts DEF TokenInv, PlaceInv, KcFits
<1>6. /\ b.access \in 0 .. MaxTokens \cup {None, Torn} /\ b.refresh \in 0 .. MaxTokens
      /\ b.refresh # 0 => s = "cm"
  BY <1>3, <1>5, ParsedType DEF TokenInv
<1>7. /\ pc'[p] \in {"send", "refresh", "mint"} /\ (pc'[p] = "refresh" => s = "cm")
      /\ \A q \in Procs \ {p} : pc'[q] = pc[q]
  <2>1. \E where \in {"send", "refresh", "mint"} :
           Goes(p, where) /\ (where = "refresh" => s = "cm")
    BY <1>1, <1>6
  <2> QED  BY <2>1, Goings
<1>8. HeldTypeOK'
  <2>1. 0 \in 0 .. MaxTokens
    BY ApiCallAssumption
  <2>2. /\ token' \in [Procs -> 0 .. MaxTokens \cup {None, Torn}]
        /\ spare' \in [Procs -> 0 .. MaxTokens]
    BY <1>1, <1>6, <2>1, Held DEF TokenInv
  <2> QED  BY <1>2, <2>2 DEF TokenInv, HeldTypeOK
<1>9. /\ calm' \in [Slots -> BOOLEAN] /\ \A t \in Slots : calm'[t] => calm[t]
      /\ pc'[p] = "send" \/ (calm'[s] => ~Meets(p))
  <2>1. CASE UNCHANGED calm /\ Goes(p, "send")
    BY <2>1, Goings DEF TokenInv, BoundTypeOK
  <2>2. CASE Disturb(s, Meets(p))
    <3>1. Meets(p) \in BOOLEAN
      BY DEF Meets
    <3>2. /\ calm' \in [Slots -> BOOLEAN] /\ (calm'[s] => calm[s] /\ ~Meets(p))
          /\ \A t \in Slots : t # s => calm'[t] = calm[t]
      BY <1>3, <2>2, <3>1, Disturbed DEF TokenInv
    <3> QED  BY <3>2
  <2> QED  BY <1>1, <2>1, <2>2
<1>10. BoundTypeOK'
  BY <1>2, <1>9 DEF TokenInv, BoundTypeOK
<1>11. \A q \in Procs : PlaceInv(q)'
  <2>1. PlaceInv(p)'
    BY <1>2, <1>4, <1>7 DEF PlaceInv, OpsAt, Slot
  <2> QED  BY <1>2, <1>4, <1>7, <2>1, PlacesKept DEF Others
<1>12. \A t \in Slots : CalmInv(t)'
  <2> SUFFICES ASSUME NEW t \in Slots
               PROVE  CalmInv(t)'
    OBVIOUS
  <2>1. Frame(p, t)
    BY <1>2, <1>4, <1>7, <1>9 DEF Frame, Others
  <2>2. ~Changing(p, t) /\ ~Changing(p, t)'
    BY <1>2, <1>7 DEF Changing
  <2>3. ASSUME Replacing(p, t)', calm'[t]
        PROVE  \A q \in Procs \ {p} : ~Replacing(q, t)
    <3>1. t = s /\ pc'[p] # "send"
      BY <1>2, <2>3 DEF Replacing, Slot
    <3>2. ~Meets(p)
      BY <1>9, <2>3, <3>1
    <3> QED  BY <3>1, <3>2 DEF Meets, Replacing
  <2> QED  BY <1>2, <2>1, <2>2, <2>3, AsideKeeps
<1> QED  BY <1>2, <1>4, <1>8, <1>10, <1>11, <1>12 DEF TokenInv, IssuerTypeOK

-----------------------------------------------------------------------------
(* ... a token is obtained, stored and sent, or the slot is deleted.       *)

(* A step that touches neither the keychain nor the identity provider.     *)
LEMMA ElsewhereKeepsSlots ==
    ASSUME CallTypeOK, TokenInv, NEW p \in Procs,
           pc[p] \in {"refresh", "mint", "send", "sleep"},
           NEW where \in Resting \cup {"send", "sleep"}, Goes(p, where),
           \/ UNCHANGED heldVars
           \/ \E a \in {0, None} : Holds(p, a, 0),
           UNCHANGED <<keychainVars, kind, profile, issuerVars, boundVars, calm>>
    PROVE  TokenInv'
<1>1. UNCHANGED <<primary, chunk, kc, kind, profile, issued, live, expired, lapsed, calls,
                  faults, calm>>
  BY DEF keychainVars, issuerVars, boundVars
<1>2. pc'[p] = where /\ \A q \in Procs \ {p} : pc'[q] = pc[q]
  BY Goings
<1>3. HeldTypeOK'
  <2>1. CASE UNCHANGED heldVars
    BY <1>1, <2>1 DEF TokenInv, HeldTypeOK, heldVars
  <2>2. CASE \E a \in {0, None} : Holds(p, a, 0)
    <3>1. 0 \in 0 .. MaxTokens
      BY ApiCallAssumption
    <3>2. /\ token' \in [Procs -> 0 .. MaxTokens \cup {None, Torn}]
          /\ spare' \in [Procs -> 0 .. MaxTokens]
      BY <2>2, <3>1, Held DEF TokenInv
    <3> QED  BY <1>1, <3>2 DEF TokenInv, HeldTypeOK
  <2> QED  BY <2>1, <2>2
<1>4. KeychainInv' /\ IssuerTypeOK' /\ BoundTypeOK'
  BY <1>1 DEF TokenInv, KeychainInv, IssuerTypeOK, BoundTypeOK
<1>5. \A q \in Procs : PlaceInv(q)'
  <2>1. PlaceInv(p)
    BY DEF TokenInv
  <2>2. PlaceInv(p)'
    BY <1>1, <1>2, <2>1 DEF PlaceInv, OpsAt, Slot, Resting
  <2> QED  BY <1>1, <1>2, <2>2, PlacesKept DEF Others
<1>6. \A t \in Slots : CalmInv(t)'
  <2> SUFFICES ASSUME NEW t \in Slots
               PROVE  CalmInv(t)'
    OBVIOUS
  <2>1. Frame(p, t)
    BY <1>1, <1>2 DEF Frame, Others
  <2>2. ~Changing(p, t) /\ ~Changing(p, t)' /\ ~Replacing(p, t)'
    BY <1>2 DEF Changing, Replacing, Resting
  <2> QED  BY <1>1, <2>1, <2>2, AsideKeeps
<1> QED  BY <1>3, <1>4, <1>5, <1>6 DEF TokenInv

LEMMA SendKeepsSlots ==
    ASSUME CallTypeOK, TokenInv, NEW p \in Procs,
           \/ RefreshDenied(p) \/ UseLiteral(p) \/ NoToken(p) \/ Send(p) \/ Wake(p)
    PROVE  TokenInv'
<1>1. CASE RefreshDenied(p)
  BY <1>1, ElsewhereKeepsSlots DEF RefreshDenied, Ends, Resting
<1>2. CASE UseLiteral(p)
  BY <1>2, ElsewhereKeepsSlots DEF UseLiteral
<1>3. CASE NoToken(p)
  BY <1>3, ElsewhereKeepsSlots DEF NoToken, Ends, Resting
<1>4. CASE Send(p)
  <2>1. pc[p] = "send"
        /\ UNCHANGED <<keychainVars, kind, profile, issuerVars, boundVars, calm>>
    BY <1>4 DEF Send
  <2>2. \E where \in {"done", "failed", "sleep"} :
           Goes(p, where) /\ (UNCHANGED heldVars \/ Holds(p, None, 0))
    BY <1>4 DEF Send, Ends, Settle, Retry
  <2> QED  BY <2>1, <2>2, ElsewhereKeepsSlots DEF Resting
<1>5. CASE Wake(p)
  BY <1>5, ElsewhereKeepsSlots DEF Wake
<1> QED  BY <1>1, <1>2, <1>3, <1>4, <1>5

(* Obtaining a token, of which the issuer has given out one more.          *)
LEMMA StoresKeepsSlots ==
    ASSUME CallTypeOK, TokenInv, NEW p \in Procs, pc[p] \in {"refresh", "mint"},
           issued < MaxTokens, issued' = issued + 1, NEW r \in 0 .. MaxTokens,
           r # 0 => Slot(p) = "cm", r \in live' \cup {0},
           live' \subseteq live \cup {issued + 1}, live' # live => Slot(p) = "cm",
           Stores(p, issued + 1, r),
           UNCHANGED <<primary, chunk, kind, profile, expired, lapsed, boundVars, calm>>
    PROVE  TokenInv'
<1> DEFINE s == Slot(p)
           b == Bundle(issued + 1, r)
<1>1. /\ Goes(p, "store") /\ Holds(p, issued + 1, 0)
      /\ kc' = [kc EXCEPT ![p] = Call("write", s, b)]
  BY DEF Stores
<1>2. UNCHANGED <<primary, chunk, kind, profile, expired, lapsed, calls, faults, calm>>
  BY DEF boundVars
<1>3. /\ MaxTokens \in Nat \ {0} /\ issued \in 1 .. MaxTokens /\ issued + 1 \in 1 .. MaxTokens
      /\ 0 \in 0 .. MaxTokens /\ issued + 1 \in 0 .. MaxTokens
  BY ApiCallAssumption DEF TokenInv, IssuerTypeOK
<1>4. b \in Bundles(s) /\ s \in Slots /\ b.refresh = r
  BY <1>3, SlotIs, ApiCallAssumption DEF Bundles, Bundle
<1> HIDE DEF b
<1>5. /\ KeychainInv' /\ kc'[p].op = "write" /\ kc'[p].slot = s /\ kc'[p].secret = b
      /\ \A q \in Procs \ {p} : kc'[q] = kc[q]
  BY <1>1, <1>2, <1>4, CallsKeychain DEF TokenInv
<1>6. pc'[p] = "store" /\ \A q \in Procs \ {p} : pc'[q] = pc[q]
  BY <1>1, Goings
<1>7. HeldTypeOK'
  <2>1. /\ token' \in [Procs -> 0 .. MaxTokens \cup {None, Torn}]
        /\ spare' \in [Procs -> 0 .. MaxTokens]
    BY <1>1, <1>3, Held DEF TokenInv
  <2> QED  BY <1>2, <2>1 DEF TokenInv, HeldTypeOK
<1>8. IssuerTypeOK' /\ BoundTypeOK'
  BY <1>2, <1>3 DEF TokenInv, IssuerTypeOK, BoundTypeOK
<1>9. \A q \in Procs : PlaceInv(q)'
  <2>1. PlaceInv(p)'
    BY <1>2, <1>5, <1>6 DEF PlaceInv, OpsAt, Slot
  <2> QED  BY <1>2, <1>5, <1>6, <2>1, PlacesKept DEF Others
<1>10. \A t \in Slots : CalmInv(t)'
  <2> SUFFICES ASSUME NEW t \in Slots
               PROVE  CalmInv(t)'
    OBVIOUS
  <2>1. Frame(p, t)
    BY <1>2, <1>5, <1>6 DEF Frame, Others
  <2>2. ~Changing(p, t)
    BY DEF Changing
  <2>3. CASE t = s
    <3>1. Replacing(p, t) /\ Changing(p, t)'
      BY <1>2, <1>6, <2>3 DEF Replacing, Changing, Slot
    <3>2. calm'[t] => \A q \in Procs \ {p} : ~Replacing(q, t)
      BY <1>2, <3>1 DEF TokenInv, CalmInv
    <3>3. Accepted(kc[p].secret)'
      BY <1>4, <1>5 DEF Accepted
    <3> QED  BY <1>5, <2>1, <2>2, <2>3, <3>1, <3>2, <3>3, EnterKeeps
  <2>4. CASE t # s
    <3>1. ~Changing(p, t)' /\ ~Replacing(p, t)'
      BY <1>2, <2>4 DEF Replacing, Changing, Slot
    <3> QED  BY <2>1, <2>2, <2>4, <3>1, AsideKeeps
  <2> QED  BY <2>3, <2>4
<1> QED  BY <1>5, <1>7, <1>8, <1>9, <1>10 DEF TokenInv

LEMMA ObtainKeepsSlots ==
    ASSUME CallTypeOK, TokenInv, NEW p \in Procs, Refresh(p) \/ Mint(p)
    PROVE  TokenInv'
<1>1. spare[p] \in 0 .. MaxTokens /\ MaxTokens \in Nat /\ issued \in Nat
  BY ApiCallAssumption DEF TokenInv, HeldTypeOK, IssuerTypeOK
<1>2. CASE Refresh(p)
  <2>1. /\ pc[p] = "refresh" /\ spare[p] \in live /\ issued < MaxTokens
        /\ issued' = issued + 1
        /\ live' = IF Rotates THEN (live \ {spare[p]}) \cup {issued + 1} ELSE live
        /\ Stores(p, issued + 1, NextRefresh(p))
        /\ UNCHANGED <<primary, chunk, kind, profile, expired, lapsed, boundVars, calm>>
    BY <1>2 DEF Refresh
  <2>2. Slot(p) = "cm"
    BY <2>1 DEF TokenInv, PlaceInv
  <2>3. /\ NextRefresh(p) \in 0 .. MaxTokens /\ NextRefresh(p) \in live' \cup {0}
        /\ live' \subseteq live \cup {issued + 1}
    BY <1>1, <2>1 DEF NextRefresh
  <2> QED  BY <2>1, <2>2, <2>3, StoresKeepsSlots
<1>3. CASE Mint(p)
  <2>1. 0 \in 0 .. MaxTokens
    BY <1>1
  <2> QED  BY <1>3, <2>1, StoresKeepsSlots DEF Mint
<1> QED  BY <1>2, <1>3

(* The keychain call of a store or a logout has ended.                     *)
LEMMA EndedKeepsSlots ==
    ASSUME CallTypeOK, TokenInv, NEW p \in Procs, TokenStored(p) \/ LoggedOut(p)
    PROVE  TokenInv'
<1> DEFINE s == Slot(p)
<1>1. PICK where \in {"send", "done"} : Goes(p, where)
  BY DEF TokenStored, LoggedOut
<1>2. /\ pc[p] \in {"store", "logout"} /\ kc[p].op = "ended"
      /\ kc' = [kc EXCEPT ![p] = Idle(s)]
      /\ UNCHANGED <<primary, chunk, kind, token, spare, profile, issued, live, expired,
                     lapsed, calls, faults, calm>>
  BY DEF TokenStored, LoggedOut, Doing, heldVars, issuerVars, boundVars
<1>3. s \in Slots
  BY SlotIs
<1>4. /\ KeychainInv' /\ kc'[p].op = "idle" /\ kc'[p].slot = s
      /\ \A q \in Procs \ {p} : kc'[q] = kc[q]
  BY <1>2, <1>3, IdlesKeychain DEF TokenInv
<1>5. pc'[p] = where /\ \A q \in Procs \ {p} : pc'[q] = pc[q]
  BY <1>1, Goings
<1>6. HeldTypeOK' /\ IssuerTypeOK' /\ BoundTypeOK'
  BY <1>2 DEF TokenInv, HeldTypeOK, IssuerTypeOK, BoundTypeOK
<1>7. \A q \in Procs : PlaceInv(q)'
  <2>1. PlaceInv(p)'
    BY <1>2, <1>4, <1>5 DEF PlaceInv, OpsAt, Slot
  <2> QED  BY <1>2, <1>4, <1>5, <2>1, PlacesKept DEF Others
<1>8. \A t \in Slots : CalmInv(t)'
  <2> SUFFICES ASSUME NEW t \in Slots
               PROVE  CalmInv(t)'
    OBVIOUS
  <2>1. Frame(p, t)
    BY <1>2, <1>4, <1>5 DEF Frame, Others
  <2>2. ~Changing(p, t)' /\ ~Replacing(p, t)'
    BY <1>5 DEF Changing, Replacing
  <2>3. CASE t = s
    BY <1>2, <2>1, <2>2, <2>3, LeaveKeeps DEF Changing
  <2>4. CASE t # s
    BY <1>2, <2>1, <2>2, <2>4, AsideKeeps DEF Changing
  <2> QED  BY <2>3, <2>4
<1> QED  BY <1>4, <1>6, <1>7, <1>8 DEF TokenInv

LEMMA LogoutKeepsSlots ==
    ASSUME CallTypeOK, TokenInv, NEW p \in Procs, Logout(p)
    PROVE  TokenInv'
<1>1. /\ pc[p] \in Resting /\ calls[p] < MaxCalls /\ Slot(p) = "cm" /\ Goes(p, "logout")
      /\ kc' = [kc EXCEPT ![p] = Call("delete", "cm", None)]
      /\ calls' = [calls EXCEPT ![p] = @ + 1] /\ Disturb("cm", Meets(p))
      /\ UNCHANGED <<primary, chunk, kind, token, spare, profile, issued, live, expired,
                     lapsed, faults>>
  BY DEF Logout, heldVars, issuerVars
<1>2. "cm" \in Slots
  BY SlotFacts
<1>3. /\ KeychainInv' /\ kc'[p].op = "delete" /\ kc'[p].slot = "cm" /\ kc'[p].secret = None
      /\ \A q \in Procs \ {p} : kc'[q] = kc[q]
  BY <1>1, <1>2, CallsKeychain DEF TokenInv
<1>4. pc'[p] = "logout" /\ \A q \in Procs \ {p} : pc'[q] = pc[q]
  BY <1>1, Goings
<1>5. /\ calm' \in [Slots -> BOOLEAN] /\ \A t \in Slots : calm'[t] => calm[t]
      /\ calm'["cm"] => ~Meets(p)
  <2>1. Meets(p) \in BOOLEAN
    BY DEF Meets
  <2>2. /\ calm' \in [Slots -> BOOLEAN] /\ (calm'["cm"] => calm["cm"] /\ ~Meets(p))
        /\ \A t \in Slots : t # "cm" => calm'[t] = calm[t]
    BY <1>1, <1>2, <2>1, Disturbed DEF TokenInv
  <2> QED  BY <2>2
<1>6. HeldTypeOK' /\ IssuerTypeOK'
  BY <1>1 DEF TokenInv, HeldTypeOK, IssuerTypeOK
<1>7. BoundTypeOK'
  BY <1>1, <1>5, ApiCallAssumption DEF TokenInv, BoundTypeOK
<1>8. \A q \in Procs : PlaceInv(q)'
  <2>1. PlaceInv(p)'
    BY <1>1, <1>3, <1>4 DEF PlaceInv, OpsAt, Slot
  <2> QED  BY <1>1, <1>3, <1>4, <2>1, PlacesKept DEF Others
<1>9. \A t \in Slots : CalmInv(t)'
  <2> SUFFICES ASSUME NEW t \in Slots
               PROVE  CalmInv(t)'
    OBVIOUS
  <2>1. Frame(p, t)
    BY <1>1, <1>3, <1>4, <1>5 DEF Frame, Others
  <2>2. ~Changing(p, t) /\ ~Replacing(p, t)
    BY <1>1 DEF Changing, Replacing, Resting
  <2>3. CASE t = "cm"
    <3>1. Changing(p, t)'
      BY <1>1, <1>4, <2>3 DEF Changing, Slot
    <3>2. calm'[t] => \A q \in Procs \ {p} : ~Replacing(q, t)
      BY <1>1, <1>5, <2>3 DEF Meets, Replacing
    <3>3. Accepted(kc[p].secret)'
      BY <1>3 DEF Accepted
    <3> QED  BY <1>3, <2>1, <2>2, <2>3, <3>1, <3>2, <3>3, EnterKeeps
  <2>4. CASE t # "cm"
    <3>1. ~Changing(p, t)' /\ ~Replacing(p, t)'
      BY <1>1, <2>4 DEF Changing, Replacing, Slot
    <3> QED  BY <1>1, <2>1, <2>2, <2>4, <3>1, AsideKeeps
  <2> QED  BY <2>3, <2>4
<1> QED  BY <1>3, <1>6, <1>7, <1>8, <1>9 DEF TokenInv

LEMMA RunsKeepsSlots ==
    ASSUME CallTypeOK, TokenInv, NEW p \in Procs, KeychainRuns(p)
    PROVE  TokenInv'
<1>1. /\ KeychainStep(p)
      /\ UNCHANGED <<pc, kind, token, spare, profile, issued, live, expired, lapsed, calls,
                     faults, calm>>
  BY DEF KeychainRuns, heldVars, issuerVars, boundVars
<1>2. Effect(p)
  BY <1>1, StepEffect DEF TokenInv
<1>3. kc[p].op # "idle"
  BY <1>1 DEF KeychainStep, ReadPrimary, ReadChunk, MeasureOld, PutWhole, PutChunk,
              PutManifest, DropChunk, AfterChunk, MeasureDeleted, Unset, Doing
<1>4. HeldTypeOK' /\ IssuerTypeOK' /\ BoundTypeOK'
  BY <1>1 DEF TokenInv, HeldTypeOK, IssuerTypeOK, BoundTypeOK
<1>5. \A q \in Procs : PlaceInv(q)'
  <2>1. pc[p] \in {"cache", "store", "logout"} /\ PlaceInv(p)
    BY <1>3 DEF TokenInv, PlaceInv, OpsAt
  <2>2. PlaceInv(p)'
    BY <1>1, <1>2, <2>1 DEF PlaceInv, Effect, Slot
  <2> QED  BY <1>1, <1>2, <2>2, PlacesKept DEF Others, Effect
<1>6. \A t \in Slots : CalmInv(t)'
  BY <1>1, <1>2, <1>3, RunsKeeps
<1> QED  BY <1>2, <1>4, <1>5, <1>6 DEF TokenInv, Effect

-----------------------------------------------------------------------------
(* What may fail, the start, and the theorems.                             *)

(* A fault disturbs the slot it happens on, and no other.                  *)
LEMMA Faults ==
    ASSUME BoundTypeOK, NEW s \in Slots, Fault(s), UNCHANGED calls
    PROVE  /\ BoundTypeOK' /\ ~calm'[s]
           /\ \A t \in Slots : calm'[t] => calm[t]
<1>1. faults < MaxFaults /\ faults' = faults + 1 /\ Disturb(s, TRUE)
  BY DEF Fault
<1>2. /\ calm' \in [Slots -> BOOLEAN] /\ ~calm'[s]
      /\ \A t \in Slots : calm'[t] => calm[t]
  BY <1>1, Disturbed
<1> QED  BY <1>1, <1>2, ApiCallAssumption DEF BoundTypeOK

LEMMA FaultKeepsSlots ==
    ASSUME CallTypeOK, TokenInv, NEW p \in Procs,
           KeychainInv', HeldTypeOK', IssuerTypeOK', PlaceInv(p)', Others(p),
           UNCHANGED <<primary, chunk, kind, calls>>, Fault(Slot(p)),
           live' # live => Slot(p) = "cm"
    PROVE  TokenInv'
<1>1. Slot(p) \in Slots /\ BoundTypeOK
  BY SlotIs DEF TokenInv
<1>2. BoundTypeOK' /\ ~calm'[Slot(p)] /\ \A t \in Slots : calm'[t] => calm[t]
  BY <1>1, Faults
<1>3. \A q \in Procs : PlaceInv(q)'
  BY PlacesKept
<1>4. \A t \in Slots : CalmInv(t)'
  <2> SUFFICES ASSUME NEW t \in Slots
               PROVE  CalmInv(t)'
    OBVIOUS
  <2>1. CASE t = Slot(p)
    BY <1>2, <2>1, Undisturbed
  <2>2. CASE t # Slot(p)
    <3>1. Frame(p, t)
      BY <1>2 DEF Frame
    <3>2. ~Changing(p, t) /\ ~Changing(p, t)' /\ ~Replacing(p, t)'
      BY <2>2 DEF Changing, Replacing, Slot
    <3> QED  BY <2>2, <3>1, <3>2, AsideKeeps
  <2> QED  BY <2>1, <2>2
<1> QED  BY <1>2, <1>3, <1>4 DEF TokenInv

LEMMA EndHolds ==
    ASSUME CallTypeOK, TokenInv, NEW p \in Procs, NEW how \in Resting, Ends(p, how),
           UNCHANGED kind
    PROVE  /\ HeldTypeOK'
           /\ pc'[p] = how /\ \A q \in Procs \ {p} : pc'[q] = pc[q]
<1>1. 0 \in 0 .. MaxTokens
  BY ApiCallAssumption
<1>2. /\ token' \in [Procs -> 0 .. MaxTokens \cup {None, Torn}]
      /\ spare' \in [Procs -> 0 .. MaxTokens]
  BY <1>1, Held DEF Ends, TokenInv
<1>3. pc'[p] = how /\ \A q \in Procs \ {p} : pc'[q] = pc[q]
  BY Goings DEF Ends
<1> QED  BY <1>2, <1>3 DEF TokenInv, HeldTypeOK

LEMMA FaultyKeepsSlots ==
    ASSUME CallTypeOK, TokenInv, NEW p \in Procs,
           RefreshLost(p) \/ KeychainRefuses(p) \/ Crash(p)
    PROVE  TokenInv'
<1>1. PlaceInv(p) /\ IssuerTypeOK /\ HeldTypeOK /\ KeychainInv
  BY DEF TokenInv
<1>2. CASE RefreshLost(p)
  <2>1. /\ pc[p] = "refresh" /\ live' = IF Rotates THEN live \ {spare[p]} ELSE live
        /\ Fault(Slot(p)) /\ Ends(p, "failed")
        /\ UNCHANGED <<primary, chunk, kc, kind, profile, issued, expired, lapsed, calls>>
    BY <1>2 DEF RefreshLost, keychainVars
  <2>2. /\ HeldTypeOK' /\ pc'[p] = "failed" /\ \A q \in Procs \ {p} : pc'[q] = pc[q]
    BY <2>1, EndHolds DEF Resting
  <2>3. KeychainInv' /\ IssuerTypeOK'
    BY <1>1, <2>1 DEF KeychainInv, IssuerTypeOK
  <2>4. PlaceInv(p)' /\ Others(p) /\ Slot(p) = "cm"
    BY <1>1, <2>1, <2>2 DEF PlaceInv, OpsAt, Others, Slot
  <2> QED  BY <2>1, <2>2, <2>3, <2>4, FaultKeepsSlots
<1>3. CASE KeychainRefuses(p)
  <2>1. /\ SetRefused(p) \/ DeleteRefused(p)
        /\ Fault(Slot(p))
        /\ UNCHANGED <<pc, kind, token, spare, profile, issued, live, expired, lapsed,
                       calls>>
    BY <1>3 DEF KeychainRefuses, heldVars, issuerVars
  <2>2. /\ KeychainInv' /\ UNCHANGED <<primary, chunk>>
        /\ kc[p].op \in {"put", "manifest", "drop", "clear", "unset"}
        /\ \A where \in {"store", "logout"} :
              kc[p].op \in OpsAt(where) => kc'[p].op \in OpsAt(where)
        /\ kc'[p].slot = kc[p].slot
        /\ \A q \in Procs \ {p} : kc'[q] = kc[q]
    BY <1>1, <2>1, RefusedEffect
  <2>3. HeldTypeOK' /\ IssuerTypeOK'
    BY <1>1, <2>1 DEF HeldTypeOK, IssuerTypeOK
  <2>4. PlaceInv(p)' /\ Others(p)
    BY <1>1, <2>1, <2>2 DEF PlaceInv, OpsAt, Others, Slot
  <2> QED  BY <2>1, <2>2, <2>3, <2>4, FaultKeepsSlots
<1>4. CASE Crash(p)
  <2>1. /\ Fault(Slot(p)) /\ Ends(p, "idle")
        /\ kc' = [kc EXCEPT ![p] = Idle(Slot(p))]
        /\ UNCHANGED <<primary, chunk, kind, profile, issued, live, expired, lapsed, calls>>
    BY <1>4 DEF Crash, issuerVars
  <2>2. /\ HeldTypeOK' /\ pc'[p] = "idle" /\ \A q \in Procs \ {p} : pc'[q] = pc[q]
    BY <2>1, EndHolds DEF Resting
  <2>3. /\ KeychainInv' /\ kc'[p].op = "idle" /\ kc'[p].slot = Slot(p)
        /\ \A q \in Procs \ {p} : kc'[q] = kc[q]
    BY <1>1, <2>1, SlotIs, IdlesKeychain
  <2>4. IssuerTypeOK'
    BY <1>1, <2>1 DEF IssuerTypeOK
  <2>5. PlaceInv(p)' /\ Others(p)
    BY <2>1, <2>2, <2>3 DEF PlaceInv, OpsAt, Others, Slot
  <2> QED  BY <2>1, <2>2, <2>3, <2>4, <2>5, FaultKeepsSlots
<1> QED  BY <1>2, <1>3, <1>4

LEMMA StandingKeepsSlots ==
    ASSUME TokenInv, IssuerTypeOK',
           UNCHANGED <<keychainVars, pc, kind, heldVars, live, boundVars, calm>>
    PROVE  TokenInv'
<1>1. UNCHANGED <<primary, chunk, kc, token, spare, calls, faults>>
  BY DEF keychainVars, heldVars, boundVars
<1>2. KeychainInv' /\ HeldTypeOK' /\ BoundTypeOK'
  BY <1>1 DEF TokenInv, KeychainInv, HeldTypeOK, BoundTypeOK
<1>3. \A q \in Procs : PlaceInv(q)'
  BY <1>1 DEF TokenInv, PlaceInv, Slot
<1>4. \A t \in Slots : CalmInv(t)'
  <2> SUFFICES ASSUME NEW t \in Slots
               PROVE  CalmInv(t)'
    OBVIOUS
  <2>1. \A q \in Procs : /\ Replacing(q, t)' <=> Replacing(q, t)
                         /\ Changing(q, t)' <=> Changing(q, t)
                         /\ Progress(kc[q])' <=> Progress(kc[q])
                         /\ Accepted(kc[q].secret)' <=> Accepted(kc[q].secret)
    BY <1>1 DEF Replacing, Changing, Slot, Progress, HoldsOne, Holding, Accepted
  <2>2. \A v : (Holding(t, v)' <=> Holding(t, v)) /\ (Accepted(v)' <=> Accepted(v))
    BY <1>1 DEF Holding, Accepted
  <2> QED  BY <2>1, <2>2 DEF TokenInv, CalmInv
<1> QED  BY <1>2, <1>3, <1>4 DEF TokenInv

LEMMA InitTokens == Init => TokenInv
<1> SUFFICES ASSUME Init
             PROVE  TokenInv
  OBVIOUS
<1>1. /\ primary = [s \in Slots |->
            IF s # "cm" THEN NoEntry
            ELSE IF Size(Login) = 1 THEN Whole(Login) ELSE Manifest(Size(Login))]
      /\ chunk = [s \in Slots |-> [i \in Indexes |->
            IF s = "cm" /\ i <= primary[s].chunks
            THEN [secret |-> Login, index |-> i] ELSE NoPiece]]
      /\ kind = [p \in Procs |-> "read"]
      /\ kc = [p \in Procs |-> Idle(SlotOf(kind[p]))]
      /\ pc = [p \in Procs |-> "idle"]
      /\ token = [p \in Procs |-> None] /\ spare = [p \in Procs |-> 0]
      /\ profile \in Profiles
      /\ issued = 1 /\ live = {1} /\ expired = 0 /\ lapsed = 0
      /\ calls = [p \in Procs |-> 0] /\ faults = 0
      /\ calm = [s \in Slots |-> TRUE]
  BY DEF Init
<1>2. /\ 1 \in 1 .. MaxTokens /\ 1 \in 0 .. MaxTokens /\ 0 \in 0 .. MaxTokens
      /\ 0 \in 0 .. MaxCalls /\ 0 \in 0 .. MaxFaults
  BY ApiCallAssumption
<1>3. /\ Login \in Secrets /\ Login \in Bundles("cm") /\ Login.refresh = 1
      /\ Login # None
  BY <1>2, ApiCallAssumption, KeychainAssumption DEF Login, Bundle, Bundles
<1> DEFINE v(s) == IF s = "cm" THEN Login ELSE None
<1>4. \A s \in Slots : primary[s] = EntryOf(v(s))
  <2>1. EntryOf(None) = NoEntry
    BY DEF EntryOf, PartsIn, Whole, NoEntry
  <2>2. EntryOf(Login) = IF Size(Login) = 1 THEN Whole(Login) ELSE Manifest(Size(Login))
    BY <1>3, WholeFacts
  <2> QED  BY <1>1, <2>1, <2>2
<1>5. ASSUME NEW s \in Slots
      PROVE  /\ v(s) \in Bundles(s) \cup {None} /\ v(s) \in Secrets \cup {None}
             /\ Holding(s, v(s)) /\ Accepted(v(s))
  <2>1. v(s) \in Bundles(s) \cup {None} /\ v(s) \in Secrets \cup {None}
    BY <1>3
  <2>2. primary[s].chunks = PartsIn(v(s)) /\ PartsIn(v(s)) \in Nat
    BY <1>4, <2>1, WholeFacts, SlotFacts
  <2>3. PartsIn(None) = 0
    BY DEF PartsIn
  <2>4. \A i \in Indexes : chunk[s][i] = PartOf(v(s), i)
    <3> SUFFICES ASSUME NEW i \in Indexes
                 PROVE  chunk[s][i] = PartOf(v(s), i)
      OBVIOUS
    <3>1. chunk[s][i] = IF s = "cm" /\ i <= primary[s].chunks
                        THEN [secret |-> Login, index |-> i] ELSE NoPiece
      BY <1>1
    <3>2. i \in Nat /\ i > 0
      BY SlotFacts
    <3> QED  BY <2>2, <2>3, <3>1, <3>2 DEF PartOf
  <2>5. Accepted(v(s))
    BY <1>1, <1>3 DEF Accepted
  <2> QED  BY <1>4, <2>1, <2>4, <2>5 DEF Holding
<1>6. KeychainInv
  <2>1. \A s \in Slots : EntryOf(v(s)) \in [whole : Bundles(s) \cup {None}, chunks : 0 .. MaxChunks]
    <3> SUFFICES ASSUME NEW s \in Slots
                 PROVE  EntryOf(v(s)) \in [whole : Bundles(s) \cup {None},
                                           chunks : 0 .. MaxChunks]
      OBVIOUS
    <3> PICK w : w = v(s)
      OBVIOUS
    <3>1. w \in Bundles(s) \cup {None} /\ PartsIn(w) \in 0 .. MaxChunks
      BY <1>5, WholeFacts
    <3>2. EntryOf(w) \in [whole : Bundles(s) \cup {None}, chunks : 0 .. MaxChunks]
      BY <3>1, SlotFacts DEF EntryOf, Whole, Manifest
    <3> QED  BY <3>2
  <2>2. /\ primary \in [Slots -> [whole : Secrets \cup {None}, chunks : 0 .. MaxChunks]]
        /\ \A s \in Slots : primary[s].whole \in Bundles(s) \cup {None}
    <3>1. \A s \in Slots :
             /\ primary[s] \in [whole : Secrets \cup {None}, chunks : 0 .. MaxChunks]
             /\ primary[s].whole \in Bundles(s) \cup {None}
      BY <1>4, <2>1, SlotFacts
    <3>2. primary = [s \in Slots |-> primary[s]]
      BY <1>1
    <3> QED  BY <3>1, <3>2
  <2>3. ASSUME NEW s \in Slots, NEW i \in Indexes
        PROVE  chunk[s][i] \in PieceOf(s) \cup {NoPiece}
    BY <1>3, <1>1 DEF PieceOf
  <2>4. chunk \in [Slots -> [Indexes -> Piece \cup {NoPiece}]]
    BY <1>1, <1>3 DEF Piece
  <2>5. ASSUME NEW p \in Procs
        PROVE  kc[p] \in KcRecord /\ KcFits(kc[p])
    BY <1>1, SlotFacts, IdleFits DEF SlotOf
  <2>6. kc \in [Procs -> KcRecord]
    BY <1>1, <2>5
  <2> QED  BY <2>2, <2>3, <2>4, <2>5, <2>6 DEF KeychainInv
<1>7. HeldTypeOK /\ IssuerTypeOK /\ BoundTypeOK
  BY <1>1, <1>2 DEF HeldTypeOK, IssuerTypeOK, BoundTypeOK
<1>8. ASSUME NEW p \in Procs
      PROVE  PlaceInv(p)
  BY <1>1 DEF PlaceInv, OpsAt, Slot, Idle, Call
<1>9. ASSUME NEW s \in Slots
      PROVE  CalmInv(s)
  <2>1. \A p \in Procs : ~Replacing(p, s) /\ ~Changing(p, s)
    BY <1>1 DEF Replacing, Changing
  <2> QED  BY <1>5, <2>1 DEF CalmInv
<1> QED  BY <1>6, <1>7, <1>8, <1>9 DEF TokenInv

LEMMA NextTokens == CallTypeOK /\ TokenInv /\ [Next]_vars => TokenInv'
<1> SUFFICES ASSUME CallTypeOK, TokenInv, [Next]_vars
             PROVE  TokenInv'
  OBVIOUS
<1>1. CASE UNCHANGED vars
  <2>1. IssuerTypeOK'
    BY <1>1 DEF vars, issuerVars, TokenInv, IssuerTypeOK
  <2> QED  BY <1>1, <2>1, StandingKeepsSlots DEF vars, issuerVars
<1>2. CASE Expire
  <2>1. IssuerTypeOK'
    BY <1>2 DEF Expire, TokenInv, IssuerTypeOK
  <2> QED  BY <1>2, <2>1, StandingKeepsSlots DEF Expire
<1>3. ASSUME NEW p \in Procs,
             CallStep(p) \/ Start(p) \/ Logout(p) \/ RefreshLost(p)
             \/ KeychainRefuses(p) \/ Crash(p)
      PROVE  TokenInv'
  BY <1>3, RunsKeepsSlots, UseCachedKeepsSlots, ObtainKeepsSlots, SendKeepsSlots,
     EndedKeepsSlots, StartKeepsSlots, LogoutKeepsSlots, FaultyKeepsSlots DEF CallStep
<1> QED  BY <1>1, <1>2, <1>3 DEF Next

(* The inductive invariant of the keychain and of the token calls on it.   *)
THEOREM TokenInvariant == Spec => [](CallTypeOK /\ LandInv /\ TokenInv)
<1>1. Init => CallTypeOK /\ LandInv /\ TokenInv
  BY InitLands, InitTokens
<1>2. CallTypeOK /\ LandInv /\ TokenInv /\ [Next]_vars => (CallTypeOK /\ LandInv /\ TokenInv)'
  BY NextLands, NextTokens
<1> QED  BY <1>1, <1>2, PTL DEF Spec

(* The variables of the token calls keep their types.                      *)
THEOREM ApiCallTypes == Spec => []ApiTypeOK
<1>1. CallTypeOK /\ TokenInv => ApiTypeOK
  BY TypesTogether
<1> QED  BY <1>1, TokenInvariant, PTL

LEMMA StoredIsHeld ==
    ASSUME NEW s \in Slots, NEW v \in Bundles(s) \cup {None}, Holding(s, v)
    PROVE  Stored(s) = v
<1>1. v \in Secrets \cup {None} /\ PartsIn(v) \in 0 .. MaxChunks /\ MaxChunks \in Nat
  BY SlotFacts, WholeFacts
<1>2. primary[s] = EntryOf(v) /\ primary[s].chunks = PartsIn(v)
  BY <1>1, WholeFacts DEF Holding
<1>3. CASE PartsIn(v) = 0
  BY <1>2, <1>3 DEF Stored, EntryOf, Whole
<1>4. CASE PartsIn(v) # 0
  <2> DEFINE parts == [i \in 1 .. PartsIn(v) |-> chunk[s][i]]
  <2>1. v \in Secrets /\ PartsIn(v) = Size(v)
    BY <1>1, <1>4 DEF PartsIn
  <2>2. \A i \in 1 .. PartsIn(v) : chunk[s][i] = [secret |-> v, index |-> i]
    <3> SUFFICES ASSUME NEW i \in 1 .. PartsIn(v)
                 PROVE  chunk[s][i] = [secret |-> v, index |-> i]
      OBVIOUS
    <3>1. i \in Indexes /\ i <= PartsIn(v)
      BY <1>1, SlotFacts
    <3> QED  BY <3>1 DEF Holding, PartOf
  <2>3. parts = Pieces(v)
    BY <2>1, <2>2 DEF Pieces
  <2>4. ASSUME NEW i \in 1 .. PartsIn(v)
        PROVE  parts[i] # NoPiece /\ parts[i].secret = v
    <3>1. parts[i] = [secret |-> v, index |-> i]
      BY <2>2
    <3>2. parts[i].secret = v /\ v # None /\ NoPiece.secret = None
      BY <2>1, <3>1, SizeFacts DEF NoPiece
    <3> QED  BY <3>2
  <2>5. parts[1].secret = v
    <3>1. 1 \in 1 .. PartsIn(v)
      BY <1>1, <1>4
    <3> HIDE DEF parts
    <3> QED  BY <2>4, <3>1
  <2>6. Stored(s) = Joined(parts)
    BY <1>2, <1>4, <2>4 DEF Stored
  <2> HIDE DEF parts
  <2>7. Joined(parts) = v
    BY <2>1, <2>3, <2>5 DEF Joined
  <2> QED  BY <2>6, <2>7
<1> QED  BY <1>3, <1>4

LEMMA RestHolds ==
    ASSUME TokenInv, NEW s \in Slots, AtRest(s)
    PROVE  \E v \in Bundles(s) \cup {None} :
              Holding(s, v) /\ Accepted(v) /\ Stored(s) = v
<1>1. \A p \in Procs : ~Changing(p, s)
  BY DEF AtRest, Replacing, Changing
<1>2. PICK v \in Bundles(s) \cup {None} : Holding(s, v) /\ Accepted(v)
  BY <1>1 DEF TokenInv, CalmInv, AtRest
<1> QED  BY <1>2, StoredIsHeld

(* However readers, writers and logouts of several processes interleave    *)
(* entry by entry, a slot on which nothing failed and that nobody replaced *)
(* while another used it is found to hold one whole secret or nothing, and *)
(* no part of an older one (writeSecret and deleteSecret, keychain.ts).    *)
THEOREM SlotsAreWhole == Spec => []QuietSlotIsWhole
<1>1. ASSUME TokenInv, NEW s \in Slots, AtRest(s)
      PROVE  /\ Stored(s) # Torn
             /\ (Stored(s) = None => primary[s] = NoEntry)
             /\ \A i \in Indexes : i > primary[s].chunks => chunk[s][i] = NoPiece
  <2>1. PICK v \in Bundles(s) \cup {None} : Holding(s, v) /\ Stored(s) = v
    BY <1>1, RestHolds
  <2>2. v # Torn
    BY SlotFacts, KeychainAssumption
  <2>3. v = None => EntryOf(v) = NoEntry
    BY DEF EntryOf, PartsIn, Whole, NoEntry
  <2>4. HoldsOne(s)
    BY <2>1 DEF HoldsOne
  <2> QED  BY <2>1, <2>2, <2>3, <2>4, HeldParts DEF Holding
<1>2. TokenInv => QuietSlotIsWhole
  BY <1>1 DEF QuietSlotIsWhole
<1> QED  BY <1>2, TokenInvariant, PTL

(* ... and its refresh token is one the identity provider accepts, however *)
(* often getAccessToken has had it rotated.                                *)
THEOREM RefreshChainUnbroken == Spec => []ChainUnbroken
<1>1. ASSUME TokenInv, NEW s \in Slots, AtRest(s), Stored(s) \in Secrets
      PROVE  Stored(s).refresh \in live \cup {0}
  <2>1. PICK v \in Bundles(s) \cup {None} : Accepted(v) /\ Stored(s) = v
    BY <1>1, RestHolds
  <2>2. v # None
    BY <1>1, <2>1, SizeFacts
  <2> QED  BY <2>1, <2>2 DEF Accepted
<1>2. TokenInv => ChainUnbroken
  BY <1>1 DEF ChainUnbroken
<1> QED  BY <1>2, TokenInvariant, PTL

=============================================================================
