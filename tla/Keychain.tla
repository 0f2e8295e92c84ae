------------------------------ MODULE Keychain ------------------------------
(***************************************************************************)
(* A slot of the OS keychain (src/src/shared/keychain.ts).  A secret that  *)
(* does not fit in one blob is split over chunk entries, and the primary   *)
(* entry holds a manifest with their number.  Every entry is read, set and *)
(* deleted by a call of its own, so the steps of two scai processes, or of *)
(* a process that dies and its successor, interleave between entries.      *)
(*                                                                         *)
(* The keychain may refuse to set an entry, which ends the write, and to   *)
(* delete one, which is passed over among the chunks.  An entry that       *)
(* cannot be read is none, as readPassword has it.                         *)
(***************************************************************************)
EXTENDS Naturals, Sequences, FiniteSets

CONSTANTS
    Procs,      \* scai processes
    Slots,      \* credential families of one environment (cm:, campaign:)
    Secrets,    \* what is stored
    Size(_),    \* the blobs a secret needs; 1 is the primary entry alone
    MaxChunks,  \* the largest Size
    None, Torn

ASSUME KeychainAssumption ==
    /\ MaxChunks \in Nat \ {0}
    /\ \A v \in Secrets : Size(v) \in 1 .. MaxChunks
    /\ None \notin Secrets /\ Torn \notin Secrets /\ None # Torn

VARIABLES
    primary,  \* the primary entry of a slot
    chunk,    \* its chunk entries, from 1
    kc        \* per process: the keychain call in progress, or its result

keychainVars == <<primary, chunk, kc>>

Indexes == 1 .. MaxChunks

(* A part of a split secret.                                               *)
Piece == [secret : Secrets, index : Indexes]

Whole(v) == [whole |-> v, chunks |-> 0]

(* Mutant: the manifest counts one chunk too many.                         *)
MutantManifest(n) == [whole |-> None, chunks |-> n + 1]

Manifest(n) == [whole |-> None, chunks |-> n]

NoEntry == [whole |-> None, chunks |-> 0]
NoPiece == [secret |-> None, index |-> 0]

Call(op, slot, v) ==
    [op |-> op, slot |-> slot, secret |-> v, old |-> 0, i |-> 1, parts |-> <<>>]

Idle(slot) == Call("idle", slot, None)

KeychainTypeOK ==
    /\ primary \in [Slots -> [whole : Secrets \cup {None}, chunks : 0 .. MaxChunks]]
    /\ chunk \in [Slots -> [Indexes -> Piece \cup {NoPiece}]]
    /\ \A p \in Procs :
          /\ kc[p].op \in {"idle", "read", "gather", "write", "put", "manifest",
                           "drop", "delete", "clear", "unset", "got", "ended"}
          /\ kc[p].slot \in Slots
          /\ kc[p].secret \in Secrets \cup {None, Torn}
          /\ kc[p].old \in 0 .. MaxChunks
          /\ kc[p].i \in 1 .. MaxChunks + 1
          /\ Len(kc[p].parts) <= MaxChunks

-----------------------------------------------------------------------------
Doing(p, op) == kc[p].op = op

(* chunkCountOf of the primary entry a call finds.                         *)
ChunkCount(p) == primary[kc[p].slot].chunks

Becomes(p, op) == kc' = [kc EXCEPT ![p].op = op]

(* A read ends with a value and the parts it was joined from.              *)
Returns(p, v, parts) ==
    kc' = [kc EXCEPT ![p] = [Idle(kc[p].slot) EXCEPT
                                !.op = "got", !.secret = v, !.parts = parts]]

Pieces(v) == [i \in 1 .. Size(v) |-> [secret |-> v, index |-> i]]

(* The entries of a slot, joined: the secret they are the parts of, or a   *)
(* string nobody stored.                                                   *)
Joined(parts) ==
    IF \E v \in Secrets : parts = Pieces(v) THEN parts[1].secret ELSE Torn

(* readSecret: the primary entry, then the chunks a manifest counts, one   *)
(* after the other; a missing one is no value.                             *)
ReadPrimary(p) ==
    /\ Doing(p, "read")
    /\ IF ChunkCount(p) = 0 THEN Returns(p, primary[kc[p].slot].whole, <<>>)
       ELSE kc' = [kc EXCEPT ![p].op = "gather", ![p].old = ChunkCount(p)]
    /\ UNCHANGED <<primary, chunk>>

ReadChunk(p) ==
    LET part == chunk[kc[p].slot][kc[p].i]
        parts == Append(kc[p].parts, part) IN
    /\ Doing(p, "gather")
    /\ IF part = NoPiece THEN Returns(p, None, <<>>)
       ELSE IF kc[p].i = kc[p].old THEN Returns(p, Joined(parts), parts)
       ELSE kc' = [kc EXCEPT ![p].i = @ + 1, ![p].parts = parts]
    /\ UNCHANGED <<primary, chunk>>

(* writeSecret reads how many chunks the value it replaces has, ...        *)
MeasureOld(p) ==
    /\ Doing(p, "write")
    /\ kc' = [kc EXCEPT ![p].op = "put", ![p].old = ChunkCount(p)]
    /\ UNCHANGED <<primary, chunk>>

(* ... drops the chunks the new one leaves behind, from `from` on, ...     *)
(* Mutant: without the offset, the chunks just written go too.             *)
MutantDropFrom(p, from) ==
    kc' = [kc EXCEPT ![p].op = IF kc[p].old >= from THEN "drop" ELSE "ended",
                     ![p].i = 1]

DropFrom(p, from) ==
    kc' = [kc EXCEPT ![p].op = IF kc[p].old >= from THEN "drop" ELSE "ended",
                     ![p].i = IF kc[p].old >= from THEN from ELSE 1]

(* ... which is all of them after a secret that fits in one blob, ...      *)
PutWhole(p) ==
    /\ Doing(p, "put") /\ Size(kc[p].secret) = 1
    /\ primary' = [primary EXCEPT ![kc[p].slot] = Whole(kc[p].secret)]
    /\ DropFrom(p, 1)
    /\ UNCHANGED chunk

(* ... and sets the chunks of a longer one before its manifest.            *)
PutChunk(p) ==
    LET c == kc[p] IN
    /\ Doing(p, "put") /\ Size(c.secret) > 1
    /\ chunk' = [chunk EXCEPT ![c.slot][c.i] = [secret |-> c.secret, index |-> c.i]]
    /\ kc' = [kc EXCEPT ![p].op = IF c.i = Size(c.secret) THEN "manifest" ELSE "put",
                        ![p].i = @ + 1]
    /\ UNCHANGED primary

PutManifest(p) ==
    /\ Doing(p, "manifest")
    /\ primary' = [primary EXCEPT ![kc[p].slot] = Manifest(Size(kc[p].secret))]
    /\ DropFrom(p, Size(kc[p].secret) + 1)
    /\ UNCHANGED chunk

(* The keychain refuses a set: writeFamily warns and returns false, and    *)
(* what was set before stays.                                              *)
SetRefused(p) ==
    /\ \E op \in {"put", "manifest"} : Doing(p, op)
    /\ Becomes(p, "ended")
    /\ UNCHANGED <<primary, chunk>>

(* deleteChunks, of a write and of deleteSecret, goes on to the next chunk.*)
AfterChunk(p) ==
    LET c == kc[p] IN
    /\ Doing(p, "drop") \/ Doing(p, "clear")
    /\ kc' = [kc EXCEPT ![p].op = IF c.i < c.old THEN c.op
                                  ELSE IF c.op = "drop" THEN "ended" ELSE "unset",
                        ![p].i = IF c.i < c.old THEN @ + 1 ELSE 1]

DropChunk(p) ==
    /\ AfterChunk(p)
    /\ chunk' = [chunk EXCEPT ![kc[p].slot][kc[p].i] = NoPiece]
    /\ UNCHANGED primary

(* deleteSecret: the chunks the primary entry counts, then that entry.     *)
MeasureDeleted(p) ==
    /\ Doing(p, "delete")
    /\ kc' = [kc EXCEPT ![p].op = IF ChunkCount(p) > 0 THEN "clear" ELSE "unset",
                        ![p].old = ChunkCount(p)]
    /\ UNCHANGED <<primary, chunk>>

Unset(p) ==
    /\ Doing(p, "unset")
    /\ primary' = [primary EXCEPT ![kc[p].slot] = NoEntry]
    /\ Becomes(p, "ended")
    /\ UNCHANGED chunk

(* The keychain refuses a delete: deleteChunks goes on, and clearFamily    *)
(* returns false with the chunks gone and the primary entry left.          *)
DeleteRefused(p) ==
    /\ AfterChunk(p) \/ (Doing(p, "unset") /\ Becomes(p, "ended"))
    /\ UNCHANGED <<primary, chunk>>

KeychainStep(p) ==
    \/ ReadPrimary(p) \/ ReadChunk(p)
    \/ MeasureOld(p) \/ PutWhole(p) \/ PutChunk(p) \/ PutManifest(p)
    \/ DropChunk(p) \/ MeasureDeleted(p) \/ Unset(p)

(* What a reader that nobody disturbs would get now.                       *)
Stored(slot) ==
    LET n == primary[slot].chunks
        parts == [i \in 1 .. n |-> chunk[slot][i]] IN
    IF n = 0 THEN primary[slot].whole
    ELSE IF \E i \in 1 .. n : parts[i] = NoPiece THEN None ELSE Joined(parts)
=============================================================================
