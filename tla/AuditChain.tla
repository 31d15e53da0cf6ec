------------------------------ MODULE AuditChain ------------------------------
(***************************************************************************)
(* The hash-chained audit file (operator/src/openxr_operator/auditlog.py): *)
(* append, what a crash or a failed write leaves behind, reading the file  *)
(* back at the next start, and verify on a file somebody tampered with.    *)
(*                                                                         *)
(* SHA-256 is a one-to-one function: the hash of a record is the record    *)
(* with the hash before it.  The body of a record is the number of the     *)
(* append that made it, because every record carries its own time; Forged  *)
(* is a body somebody else wrote.  A line that is not JSON is Torn.        *)
(***************************************************************************)
EXTENDS Integers, Sequences

CONSTANTS MaxAppends,   \* model bound: appends over the life of the file
          MaxRestarts   \* model bound: restarts of the process

ASSUME BoundsAssumption == MaxAppends \in Nat /\ MaxRestarts \in Nat

GENESIS == <<>>
Forged == 0
Torn == [seq |-> 0, body |-> Forged, prev |-> GENESIS, hash |-> GENESIS]

VARIABLES file,        \* the lines
          open_tail,   \* the last line has no newline
          alive,       \* there is an AuditLog object
          mem_seq, mem_prev,   \* _seq and _prev
          stored,      \* the record append is working on, Torn for none
          at,          \* where append is: idle, built, written
          made,        \* appends begun
          acked,       \* records append returned
          restarts,
          damaged,     \* a write failed or was cut off
          tampered,    \* how the file was tampered with, none at first
          pinned, pinned_len   \* the head somebody pinned, and its position
logVars == <<file, open_tail>>
memVars == <<alive, mem_seq, mem_prev, stored, at>>
histVars == <<made, acked, restarts, damaged, tampered, pinned, pinned_len>>
vars == <<logVars, memVars, histVars>>

Init == /\ file = <<>> /\ open_tail = FALSE
        /\ alive = TRUE /\ mem_seq = 0 /\ mem_prev = GENESIS
        /\ stored = Torn /\ at = "idle"
        /\ made = 0 /\ acked = {} /\ restarts = 0
        /\ damaged = FALSE /\ tampered = "none"
        /\ pinned = GENESIS /\ pinned_len = 0

-----------------------------------------------------------------------------
(* _hash_record over everything but record_hash.                           *)
Hash(prev, r) == <<prev, r.seq, r.body, r.prev>>

Record(seq, body, prev) ==
    LET r == [seq |-> seq, body |-> body, prev |-> prev]
    IN  [seq |-> seq, body |-> body, prev |-> prev, hash |-> Hash(prev, r)]

HeadOf(lines) == IF lines = <<>> THEN GENESIS ELSE lines[Len(lines)].hash

(* head_hash                                                               *)
FirstHash(lines) == IF lines = <<>> THEN GENESIS ELSE lines[1].hash
HeadHash(lines) == HeadOf(lines)

(* verify: every line carries its number, the hash before it, and its own. *)
AnyPrev(lines, i) == TRUE
ChainsOn(lines, i) == lines[i].prev = HeadOf(SubSeq(lines, 1, i - 1))

LineOk(lines, i) == /\ lines[i] # Torn
                    /\ lines[i].seq = i
                    /\ ChainsOn(lines, i)
                    /\ lines[i].hash = Hash(lines[i].prev, lines[i])

Verify(lines) == lines # <<>> /\ \A i \in 1..Len(lines) : LineOk(lines, i)

-----------------------------------------------------------------------------
(* append: number and chain the record, write the line, move the head.     *)

Build ==
    /\ alive /\ at = "idle"
    /\ made < MaxAppends
    /\ made' = made + 1
    /\ mem_seq' = mem_seq + 1
    /\ stored' = Record(mem_seq + 1, made + 1, mem_prev)
    /\ at' = "built"
    /\ UNCHANGED <<logVars, alive, mem_prev, acked, restarts, damaged, tampered, pinned,
                   pinned_len>>

(* Text written behind an unfinished line becomes part of that line.       *)
Overwrites(r) == <<r>>
AppendsTwice(r) == file \o <<r, r>>
Appended(r) == IF open_tail THEN [file EXCEPT ![Len(file)] = Torn] ELSE Append(file, r)

Write ==
    /\ alive /\ at = "built"
    /\ file' = Appended(stored)
    /\ open_tail' = FALSE
    /\ at' = "written"
    /\ UNCHANGED <<alive, mem_seq, mem_prev, stored, histVars>>

(* What a write that does not finish leaves: nothing, or half a line.      *)
HalfWritten ==
    \/ UNCHANGED logVars
    \/ file' = Appended(Torn) /\ open_tail' = TRUE

(* The write raises (disk full).  _seq stays incremented.                  *)
WriteFails ==
    /\ alive /\ at = "built"
    /\ HalfWritten
    /\ damaged' = TRUE
    /\ at' = "idle" /\ stored' = Torn
    /\ UNCHANGED <<alive, mem_seq, mem_prev, made, acked, restarts, tampered, pinned,
                   pinned_len>>

Link ==
    /\ alive /\ at = "written"
    /\ mem_prev' = stored.hash
    /\ acked' = acked \cup {stored}
    /\ at' = "idle" /\ stored' = Torn
    /\ UNCHANGED <<logVars, alive, mem_seq, made, restarts, damaged, tampered, pinned,
                   pinned_len>>

-----------------------------------------------------------------------------
(* The process dies, in the middle of a write or not.                      *)
Crash ==
    /\ alive /\ restarts < MaxRestarts
    /\ alive' = FALSE
    /\ at' = "idle" /\ stored' = Torn
    /\ mem_seq' = 0 /\ mem_prev' = GENESIS
    /\ \/ UNCHANGED <<logVars, damaged>>
       \/ at = "built" /\ file' = Appended(Torn) /\ open_tail' = TRUE /\ damaged' = TRUE
    /\ UNCHANGED <<made, acked, restarts, tampered, pinned, pinned_len>>

(* AuditLog.__init__: the last line gives the head and the number.  A line *)
(* that is not JSON makes it raise: there is no log object then.           *)
ForgetsNumber(lines) == 0
LastSeq(lines) == IF lines = <<>> THEN 0 ELSE lines[Len(lines)].seq

Reopen ==
    /\ ~alive /\ restarts < MaxRestarts
    /\ restarts' = restarts + 1
    /\ IF \E i \in 1..Len(file) : file[i] = Torn
       THEN UNCHANGED <<alive, mem_seq, mem_prev>>
       ELSE /\ alive' = TRUE
            /\ mem_prev' = HeadOf(file)
            /\ mem_seq' = LastSeq(file)
    /\ UNCHANGED <<logVars, stored, at, made, acked, damaged, tampered, pinned, pinned_len>>

-----------------------------------------------------------------------------
(* Somebody pins the head (head_hash).                                     *)
Pin ==
    /\ file # <<>> /\ ~damaged /\ tampered = "none"
    /\ pinned' = HeadHash(file) /\ pinned_len' = Len(file)
    /\ UNCHANGED <<logVars, memVars, made, acked, restarts, damaged, tampered>>

(* Somebody tampers with the file, once: changes the body of a line with or*)
(* without fitting its hash to it, deletes a line, exchanges two, cuts off *)
(* the end.  Fitting the hash of the last line, or rewriting every line    *)
(* from some point on, is what no chain shows and is left out.             *)
Without(i) == SubSeq(file, 1, i - 1) \o SubSeq(file, i + 1, Len(file))

Tamper ==
    /\ tampered = "none" /\ ~damaged
    /\ \E i \in 1..Len(file) :
          \/ /\ file' = [file EXCEPT ![i].body = Forged]
             /\ tampered' = "edit"
          \/ /\ i < Len(file)
             /\ file' = [file EXCEPT ![i] = Record(file[i].seq, Forged, file[i].prev)]
             /\ tampered' = "edit"
          \/ /\ i < Len(file)
             /\ file' = Without(i)
             /\ tampered' = "delete"
          \/ /\ i < Len(file)
             /\ file' = [file EXCEPT ![i] = file[i + 1], ![i + 1] = file[i]]
             /\ tampered' = "reorder"
          \/ /\ file' = SubSeq(file, 1, i - 1)
             /\ tampered' = "truncate"
    /\ UNCHANGED <<open_tail, memVars, made, acked, restarts, damaged, pinned, pinned_len>>

-----------------------------------------------------------------------------
Next == Build \/ Write \/ WriteFails \/ Link \/ Crash \/ Reopen \/ Pin \/ Tamper

Spec == Init /\ [][Next]_vars

-----------------------------------------------------------------------------
(* Properties.                                                             *)

(* Types, and where an append can be.                                      *)
TypeOK ==
    /\ open_tail \in BOOLEAN /\ alive \in BOOLEAN /\ damaged \in BOOLEAN
    /\ mem_seq \in 0..made /\ made \in 0..MaxAppends /\ restarts \in 0..MaxRestarts
    /\ at \in {"idle", "built", "written"} /\ (at = "idle" <=> stored = Torn)
    /\ tampered \in {"none", "edit", "delete", "reorder", "truncate"}
    /\ pinned_len \in 0..MaxAppends
    /\ Len(file) <= made /\ (open_tail => damaged)

(* A file nobody tampered with and no write of which failed verifies, over *)
(* crashes between two writes and restarts (auditlog.py:51-98).            *)
HonestLogVerifies == (tampered = "none" /\ ~damaged /\ file # <<>>) => Verify(file)

(* An edited, deleted or exchanged line makes verify fail, for ever: not   *)
(* even appends and restarts after it heal the chain (auditlog.py:5-6).    *)
TamperingShows == tampered \in {"edit", "delete", "reorder"} => ~Verify(file)

(* As long as lines are only appended or cut off at the end, a head equal  *)
(* to the pinned one means the log still ends where it was pinned: what was*)
(* cut off is missed even after later appends (auditlog.py:101-103).       *)
PinnedHeadShowsTruncation ==
    (tampered \in {"none", "truncate"} /\ pinned_len > 0 /\ HeadHash(file) = pinned)
        => Len(file) = pinned_len

(* A record append returned is in the file, at its number, as long as      *)
(* nobody tampers with the file and no write fails.                        *)
AcknowledgedIsOnDisk ==
    (tampered = "none" /\ ~damaged) =>
        \A r \in acked : r.seq \in 1..Len(file) /\ file[r.seq] = r
=============================================================================
