--------------------------- MODULE AuditChainProofs ---------------------------
(***************************************************************************)
(* Theorems about AuditChain, for any number of appends and restarts: a log*)
(* nobody tampered with and no write of which failed verifies, and holds   *)
(* every record an append has returned; a log that was edited does not     *)
(* verify, and one that was cut off does not end in the head pinned.       *)
(*                                                                         *)
(* The argument: in memory and on disk the chain has the same head and the *)
(* same length, or differs by the one record append is working on.  An edit*)
(* leaves a line that does not fit what is before it, and nothing written  *)
(* later changes that line.  A hash contains the body it seals and no body *)
(* comes twice, so the pinned hash is found only where it was pinned.      *)
(***************************************************************************)
EXTENDS AuditChain, SequenceTheorems, TLAPS

Honest == tampered = "none" /\ ~damaged

Fits(f, i) == /\ f[i] # Torn /\ f[i].seq = i
              /\ f[i].prev = IF i = 1 THEN GENESIS ELSE f[i - 1].hash
              /\ f[i].hash = Hash(f[i].prev, f[i])
Chained(f) == \A i \in 1..Len(f) : Fits(f, i)

(* Memory agrees with the file but for the record at hand.                 *)
Agree ==
    /\ at \in {"idle", "built", "written"} /\ (~alive => at = "idle")
    /\ alive /\ at = "idle" => mem_seq = Len(file) /\ mem_prev = HeadOf(file)
    /\ at = "built" => /\ mem_seq = Len(file) + 1
                       /\ \E body : stored = Record(Len(file) + 1, body, HeadOf(file))
    /\ at = "written" => /\ mem_seq = Len(file) /\ Len(file) > 0
                         /\ stored = file[Len(file)]

Kept == \A r \in acked : r.seq \in 1..Len(file) /\ file[r.seq] = r

LogInv == Honest => /\ ~open_tail /\ \E S : file \in Seq(S)
                    /\ Chained(file) /\ Agree /\ Kept

LEMMA RecordFacts ==
    ASSUME NEW n \in Nat, n > 0, NEW body, NEW prev
    PROVE  /\ Record(n, body, prev) # Torn /\ Record(n, body, prev).seq = n
           /\ Record(n, body, prev).prev = prev
           /\ Record(n, body, prev).hash = Hash(prev, Record(n, body, prev))
  BY DEF Record, Torn, Hash

LEMMA InitInv == Init => LogInv
<1>1. <<>> \in Seq({})
  OBVIOUS
<1>2. QED
  BY <1>1 DEF Init, LogInv, Honest, Chained, Agree, Kept, HeadOf

(* Steps that leave the file and what was acknowledged alone.              *)
LEMMA BuildInv == ASSUME LogInv, Build PROVE LogInv'
<1>1. UNCHANGED <<file, open_tail, acked, tampered, damaged, alive, mem_prev>>
  BY DEF Build, logVars
<1>2. CASE Honest
  <2>1. at = "idle" /\ alive /\ at' = "built" /\ mem_seq' = mem_seq + 1
        /\ stored' = Record(mem_seq + 1, made + 1, mem_prev)
    BY DEF Build
  <2>2. Agree'
    BY <1>1, <1>2, <2>1 DEF LogInv, Agree, HeadOf
  <2>3. QED
    BY <1>1, <1>2, <2>2 DEF LogInv, Kept, Chained
<1>3. QED
  BY <1>1, <1>2 DEF LogInv, Honest

LEMMA WriteInv == ASSUME LogInv, Write PROVE LogInv'
<1>1. /\ UNCHANGED <<acked, tampered, damaged, alive, mem_seq, stored>> /\ open_tail' = FALSE
      /\ at = "built" /\ at' = "written" /\ alive
  BY DEF Write, histVars
<1>2. CASE Honest
  <2>1. PICK S : file \in Seq(S)
    BY <1>2 DEF LogInv
  <2>2. file' = Append(file, stored)
    BY <1>2 DEF Write, Appended, LogInv
  <2>3. PICK T : file \in Seq(T) /\ stored \in T
    <3>1. file \in Seq(S \cup {stored})
      BY <2>1
    <3>2. QED
      BY <3>1
  <2>4. /\ file' \in Seq(T) /\ Len(file') = Len(file) + 1 /\ Len(file) \in Nat
        /\ \A i \in 1..Len(file) : file'[i] = file[i]
        /\ file'[Len(file) + 1] = stored
        /\ \A i \in 1..Len(file') : i \in 1..Len(file) \/ i = Len(file) + 1
    BY <2>2, <2>3
  <2>5. PICK body : stored = Record(Len(file) + 1, body, HeadOf(file))
    BY <1>1, <1>2 DEF LogInv, Agree
  <2>6. /\ stored # Torn /\ stored.seq = Len(file) + 1 /\ stored.prev = HeadOf(file)
        /\ stored.hash = Hash(stored.prev, stored)
    BY <2>4, <2>5, RecordFacts
  <2>7. HeadOf(file) = IF Len(file) + 1 = 1 THEN GENESIS ELSE file[Len(file)].hash
    BY <2>3, <2>4 DEF HeadOf
  <2>8. Chained(file')
    <3>1. ASSUME NEW i \in 1..Len(file)
          PROVE  Fits(file', i)
      <4>1. i # 1 => i - 1 \in 1..Len(file)
        BY <2>4
      <4>2. QED
        BY <1>2, <2>4, <3>1, <4>1 DEF LogInv, Chained, Fits
    <3>2. ASSUME NEW i, i = Len(file) + 1
          PROVE  Fits(file', i)
      <4>1. i # 1 => i - 1 = Len(file) /\ file'[i - 1] = file[Len(file)]
        BY <2>4, <3>2
      <4>2. QED
        BY <2>4, <2>6, <2>7, <3>2, <4>1 DEF Fits
    <3>3. QED
      BY <2>4, <3>1, <3>2 DEF Chained
  <2>9. Agree'
    BY <1>1, <1>2, <2>4 DEF LogInv, Agree
  <2>10. Kept'
    BY <1>1, <1>2, <2>4 DEF LogInv, Kept
  <2>11. QED
    BY <1>1, <2>4, <2>8, <2>9, <2>10 DEF LogInv
<1>3. QED
  BY <1>1, <1>2 DEF LogInv, Honest

LEMMA LinkInv == ASSUME LogInv, Link PROVE LogInv'
<1>1. /\ UNCHANGED <<file, open_tail, tampered, damaged, alive, mem_seq>>
      /\ at = "written" /\ at' = "idle" /\ alive
      /\ mem_prev' = stored.hash /\ acked' = acked \cup {stored}
  BY DEF Link, logVars
<1>2. CASE Honest
  <2>1. stored = file[Len(file)] /\ Len(file) \in 1..Len(file) /\ stored.seq = Len(file)
    <3>1. PICK S : file \in Seq(S)
      BY <1>2 DEF LogInv
    <3>2. QED
      BY <1>1, <1>2, <3>1 DEF LogInv, Agree, Chained, Fits
  <2>2. file # <<>>
    BY <2>1
  <2>3. Agree'
    BY <1>1, <1>2, <2>1, <2>2 DEF LogInv, Agree, HeadOf
  <2>4. Kept'
    BY <1>1, <1>2, <2>1 DEF LogInv, Kept
  <2>5. QED
    BY <1>1, <1>2, <2>3, <2>4 DEF LogInv
<1>3. QED
  BY <1>1, <1>2 DEF LogInv, Honest

LEMMA ReopenInv == ASSUME LogInv, Reopen PROVE LogInv'
<1>1. UNCHANGED <<file, open_tail, tampered, damaged, acked, stored, at>> /\ ~alive
  BY DEF Reopen, logVars
<1>2. CASE Honest
  <2>1. /\ at = "idle" /\ Chained(file)
    BY <1>1, <1>2 DEF LogInv, Agree
  <2>2. alive' => mem_prev' = HeadOf(file) /\ mem_seq' = LastSeq(file)
    BY <1>1 DEF Reopen
  <2>3. LastSeq(file) = Len(file)
    <3>1. PICK S : file \in Seq(S)
      BY <1>2 DEF LogInv
    <3>2. file # <<>> => Len(file) \in 1..Len(file)
      BY <3>1
    <3>3. QED
      BY <2>1, <3>2 DEF LastSeq, Chained, Fits
  <2>4. Agree'
    BY <1>1, <2>1, <2>2, <2>3 DEF Agree, HeadOf
  <2>5. QED
    BY <1>1, <1>2, <2>4 DEF LogInv, Kept
<1>3. QED
  BY <1>1, <1>2 DEF LogInv, Honest

LEMMA NextInv == ASSUME LogInv, [Next]_vars PROVE LogInv'
<1>1. CASE WriteFails \/ Tamper
  BY <1>1 DEF WriteFails, Tamper, LogInv, Honest
<1>2. CASE Crash
  <2>1. CASE damaged' = TRUE
    BY <2>1 DEF LogInv, Honest
  <2>2. CASE UNCHANGED <<logVars, damaged>>
    BY <1>2, <2>2 DEF Crash, logVars, LogInv, Honest, Agree, Kept
  <2>3. QED
    BY <1>2, <2>1, <2>2 DEF Crash
<1>3. CASE Pin \/ UNCHANGED vars
  BY <1>3 DEF Pin, vars, logVars, memVars, histVars, LogInv, Honest, Agree, Kept
<1>4. QED
  BY <1>1, <1>2, <1>3, BuildInv, WriteInv, LinkInv, ReopenInv DEF Next

LEMMA InvHolds == Spec => []LogInv
<1>1. Init => LogInv
  BY InitInv
<1>2. LogInv /\ [Next]_vars => LogInv'
  BY NextInv
<1>3. QED
  BY <1>1, <1>2, PTL DEF Spec

-----------------------------------------------------------------------------
(* The head before line i is the hash of the line before it, so that a line*)
(* that verify accepts is one that fits.                                   *)
LEMMA LineOkIsFits ==
    ASSUME NEW S, NEW f \in Seq(S), NEW i \in 1..Len(f)
    PROVE  LineOk(f, i) <=> Fits(f, i)
<1>1. HeadOf(SubSeq(f, 1, i - 1)) = IF i = 1 THEN GENESIS ELSE f[i - 1].hash
  <2>1. CASE i = 1
    <3>1. SubSeq(f, 1, i - 1) = <<>>
      BY <2>1, SubSeqEmpty
    <3>2. QED
      BY <2>1, <3>1 DEF HeadOf
  <2>2. CASE i # 1
    <3>1. 1 \in Int /\ i - 1 \in Int /\ 1 <= i - 1
      BY <2>2
    <3>2. \A k \in 1..i - 1 : f[k] \in S
      BY <2>2
    <3>3. /\ Len(SubSeq(f, 1, i - 1)) = i - 1
          /\ \A k \in 1..i - 1 : SubSeq(f, 1, i - 1)[k] = f[k]
          /\ SubSeq(f, 1, i - 1) \in Seq(S)
      BY <3>1, <3>2, SubSeqProperties
    <3>4. SubSeq(f, 1, i - 1) # <<>> /\ SubSeq(f, 1, i - 1)[i - 1] = f[i - 1]
      BY <3>1, <3>3
    <3>5. QED
      BY <2>2, <3>3, <3>4 DEF HeadOf
  <2>3. QED
    BY <2>1, <2>2
<1>2. QED
  BY <1>1 DEF LineOk, ChainsOn, Fits

(* A log nobody tampered with and no write of which failed verifies, over  *)
(* any crashes between two writes and restarts (auditlog.py:51-98).        *)
THEOREM HonestLogAlwaysVerifies == Spec => []HonestLogVerifies
<1>1. LogInv => HonestLogVerifies
  <2>1. SUFFICES ASSUME LogInv, Honest, file # <<>>, NEW i \in 1..Len(file)
                 PROVE  LineOk(file, i)
    BY DEF HonestLogVerifies, Verify, Honest
  <2>2. PICK S : file \in Seq(S)
    BY <2>1 DEF LogInv
  <2>3. Fits(file, i)
    BY <2>1 DEF LogInv, Chained
  <2>4. QED
    BY <2>2, <2>3, LineOkIsFits
<1>2. QED
  BY <1>1, InvHolds, PTL

(* What an append has returned is in the file at its number, as long as    *)
(* nobody tampers with it and no write fails (auditlog.py:55-73).          *)
THEOREM AcknowledgedStays == Spec => []AcknowledgedIsOnDisk
<1>1. LogInv => AcknowledgedIsOnDisk
  BY DEF LogInv, Honest, Kept, AcknowledgedIsOnDisk
<1>2. QED
  BY <1>1, InvHolds, PTL

-----------------------------------------------------------------------------
(* What a write does to the lines: one more, or, behind an unfinished line,*)
(* the last one is lost.                                                   *)
LEMMA AppendedFacts ==
    ASSUME NEW S, file \in Seq(S), NEW r, open_tail => file # <<>>
    PROVE  /\ \E T : Appended(r) \in Seq(T)
           /\ Len(file) \in Nat
           /\ open_tail => /\ Len(file) > 0 /\ Len(Appended(r)) = Len(file)
                           /\ Appended(r)[Len(file)] = Torn
           /\ ~open_tail => /\ Len(Appended(r)) = Len(file) + 1
                            /\ Appended(r)[Len(file) + 1] = r
           /\ \A i \in 1..Len(file) : (open_tail => i # Len(file)) => Appended(r)[i] = file[i]
<1>1. Len(file) \in Nat
  OBVIOUS
<1>2. CASE open_tail
  <2>1. Len(file) \in 1..Len(file)
    BY <1>2
  <2>2. /\ [file EXCEPT ![Len(file)] = Torn] \in Seq(S \cup {Torn})
        /\ Len([file EXCEPT ![Len(file)] = Torn]) = Len(file)
    BY <2>1
  <2>3. Appended(r) = [file EXCEPT ![Len(file)] = Torn]
    BY <1>2 DEF Appended
  <2>4. \E T : Appended(r) \in Seq(T)
    BY <2>2, <2>3
  <2>5. /\ [file EXCEPT ![Len(file)] = Torn][Len(file)] = Torn
        /\ \A i \in 1..Len(file) : i # Len(file) => [file EXCEPT ![Len(file)] = Torn][i] = file[i]
    BY <2>1
  <2>6. /\ Len(Appended(r)) = Len(file) /\ Appended(r)[Len(file)] = Torn
        /\ \A i \in 1..Len(file) : i # Len(file) => Appended(r)[i] = file[i]
    BY <2>2, <2>3, <2>5
  <2>7. QED
    BY <1>1, <1>2, <2>1, <2>4, <2>6
<1>3. CASE ~open_tail
  <2>1. Append(file, r) \in Seq(S \cup {r})
    OBVIOUS
  <2>2. QED
    BY <1>3, <2>1 DEF Appended
<1>4. QED
  BY <1>1, <1>2, <1>3

LEMMA WithoutFacts ==
    ASSUME NEW S, file \in Seq(S), NEW i \in 1..Len(file), i < Len(file)
    PROVE  /\ Without(i) \in Seq(S) /\ Len(Without(i)) = Len(file) - 1
           /\ \A k \in 1..Len(file) - 1 : Without(i)[k] = IF k < i THEN file[k] ELSE file[k + 1]
<1> DEFINE a == SubSeq(file, 1, i - 1)
           b == SubSeq(file, i + 1, Len(file))
<1>1. /\ a \in Seq(S) /\ Len(a) = i - 1
      /\ \A k \in 1..i - 1 : a[k] = file[k]
  <2>1. 1 \in Int /\ i - 1 \in Int /\ \A k \in 1..i - 1 : file[k] \in S
    OBVIOUS
  <2>2. QED
    BY <2>1, SubSeqProperties
<1>2. /\ b \in Seq(S) /\ Len(b) = Len(file) - i
      /\ \A k \in 1..Len(file) - i : b[k] = file[k + i]
  <2>1. i + 1 \in Int /\ Len(file) \in Int /\ \A k \in i + 1..Len(file) : file[k] \in S
    OBVIOUS
  <2>2. /\ b \in Seq(S) /\ Len(b) = Len(file) - (i + 1) + 1
        /\ \A k \in 1..Len(file) - (i + 1) + 1 : b[k] = file[i + 1 + k - 1]
    BY <2>1, SubSeqProperties
  <2>3. QED
    BY <2>2
<1> HIDE DEF a, b
<1>3. /\ a \o b \in Seq(S) /\ Len(a \o b) = Len(a) + Len(b)
      /\ \A k \in 1..Len(a) + Len(b) : (a \o b)[k] = IF k <= Len(a) THEN a[k] ELSE b[k - Len(a)]
  BY <1>1, <1>2, ConcatProperties
<1>4. ASSUME NEW k \in 1..Len(file) - 1
      PROVE  (a \o b)[k] = IF k < i THEN file[k] ELSE file[k + 1]
  <2>1. CASE k < i
    BY <1>1, <1>2, <1>3, <2>1
  <2>2. CASE ~(k < i)
    <3>1. k - Len(a) \in 1..Len(file) - i /\ ~(k <= Len(a))
      BY <1>1, <2>2
    <3>2. b[k - Len(a)] = file[(k - Len(a)) + i] /\ (k - Len(a)) + i = k + 1
      BY <1>1, <1>2, <3>1
    <3>3. k \in 1..Len(a) + Len(b)
      BY <1>1, <1>2
    <3>4. (a \o b)[k] = b[k - Len(a)]
      BY <1>3, <3>1, <3>3
    <3>5. QED
      BY <2>2, <3>2, <3>4
  <2>3. QED
    BY <2>1, <2>2
<1>5. Without(i) = a \o b
  BY DEF Without, a, b
<1>6. Len(a \o b) = Len(file) - 1
  BY <1>1, <1>2, <1>3
<1>7. QED
  BY <1>3, <1>4, <1>5, <1>6

LEMMA CutFacts ==
    ASSUME NEW S, file \in Seq(S), NEW i \in 1..Len(file)
    PROVE  /\ SubSeq(file, 1, i - 1) \in Seq(S) /\ Len(SubSeq(file, 1, i - 1)) = i - 1
           /\ \A k \in 1..i - 1 : SubSeq(file, 1, i - 1)[k] = file[k]
<1>1. 1 \in Int /\ i - 1 \in Int /\ \A k \in 1..i - 1 : file[k] \in S
  OBVIOUS
<1>2. QED
  BY <1>1, SubSeqProperties

-----------------------------------------------------------------------------
(* Types: what is in the file are records, whatever happened to it, and    *)
(* numbers do not run ahead of the appends begun.                          *)
IsRecord(r) == r = [seq |-> r.seq, body |-> r.body, prev |-> r.prev, hash |-> r.hash]
LineTypes(f) == /\ \E S : f \in Seq(S)
                /\ \A i \in 1..Len(f) : IsRecord(f[i]) /\ f[i].seq \in 0..made

FileTypes ==
    /\ LineTypes(file) /\ (at = "built" => Len(file) < made)
    /\ open_tail => file # <<>>
    /\ at # "idle" => IsRecord(stored) /\ stored.seq \in 1..made

TypeInv == TypeOK /\ FileTypes

LEMMA TornIsRecord == IsRecord(Torn) /\ Torn.seq = 0
  BY DEF IsRecord, Torn

LEMMA RecordIsRecord ==
    ASSUME NEW n, NEW body, NEW prev
    PROVE  IsRecord(Record(n, body, prev)) /\ Record(n, body, prev).seq = n
  BY DEF IsRecord, Record

LEMMA InitTypes == Init => TypeInv
<1> SUFFICES ASSUME Init PROVE TypeInv
  OBVIOUS
<1>1. <<>> \in Seq({}) /\ Len(<<>>) = 0
  OBVIOUS
<1>2. LineTypes(file)
  BY <1>1 DEF Init, LineTypes
<1>3. TypeOK
  <2>1. /\ mem_seq \in 0..made /\ made \in 0..MaxAppends /\ restarts \in 0..MaxRestarts
        /\ pinned_len \in 0..MaxAppends /\ Len(file) <= made
    BY <1>1, BoundsAssumption DEF Init
  <2>2. QED
    BY <2>1 DEF Init, TypeOK
<1>4. QED
  BY <1>2, <1>3 DEF Init, TypeInv, FileTypes

(* A line is written, or half a line.                                      *)
LEMMA WritingTypes ==
    ASSUME TypeInv, at = "built", NEW r, IsRecord(r), r.seq \in 0..made, made' = made,
           file' = Appended(r)
    PROVE  LineTypes(file)' /\ Len(file') <= made /\ file' # <<>>
<1>1. PICK S : file \in Seq(S)
  BY DEF TypeInv, FileTypes, LineTypes
<1>2. open_tail => file # <<>>
  BY DEF TypeInv, FileTypes
<1>3. /\ \E T : file' \in Seq(T)
      /\ Len(file) \in Nat /\ made \in Nat /\ Len(file) < made
      /\ open_tail => Len(file) > 0 /\ Len(file') = Len(file) /\ file'[Len(file)] = Torn
      /\ ~open_tail => Len(file') = Len(file) + 1 /\ file'[Len(file) + 1] = r
      /\ \A i \in 1..Len(file) : (open_tail => i # Len(file)) => file'[i] = file[i]
  <2>1. Len(file) \in Nat /\ made \in Nat /\ Len(file) < made
    BY <1>1 DEF TypeInv, TypeOK, FileTypes
  <2>2. open_tail => Len(file) > 0
    BY <1>1, <1>2
  <2>3. /\ \E T : file' \in Seq(T)
        /\ open_tail => Len(file') = Len(file) /\ file'[Len(file)] = Torn
        /\ ~open_tail => Len(file') = Len(file) + 1 /\ file'[Len(file) + 1] = r
        /\ \A i \in 1..Len(file) : (open_tail => i # Len(file)) => file'[i] = file[i]
    BY <1>1, <1>2, AppendedFacts
  <2>4. QED
    BY <2>1, <2>2, <2>3
<1>4. ASSUME NEW i \in 1..Len(file')
      PROVE  IsRecord(file'[i]) /\ file'[i].seq \in 0..made
  <2>1. CASE open_tail /\ i = Len(file)
    BY <1>3, <2>1, TornIsRecord
  <2>2. CASE ~open_tail /\ i = Len(file) + 1
    BY <1>3, <2>2
  <2>3. CASE i \in 1..Len(file) /\ (open_tail => i # Len(file))
    BY <1>3, <2>3 DEF TypeInv, FileTypes, LineTypes
  <2>4. QED
    BY <1>3, <2>1, <2>2, <2>3
<1>5. LineTypes(file)'
  BY <1>3, <1>4 DEF LineTypes
<1>6. QED
  BY <1>3, <1>5

LEMMA TamperTypes == ASSUME TypeInv, Tamper PROVE LineTypes(file)' /\ Len(file') <= Len(file)
<1>1. PICK S : file \in Seq(S)
  BY DEF TypeInv, FileTypes, LineTypes
<1>2. made' = made /\ Len(file) \in Nat
  BY <1>1 DEF Tamper
<1>3. \A k \in 1..Len(file) : IsRecord(file[k]) /\ file[k].seq \in 0..made
  BY DEF TypeInv, FileTypes, LineTypes
<1>4. ASSUME NEW T, file' \in Seq(T), Len(file') <= Len(file),
             \A k \in 1..Len(file') : IsRecord(file'[k]) /\ file'[k].seq \in 0..made
      PROVE  LineTypes(file)' /\ Len(file') <= Len(file)
  BY <1>2, <1>4 DEF LineTypes
<1>5. PICK i \in 1..Len(file) :
         \/ file' = [file EXCEPT ![i].body = Forged]
         \/ file' = [file EXCEPT ![i] = Record(file[i].seq, Forged, file[i].prev)]
         \/ i < Len(file) /\ file' = Without(i)
         \/ i < Len(file) /\ file' = [file EXCEPT ![i] = file[i + 1], ![i + 1] = file[i]]
         \/ file' = SubSeq(file, 1, i - 1)
  BY DEF Tamper
<1>6. CASE \E r : file' = [file EXCEPT ![i] = r] /\ IsRecord(r) /\ r.seq = file[i].seq
  <2>1. PICK r : file' = [file EXCEPT ![i] = r] /\ IsRecord(r) /\ r.seq = file[i].seq
    BY <1>6
  <2>2. file' \in Seq(S \cup {r}) /\ Len(file') = Len(file)
    BY <1>1, <2>1
  <2>3. \A k \in 1..Len(file') : IsRecord(file'[k]) /\ file'[k].seq \in 0..made
    BY <1>1, <1>3, <2>1, <2>2
  <2>4. QED
    BY <1>2, <1>4, <2>2, <2>3
<1>7. CASE i < Len(file) /\ file' = Without(i)
  <2>1. /\ file' \in Seq(S) /\ Len(file') = Len(file) - 1
        /\ \A k \in 1..Len(file) - 1 : file'[k] = IF k < i THEN file[k] ELSE file[k + 1]
    BY <1>1, <1>7, WithoutFacts
  <2>2. ASSUME NEW k \in 1..Len(file')
        PROVE  IsRecord(file'[k]) /\ file'[k].seq \in 0..made
    <3>1. k \in 1..Len(file) - 1 /\ k \in 1..Len(file) /\ k + 1 \in 1..Len(file)
      BY <1>2, <2>1
    <3>2. file'[k] = file[k] \/ file'[k] = file[k + 1]
      BY <2>1, <3>1
    <3>3. QED
      BY <1>3, <3>1, <3>2
  <2>3. QED
    BY <1>2, <1>4, <2>1, <2>2
<1>8. CASE i < Len(file) /\ file' = [file EXCEPT ![i] = file[i + 1], ![i + 1] = file[i]]
  <2>1. file' \in Seq(S) /\ Len(file') = Len(file)
    BY <1>1, <1>8
  <2>2. \A k \in 1..Len(file') : IsRecord(file'[k]) /\ file'[k].seq \in 0..made
    BY <1>1, <1>2, <1>3, <1>8, <2>1
  <2>3. QED
    BY <1>2, <1>4, <2>1, <2>2
<1>9. CASE file' = SubSeq(file, 1, i - 1)
  <2>1. /\ file' \in Seq(S) /\ Len(file') = i - 1
        /\ \A k \in 1..i - 1 : file'[k] = file[k]
    BY <1>1, <1>9, CutFacts
  <2>2. \A k \in 1..Len(file') : IsRecord(file'[k]) /\ file'[k].seq \in 0..made
    BY <1>2, <1>3, <2>1
  <2>3. QED
    BY <1>2, <1>4, <2>1, <2>2
<1>10. ASSUME file' = [file EXCEPT ![i].body = Forged]
       PROVE  \E r : file' = [file EXCEPT ![i] = r] /\ IsRecord(r) /\ r.seq = file[i].seq
  <2>1. file' = [file EXCEPT ![i] = [file[i] EXCEPT !.body = Forged]]
    BY <1>10
  <2>2. IsRecord([file[i] EXCEPT !.body = Forged]) /\ [file[i] EXCEPT !.body = Forged].seq = file[i].seq
    <3>1. file[i] = [seq |-> file[i].seq, body |-> file[i].body, prev |-> file[i].prev,
                     hash |-> file[i].hash]
      BY <1>3 DEF IsRecord
    <3>2. [file[i] EXCEPT !.body = Forged]
          = [seq |-> file[i].seq, body |-> Forged, prev |-> file[i].prev, hash |-> file[i].hash]
      BY <3>1
    <3>3. QED
      BY <3>2 DEF IsRecord
  <2>3. QED
    BY <2>1, <2>2
<1>11. IsRecord(Record(file[i].seq, Forged, file[i].prev))
       /\ Record(file[i].seq, Forged, file[i].prev).seq = file[i].seq
  BY RecordIsRecord
<1>12. QED
  BY <1>5, <1>6, <1>7, <1>8, <1>9, <1>10, <1>11

LEMMA NextTypes == ASSUME TypeInv, [Next]_vars PROVE TypeInv'
<1> USE DEF TypeInv, TypeOK, FileTypes
<1>s. PICK S : file \in Seq(S)
  BY DEF LineTypes
<1>l. Len(file) \in Nat /\ MaxAppends \in Nat /\ MaxRestarts \in Nat
  BY <1>s, BoundsAssumption
<1>f. ASSUME UNCHANGED file, made' \in Nat, made <= made' PROVE LineTypes(file)'
  BY <1>f DEF LineTypes
<1>1. CASE Build
  <2>1. /\ made' = made + 1 /\ mem_seq' = mem_seq + 1 /\ made < MaxAppends
        /\ stored' = Record(mem_seq + 1, made + 1, mem_prev) /\ at' = "built"
        /\ UNCHANGED <<file, open_tail, alive, restarts, damaged, tampered, pinned_len>>
    BY <1>1 DEF Build, logVars
  <2>2. IsRecord(stored') /\ stored'.seq = mem_seq + 1 /\ stored' # Torn
    BY <2>1, RecordIsRecord, TornIsRecord
  <2>3. LineTypes(file)'
    BY <1>f, <2>1
  <2>4. QED
    BY <1>l, <2>1, <2>2, <2>3
<1>2. CASE Write
  <2>1. /\ file' = Appended(stored) /\ open_tail' = FALSE /\ at = "built" /\ at' = "written"
        /\ UNCHANGED <<alive, mem_seq, stored, made, restarts, damaged, tampered, pinned_len>>
    BY <1>2 DEF Write, histVars
  <2>2. LineTypes(file)' /\ Len(file') <= made
    BY <2>1, WritingTypes
  <2>3. QED
    BY <2>1, <2>2
<1>3. CASE WriteFails
  <2>1. /\ at = "built" /\ at' = "idle" /\ stored' = Torn /\ damaged' = TRUE
        /\ UNCHANGED <<alive, mem_seq, made, restarts, tampered, pinned_len>>
        /\ UNCHANGED logVars \/ (file' = Appended(Torn) /\ open_tail' = TRUE)
    BY <1>3 DEF WriteFails, HalfWritten
  <2>2. CASE UNCHANGED logVars
    BY <1>l, <1>f, <2>1, <2>2 DEF logVars
  <2>3. CASE file' = Appended(Torn) /\ open_tail' = TRUE
    <3>1. LineTypes(file)' /\ Len(file') <= made /\ file' # <<>>
      BY <2>1, <2>3, WritingTypes, TornIsRecord
    <3>2. QED
      BY <2>1, <2>3, <3>1
  <2>4. QED
    BY <2>1, <2>2, <2>3
<1>4. CASE Link \/ Pin
  <2>1. CASE Link
    BY <1>l, <1>f, <2>1 DEF Link, logVars
  <2>2. CASE Pin
    BY <1>l, <1>f, <2>2 DEF Pin, logVars, memVars
  <2>3. QED
    BY <1>4, <2>1, <2>2
<1>5. CASE Crash
  <2>1. /\ at' = "idle" /\ stored' = Torn /\ mem_seq' = 0 /\ alive' \in BOOLEAN
        /\ UNCHANGED <<made, restarts, tampered, pinned_len>>
        /\ \/ UNCHANGED <<logVars, damaged>>
           \/ at = "built" /\ file' = Appended(Torn) /\ open_tail' = TRUE /\ damaged' = TRUE
    BY <1>5 DEF Crash
  <2>2. mem_seq' \in 0..made'
    BY <1>l, <2>1
  <2>3. /\ LineTypes(file)' /\ Len(file') <= made /\ (open_tail' => file' # <<>> /\ damaged')
        /\ open_tail' \in BOOLEAN /\ damaged' \in BOOLEAN
    <3>1. CASE UNCHANGED <<logVars, damaged>>
      <4>1. UNCHANGED <<file, open_tail, damaged>>
        BY <3>1 DEF logVars
      <4>2. LineTypes(file)'
        BY <1>l, <1>f, <2>1, <4>1
      <4>3. QED
        BY <4>1, <4>2
    <3>2. CASE at = "built" /\ file' = Appended(Torn) /\ open_tail' = TRUE /\ damaged' = TRUE
      <4>1. Torn.seq \in 0..made
        BY <1>l, TornIsRecord
      <4>2. QED
        BY <2>1, <3>2, <4>1, WritingTypes, TornIsRecord
    <3>3. QED
      BY <2>1, <3>1, <3>2
  <2>4. QED
    BY <2>1, <2>2, <2>3
<1>6. CASE Reopen
  <2>1. LastSeq(file) \in 0..made
    BY <1>l DEF LastSeq, LineTypes
  <2>2. /\ restarts < MaxRestarts /\ restarts' = restarts + 1
        /\ UNCHANGED <<file, open_tail, stored, at, made, damaged, tampered, pinned_len>>
        /\ \/ UNCHANGED <<alive, mem_seq>>
           \/ alive' = TRUE /\ mem_seq' = LastSeq(file)
    BY <1>6 DEF Reopen, logVars
  <2>3. /\ mem_seq' \in 0..made /\ restarts' \in 0..MaxRestarts
        /\ alive' \in BOOLEAN
    <3>1. mem_seq' \in 0..made
      BY <2>1, <2>2
    <3>2. restarts' \in 0..MaxRestarts
      BY <1>l, <2>2
    <3>3. alive' \in BOOLEAN
      BY <2>2, Zenon
    <3>4. QED
      BY <3>1, <3>2, <3>3
  <2>4. LineTypes(file)'
    BY <1>l, <1>f, <2>2
  <2>5. QED
    BY <1>l, <2>2, <2>3, <2>4
<1>7. CASE Tamper
  <2>1. LineTypes(file)' /\ Len(file') <= Len(file)
    BY <1>7, TamperTypes
  <2>2. /\ UNCHANGED <<open_tail, alive, mem_seq, stored, at, made, restarts, damaged, pinned_len>>
        /\ tampered' \in {"none", "edit", "delete", "reorder", "truncate"} /\ ~open_tail
    BY <1>7 DEF Tamper, memVars
  <2>3. Len(file') \in Nat
    BY <2>1 DEF LineTypes
  <2>4. QED
    BY <1>l, <2>1, <2>2, <2>3
<1>8. CASE UNCHANGED vars
  BY <1>l, <1>f, <1>8 DEF vars, logVars, memVars, histVars
<1>9. QED
  BY <1>1, <1>2, <1>3, <1>4, <1>5, <1>6, <1>7, <1>8 DEF Next

(* Types, where an append can be, and that the file has no more lines, and *)
(* memory no higher number, than appends were begun (auditlog.py:38-73).   *)
THEOREM TypeCorrect == Spec => []TypeOK
<1>1. Init => TypeInv
  BY InitTypes
<1>2. TypeInv /\ [Next]_vars => TypeInv'
  BY NextTypes
<1>3. TypeInv => TypeOK
  BY DEF TypeInv
<1>4. QED
  BY <1>1, <1>2, <1>3, PTL DEF Spec

-----------------------------------------------------------------------------
(* The pinned head.  A hash contains the body it seals, and every append   *)
(* has a body of its own: so the pinned hash is found again only where it  *)
(* was pinned.  Lines lost half-written, and gaps in the numbers, do not   *)
(* matter; neither does what a cut took away, whose bodies never return.   *)
Seals(h, b) == \E p, n, q : h = <<p, n, b, q>>
Older(b) == b \in 1..made /\ (at = "built" => b < made)

Sealed == \A i \in 1..Len(file) :
             file[i] = Torn \/ (Seals(file[i].hash, file[i].body) /\ Older(file[i].body))
Distinct == \A i, j \in 1..Len(file) :
               (file[i] # Torn /\ file[j] # Torn /\ file[i].body = file[j].body) => i = j
PinnedOnce == pinned_len > 0 => /\ \E b : Seals(pinned, b) /\ Older(b)
                                /\ \A i \in 1..Len(file) : file[i].hash = pinned => i = pinned_len

PinInv == tampered \in {"none", "truncate"} =>
             /\ Sealed /\ Distinct /\ PinnedOnce
             /\ at = "built" => stored.body = made /\ Seals(stored.hash, made)

LEMMA SealFacts ==
    ASSUME NEW h, NEW b, Seals(h, b)
    PROVE  h # GENESIS /\ \A c : Seals(h, c) => b = c
<1>1. PICK p, n, q : h = <<p, n, b, q>>
  BY DEF Seals
<1>2. h # GENESIS
  BY <1>1 DEF GENESIS
<1>3. ASSUME NEW c, Seals(h, c) PROVE b = c
  <2>1. PICK pp, nn, qq : h = <<pp, nn, c, qq>>
    BY <1>3 DEF Seals
  <2>2. QED
    BY <1>1, <2>1
<1>4. QED
  BY <1>2, <1>3

LEMMA InitPin == Init => PinInv
<1> SUFFICES ASSUME Init PROVE PinInv
  OBVIOUS
<1>1. Len(file) = 0 /\ pinned_len = 0 /\ at = "idle"
  BY DEF Init
<1>2. QED
  BY <1>1 DEF PinInv, Sealed, Distinct, PinnedOnce

(* A step that leaves the lines and the pin alone.                         *)
LEMMA PinStays ==
    ASSUME PinInv, UNCHANGED <<file, pinned, pinned_len, tampered>>,
           \A b : Older(b) => Older(b)',
           at' = "built" => stored'.body = made' /\ Seals(stored'.hash, made')
    PROVE  PinInv'
<1>1. CASE tampered \in {"none", "truncate"}
  <2>1. Sealed' /\ Distinct' /\ PinnedOnce'
    BY <1>1 DEF PinInv, Sealed, Distinct, PinnedOnce
  <2>2. QED
    BY <2>1 DEF PinInv
<1>2. QED
  BY <1>1 DEF PinInv

LEMMA PinWriting ==
    ASSUME TypeInv, PinInv, NEW r \in {stored, Torn}, file' = Appended(r),
           at = "built", at' # "built", UNCHANGED <<made, pinned, pinned_len, tampered>>
    PROVE  PinInv'
<1> SUFFICES ASSUME tampered \in {"none", "truncate"} PROVE PinInv'
  BY DEF PinInv
<1>1. PICK S : file \in Seq(S)
  BY DEF TypeInv, FileTypes, LineTypes
<1>2. open_tail => file # <<>>
  BY DEF TypeInv, FileTypes
<1>3. /\ Len(file) \in Nat /\ made \in Nat
      /\ open_tail => Len(file) > 0 /\ Len(file') = Len(file) /\ file'[Len(file)] = Torn
      /\ ~open_tail => Len(file') = Len(file) + 1 /\ file'[Len(file) + 1] = r
      /\ \A i \in 1..Len(file) : (open_tail => i # Len(file)) => file'[i] = file[i]
  BY <1>1, <1>2, AppendedFacts DEF TypeInv, TypeOK
<1>4. ASSUME NEW i \in 1..Len(file')
      PROVE  \/ file'[i] = Torn
             \/ i \in 1..Len(file) /\ file'[i] = file[i]
             \/ i = Len(file) + 1 /\ file'[i] = stored
  BY <1>3
<1>5. Sealed /\ Distinct /\ PinnedOnce /\ stored.body = made /\ Seals(stored.hash, made)
      /\ made > 0
  BY DEF PinInv, TypeInv, TypeOK, FileTypes
<1>6. \A b : Older(b) => Older(b)' /\ b # made
  BY <1>3 DEF Older
<1>7. Sealed'
  <2>1. ASSUME NEW i \in 1..Len(file')
        PROVE  \/ file'[i] = Torn
               \/ Seals(file'[i].hash, file'[i].body) /\ file'[i].body \in 1..made
    BY <1>3, <1>4, <1>5 DEF Sealed, Older
  <2>2. QED
    BY <2>1 DEF Sealed, Older
<1>8. Distinct'
  <2>1. ASSUME NEW i \in 1..Len(file'), NEW j \in 1..Len(file'),
               file'[i] # Torn, file'[j] # Torn, file'[i].body = file'[j].body
        PROVE  i = j
    <3>1. ASSUME NEW k \in 1..Len(file), file[k] # Torn PROVE file[k].body # made
      BY <1>5, <1>6, <3>1 DEF Sealed
    <3>2. \/ i \in 1..Len(file) /\ file'[i] = file[i]
          \/ i = Len(file) + 1 /\ file'[i] = stored
      BY <1>4, <2>1
    <3>3. \/ j \in 1..Len(file) /\ file'[j] = file[j]
          \/ j = Len(file) + 1 /\ file'[j] = stored
      BY <1>4, <2>1
    <3>4. QED
      BY <1>5, <2>1, <3>1, <3>2, <3>3 DEF Distinct
  <2>2. QED
    BY <2>1 DEF Distinct
<1>9. PinnedOnce'
  <2>1. SUFFICES ASSUME pinned_len > 0 PROVE PinnedOnce'
    BY DEF PinnedOnce
  <2>2. PICK b : Seals(pinned, b) /\ Older(b)
    BY <1>5, <2>1 DEF PinnedOnce
  <2>3. pinned # GENESIS /\ ~Seals(pinned, made) /\ Torn.hash = GENESIS
    BY <1>6, <2>2, SealFacts DEF Torn
  <2>4. ASSUME NEW i \in 1..Len(file'), file'[i].hash = pinned PROVE i = pinned_len
    BY <1>4, <1>5, <2>1, <2>3, <2>4 DEF PinnedOnce
  <2>5. (\E c : Seals(pinned, c) /\ Older(c))'
    BY <1>6, <2>2
  <2>6. QED
    BY <2>4, <2>5 DEF PinnedOnce
<1>10. QED
  BY <1>7, <1>8, <1>9 DEF PinInv

(* The head is pinned on an honest log, whose lines are all sealed.        *)
LEMMA PinPin == ASSUME LogInv, PinInv, Pin PROVE PinInv'
<1>1. /\ file # <<>> /\ Honest /\ tampered = "none" /\ pinned' = file[Len(file)].hash
      /\ pinned_len' = Len(file) /\ UNCHANGED <<file, tampered, made, at, stored>>
  BY DEF Pin, Honest, HeadHash, HeadOf, logVars, memVars
<1>2. PICK S : file \in Seq(S)
  BY <1>1 DEF LogInv
<1>3. Len(file) \in 1..Len(file)
  BY <1>1, <1>2
<1>4. \A i \in 1..Len(file) : file[i] # Torn
  BY <1>1 DEF LogInv, Chained, Fits
<1>5. Sealed /\ Distinct /\ (at = "built" => stored.body = made /\ Seals(stored.hash, made))
  BY <1>1 DEF PinInv
<1>6. \A i \in 1..Len(file) : Seals(file[i].hash, file[i].body) /\ Older(file[i].body)
  BY <1>4, <1>5 DEF Sealed
<1>7. ASSUME NEW i \in 1..Len(file), file[i].hash = file[Len(file)].hash
      PROVE  i = Len(file)
  <2>1. file[i].body = file[Len(file)].body
    BY <1>3, <1>6, <1>7, SealFacts
  <2>2. QED
    BY <1>3, <1>4, <1>5, <2>1 DEF Distinct
<1>8. PinnedOnce'
  BY <1>1, <1>3, <1>6, <1>7 DEF PinnedOnce, Older
<1>9. Sealed' /\ Distinct'
  BY <1>1, <1>5 DEF Sealed, Distinct, Older
<1>10. QED
  BY <1>1, <1>5, <1>8, <1>9 DEF PinInv

LEMMA PinTruncate ==
    ASSUME TypeInv, PinInv, Tamper, tampered' = "truncate"
    PROVE  PinInv'
<1>1. PICK S : file \in Seq(S)
  BY DEF TypeInv, FileTypes, LineTypes
<1>2. PICK i \in 1..Len(file) : file' = SubSeq(file, 1, i - 1)
  BY DEF Tamper
<1>3. /\ Len(file') = i - 1 /\ \A k \in 1..i - 1 : file'[k] = file[k]
      /\ Len(file) \in Nat
  BY <1>1, <1>2, CutFacts
<1>4. \A k \in 1..Len(file') : k \in 1..Len(file) /\ file'[k] = file[k]
  BY <1>3
<1>5. /\ Sealed /\ Distinct /\ PinnedOnce /\ UNCHANGED <<made, at, stored, pinned, pinned_len>>
      /\ (at = "built" => stored.body = made /\ Seals(stored.hash, made))
  BY DEF PinInv, Tamper, memVars
<1>6. Sealed' /\ Distinct'
  BY <1>4, <1>5 DEF Sealed, Distinct, Older
<1>7. PinnedOnce'
  BY <1>4, <1>5 DEF PinnedOnce, Older
<1>8. QED
  BY <1>5, <1>6, <1>7 DEF PinInv

LEMMA NextPin == ASSUME TypeInv, LogInv, PinInv, [Next]_vars PROVE PinInv'
<1>n. made \in Nat
  BY DEF TypeInv, TypeOK
<1>1. CASE Build
  <2>1. /\ made' = made + 1 /\ stored' = Record(mem_seq + 1, made + 1, mem_prev) /\ at' = "built"
        /\ UNCHANGED <<file, tampered, pinned, pinned_len>>
    BY <1>1 DEF Build, logVars
  <2>2. stored'.body = made' /\ Seals(stored'.hash, made')
    BY <2>1 DEF Record, Hash, Seals
  <2>3. \A b : Older(b) => Older(b)'
    BY <1>n, <2>1 DEF Older
  <2>4. QED
    BY <2>1, <2>2, <2>3, PinStays
<1>2. CASE Write
  <2>1. /\ file' = Appended(stored) /\ at = "built" /\ at' # "built"
        /\ UNCHANGED <<made, pinned, pinned_len, tampered>>
    BY <1>2 DEF Write, histVars
  <2>2. QED
    BY <2>1, PinWriting
<1>3. CASE WriteFails \/ Crash
  <2>1. /\ at' # "built" /\ UNCHANGED <<made, pinned, pinned_len, tampered>>
        /\ UNCHANGED file \/ (at = "built" /\ file' = Appended(Torn))
    BY <1>3 DEF WriteFails, Crash, HalfWritten, logVars
  <2>2. CASE UNCHANGED file
    <3>1. \A b : Older(b) => Older(b)'
      BY <2>1 DEF Older
    <3>2. QED
      BY <2>1, <2>2, <3>1, PinStays
  <2>3. CASE at = "built" /\ file' = Appended(Torn)
    BY <2>1, <2>3, PinWriting
  <2>4. QED
    BY <2>1, <2>2, <2>3
<1>4. CASE Link \/ Reopen \/ UNCHANGED vars
  <2>1. /\ UNCHANGED <<made, file, pinned, pinned_len, tampered>>
        /\ at' # "built" \/ UNCHANGED <<at, stored>>
    BY <1>4 DEF Link, Reopen, vars, logVars, memVars, histVars
  <2>2. \A b : Older(b) => Older(b)'
    BY <2>1 DEF Older
  <2>3. CASE tampered \in {"none", "truncate"}
    <3>1. at' = "built" => stored'.body = made' /\ Seals(stored'.hash, made')
      BY <2>1, <2>3 DEF PinInv
    <3>2. QED
      BY <2>1, <2>2, <3>1, PinStays
  <2>4. QED
    BY <2>1, <2>3 DEF PinInv
<1>5. CASE Tamper
  BY <1>5, PinTruncate DEF Tamper, PinInv
<1>6. QED
  BY <1>1, <1>2, <1>3, <1>4, <1>5, PinPin DEF Next

(* As long as lines are only appended or cut off, a head equal to the      *)
(* pinned one means the log still ends where it was pinned, whatever was   *)
(* appended, lost or restarted after a cut (auditlog.py:101-103).          *)
THEOREM PinnedHeadHolds == Spec => []PinnedHeadShowsTruncation
<1>1. Init => TypeInv /\ LogInv /\ PinInv
  BY InitTypes, InitInv, InitPin
<1>2. TypeInv /\ LogInv /\ PinInv /\ [Next]_vars => (TypeInv /\ LogInv /\ PinInv)'
  BY NextTypes, NextInv, NextPin
<1>3. TypeInv /\ PinInv => PinnedHeadShowsTruncation
  <2>1. SUFFICES ASSUME TypeInv, PinInv, tampered \in {"none", "truncate"}, pinned_len > 0,
                        HeadHash(file) = pinned
                 PROVE  Len(file) = pinned_len
    BY DEF PinnedHeadShowsTruncation
  <2>2. PICK S : file \in Seq(S)
    BY <2>1 DEF TypeInv, FileTypes, LineTypes
  <2>3. PinnedOnce
    BY <2>1 DEF PinInv
  <2>4. pinned # GENESIS
    BY <2>1, <2>3, SealFacts DEF PinnedOnce
  <2>5. file # <<>> /\ file[Len(file)].hash = pinned
    BY <2>1, <2>4 DEF HeadHash, HeadOf
  <2>6. Len(file) \in 1..Len(file)
    BY <2>2, <2>5
  <2>7. QED
    BY <2>1, <2>3, <2>5, <2>6 DEF PinnedOnce
<1>4. QED
  BY <1>1, <1>2, <1>3, PTL DEF Spec

-----------------------------------------------------------------------------
(* Tampering.  It leaves a line that does not fit, and what is written     *)
(* later leaves that line misfit, or loses it half-written.                *)
Misfit(f) == \E i \in 1..Len(f) : ~Fits(f, i)
TamperInv == tampered \in {"edit", "delete", "reorder"} => Misfit(file)

LEMMA MisfitStays ==
    ASSUME TypeInv, Misfit(file), NEW r, file' = Appended(r)
    PROVE  Misfit(file')
<1>1. PICK S : file \in Seq(S)
  BY DEF TypeInv, FileTypes, LineTypes
<1>2. open_tail => file # <<>>
  BY DEF TypeInv, FileTypes
<1>3. /\ Len(file) \in Nat
      /\ open_tail => Len(file) > 0 /\ Len(file') = Len(file) /\ file'[Len(file)] = Torn
      /\ ~open_tail => Len(file') = Len(file) + 1 /\ file'[Len(file) + 1] = r
      /\ \A i \in 1..Len(file) : (open_tail => i # Len(file)) => file'[i] = file[i]
  BY <1>1, <1>2, AppendedFacts
<1>4. CASE open_tail
  <2>1. Len(file) \in 1..Len(file') /\ ~Fits(file', Len(file))
    BY <1>3, <1>4 DEF Fits
  <2>2. QED
    BY <2>1 DEF Misfit
<1>5. CASE ~open_tail
  <2>1. PICK i \in 1..Len(file) : ~Fits(file, i)
    BY DEF Misfit
  <2>2. i \in 1..Len(file') /\ file'[i] = file[i] /\ (i # 1 => file'[i - 1] = file[i - 1])
    BY <1>3, <1>5
  <2>3. ~Fits(file', i)
    BY <2>1, <2>2 DEF Fits
  <2>4. QED
    BY <2>2, <2>3 DEF Misfit
<1>6. QED
  BY <1>4, <1>5

(* An edit changes a body without its hash, or the hash the next line      *)
(* chains on to; a line deleted or exchanged leaves a wrong number.        *)
LEMMA TamperMisfits ==
    ASSUME TypeInv, LogInv, PinInv, Tamper, tampered' # "truncate"
    PROVE  Misfit(file')
<1>1. Honest
  BY DEF Tamper, Honest
<1>2. PICK S : file \in Seq(S)
  BY <1>1 DEF LogInv
<1>3. Chained(file) /\ Sealed
  BY <1>1 DEF LogInv, PinInv, Honest
<1>4. \A k \in 1..Len(file) :
         /\ IsRecord(file[k]) /\ file[k].seq = k /\ file[k].hash = Hash(file[k].prev, file[k])
         /\ k # 1 => file[k].prev = file[k - 1].hash
         /\ file[k].body # Forged
  <2>1. ASSUME NEW k \in 1..Len(file)
        PROVE  Fits(file, k) /\ IsRecord(file[k]) /\ file[k].body # Forged
    <3>1. Fits(file, k)
      BY <1>3 DEF Chained
    <3>2. file[k].body \in 1..made /\ made \in Nat
      BY <1>3, <3>1 DEF Sealed, Fits, Older, TypeInv, TypeOK
    <3>3. QED
      BY <3>1, <3>2 DEF Forged, TypeInv, FileTypes, LineTypes
  <2>2. QED
    BY <2>1 DEF Fits
<1>5. PICK i \in 1..Len(file) :
         \/ file' = [file EXCEPT ![i].body = Forged]
         \/ i < Len(file) /\ file' = [file EXCEPT ![i] = Record(file[i].seq, Forged, file[i].prev)]
         \/ i < Len(file) /\ file' = Without(i)
         \/ i < Len(file) /\ file' = [file EXCEPT ![i] = file[i + 1], ![i + 1] = file[i]]
  BY DEF Tamper
<1>6. i < Len(file) => i + 1 \in 1..Len(file)
  BY <1>2
<1>7. CASE file' = [file EXCEPT ![i].body = Forged]
  <2>1. file[i] = [seq |-> file[i].seq, body |-> file[i].body, prev |-> file[i].prev,
                   hash |-> file[i].hash]
    BY <1>4 DEF IsRecord
  <2>2. /\ file'[i].body = Forged /\ file'[i].hash = file[i].hash /\ Len(file') = Len(file)
    BY <1>2, <1>7, <2>1
  <2>3. file[i].hash[3] # Forged /\ Hash(file'[i].prev, file'[i])[3] = Forged
    BY <1>4, <2>2 DEF Hash
  <2>4. ~Fits(file', i)
    BY <2>2, <2>3 DEF Fits
  <2>5. QED
    BY <2>2, <2>4 DEF Misfit
<1>8. CASE i < Len(file) /\ file' = [file EXCEPT ![i] = Record(file[i].seq, Forged, file[i].prev)]
  <2>1. /\ Len(file') = Len(file) /\ file'[i] = Record(file[i].seq, Forged, file[i].prev)
        /\ file'[i + 1] = file[i + 1] /\ i + 1 # 1 /\ (i + 1) - 1 = i
    BY <1>2, <1>6, <1>8
  <2>2. file'[i].hash[3] = Forged
    BY <2>1 DEF Record, Hash
  <2>3. file[i].hash[3] # Forged /\ file[i + 1].prev = file[i].hash
    BY <1>4, <1>6, <1>8, <2>1 DEF Hash
  <2>4. ~Fits(file', i + 1)
    BY <2>1, <2>2, <2>3 DEF Fits
  <2>5. QED
    BY <1>6, <1>8, <2>1, <2>4 DEF Misfit
<1>9. CASE i < Len(file) /\ file' = Without(i)
  <2>1. /\ Len(file') = Len(file) - 1
        /\ \A k \in 1..Len(file) - 1 : file'[k] = IF k < i THEN file[k] ELSE file[k + 1]
    BY <1>2, <1>9, WithoutFacts
  <2>2. i \in 1..Len(file') /\ file'[i].seq = i + 1
    BY <1>2, <1>4, <1>6, <1>9, <2>1
  <2>3. QED
    BY <2>2 DEF Misfit, Fits
<1>10. CASE i < Len(file) /\ file' = [file EXCEPT ![i] = file[i + 1], ![i + 1] = file[i]]
  <2>1. Len(file') = Len(file) /\ file'[i] = file[i + 1]
    BY <1>2, <1>6, <1>10
  <2>2. file'[i].seq = i + 1
    BY <1>4, <1>6, <1>10, <2>1
  <2>3. QED
    BY <2>1, <2>2 DEF Misfit, Fits
<1>11. QED
  BY <1>5, <1>7, <1>8, <1>9, <1>10

LEMMA NextTamper == ASSUME TypeInv, LogInv, PinInv, TamperInv, [Next]_vars PROVE TamperInv'
<1>1. CASE Tamper
  <2>1. CASE tampered' = "truncate"
    BY <2>1 DEF TamperInv
  <2>2. QED
    BY <1>1, <2>1, TamperMisfits DEF TamperInv
<1>2. CASE ~Tamper
  <2>1. /\ tampered' = tampered
        /\ UNCHANGED file \/ \E r : file' = Appended(r)
    BY <1>2 DEF Next, vars, Build, Write, WriteFails, HalfWritten, Link, Crash, Reopen, Pin,
                logVars, memVars, histVars
  <2>2. QED
    BY <2>1, MisfitStays DEF TamperInv
<1>3. QED
  BY <1>1, <1>2

(* An edited, deleted or exchanged line makes verify fail for ever, in     *)
(* every later state: appends, restarts and lost writes do not heal the    *)
(* chain (auditlog.py:5-6, 80-98).                                         *)
THEOREM TamperingAlwaysShows == Spec => []TamperingShows
<1>1. Init => TypeInv /\ LogInv /\ PinInv /\ TamperInv
  BY InitTypes, InitInv, InitPin DEF Init, TamperInv
<1>2. TypeInv /\ LogInv /\ PinInv /\ TamperInv /\ [Next]_vars
      => (TypeInv /\ LogInv /\ PinInv /\ TamperInv)'
  BY NextTypes, NextInv, NextPin, NextTamper
<1>3. TypeInv /\ TamperInv => TamperingShows
  <2>1. SUFFICES ASSUME TypeInv, Misfit(file) PROVE ~Verify(file)
    BY DEF TamperInv, TamperingShows
  <2>2. PICK S : file \in Seq(S)
    BY <2>1 DEF TypeInv, FileTypes, LineTypes
  <2>3. PICK i \in 1..Len(file) : ~Fits(file, i)
    BY <2>1 DEF Misfit
  <2>4. ~LineOk(file, i)
    BY <2>2, <2>3, LineOkIsFits
  <2>5. QED
    BY <2>4 DEF Verify
<1>4. QED
  BY <1>1, <1>2, <1>3, PTL DEF Spec
=============================================================================
