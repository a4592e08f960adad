----------------------------- MODULE WalProofs -----------------------------
(***************************************************************************)
(* Theorems about Wal, for every set of writers and callers, every size    *)
(* limit, batch size and bound.                                            *)
(***************************************************************************)
EXTENDS Wal, FiniteSetTheorems, TLAPS

-----------------------------------------------------------------------------
(* Types. *)

(* The states of readerLoop in which it works for a caller of Flush. *)
Draining == path = "drain" /\ rpc \in {"drain", "flush", "truncate", "write", "reply"}

(* TypeOK is inductive once it is known that the reader serves somebody exactly
   while it drains, and that the drain branch does not wait for the timer of
   the position. *)
TypeInv ==
    /\ TypeOK
    /\ serving # None <=> Draining
    /\ rpc \in {"drain", "reply"} => path = "drain"
    /\ rpc = "posCheck" => path \in {"scan", "idle"}

LEMMA DroppedType ==
    ASSUME TypeOK
    PROVE  Dropped \in base..Len(log)
BY DEF TypeOK, Dropped, HasLine

LEMMA TypeInvInit == Init => TypeInv
<1> SUFFICES ASSUME Init PROVE TypeInv
    OBVIOUS
<1>1. /\ log \in Seq(Payloads)
      /\ Len(log) = 0
    BY DEF Init
<1>2. mark \in [Callers -> 0..Len(log)]
    BY <1>1 DEF Init
<1>3. applied \in [Items -> Nat] /\ fpc \in [Callers -> CallerPCs]
    BY DEF Init, CallerPCs
<1>4. pending \subseteq {it \in Items : InLog(it)}
    BY DEF Init
<1>5. /\ base \in 0..Len(log)
      /\ base + pos <= Len(log)
      /\ Len(log) <= MaxLines
      /\ restarts \in 0..MaxRestarts
    BY <1>1, BoundsAssumption DEF Init
<1>6. TypeOK
    BY <1>1, <1>2, <1>3, <1>4, <1>5 DEF Init, TypeOK, ReaderPCs, Paths
<1> QED
    BY <1>6 DEF Init, TypeInv, Draining

LEMMA ReaderKeepsTypes == ASSUME TypeInv, Reader PROVE TypeInv'
<1> USE DEF disk, append, reader, shared
<1>1. CASE TopClosed
    BY <1>1 DEF TopClosed, TypeInv, TypeOK, Draining, ReaderPCs, Paths, InLog
<1>2. CASE TopOpen
    BY <1>2 DEF TopOpen, TypeInv, TypeOK, Draining, ReaderPCs, Paths, InLog
<1>3. CASE SelectFlush
    BY <1>3, CallersAssumption
    DEF SelectFlush, TypeInv, TypeOK, Draining, ReaderPCs, Paths, InLog
<1>4. CASE SelectDefault
    BY <1>4 DEF SelectDefault, TypeInv, TypeOK, Draining, ReaderPCs, Paths, InLog
<1>5. TakeLine /\ UNCHANGED <<log, base>> =>
          /\ pos' \in Nat
          /\ base' + pos' <= Len(log')
          /\ pending' \subseteq {it \in Items : InLog(it)}'
  <2> SUFFICES ASSUME TakeLine, UNCHANGED <<log, base>>
               PROVE  /\ pos' \in Nat
                      /\ base' + pos' <= Len(log')
                      /\ pending' \subseteq {it \in Items : InLog(it)}'
      OBVIOUS
  <2>1. NextLine \in 1..Len(log)
      BY DEF TakeLine, HasLine, NextLine, TypeInv, TypeOK
  <2>2. log[NextLine].kinds \subseteq Kinds
    <3>1. log[NextLine] \in [run : Runs, kinds : LineShapes]
        BY <2>1, PayloadsAssumption DEF TypeInv, TypeOK
    <3> QED
        BY <3>1 DEF LineShapes, Kinds
  <2>3. ItemsOf(NextLine) \subseteq {it \in Items : InLog(it)}
      BY <2>1, <2>2, BoundsAssumption DEF ItemsOf, Items, InLog, TypeInv, TypeOK
  <2> QED
      BY <2>3 DEF TakeLine, HasLine, TypeInv, TypeOK, InLog
<1>6. CASE ScanLine
    BY <1>5, <1>6 DEF ScanLine, TypeInv, TypeOK, Draining, ReaderPCs, Paths
<1>7. CASE ScanEOF
    BY <1>7 DEF ScanEOF, TypeInv, TypeOK, Draining, ReaderPCs, Paths, InLog
<1>8. CASE DrainLine
    BY <1>5, <1>8 DEF DrainLine, TypeInv, TypeOK, Draining, ReaderPCs, Paths
<1>9. CASE DrainEOF
    BY <1>9 DEF DrainEOF, TypeInv, TypeOK, Draining, ReaderPCs, Paths, InLog
<1>10. ASSUME NEW S \in ReadyGroups, FlushGroup(S) PROVE TypeInv'
  <2>1. applied' \in [Items -> Nat]
      BY <1>10 DEF FlushGroup, TypeInv, TypeOK
  <2> QED
      BY <1>10, <2>1 DEF FlushGroup, TypeInv, TypeOK, Draining, InLog
<1>11. ASSUME NEW S \in ReadyGroups, DropGroup(S) PROVE TypeInv'
    BY <1>11 DEF DropGroup, TypeInv, TypeOK, Draining, InLog
<1>12. CASE FlushDone
    BY <1>12 DEF FlushDone, AfterFlush, TypeInv, TypeOK, Draining, ReaderPCs, Paths, InLog
<1>13. CASE PosDue
    BY <1>13 DEF PosDue, TypeInv, TypeOK, Draining, ReaderPCs, Paths, InLog
<1>14. CASE PosNotDue
    BY <1>14 DEF PosNotDue, TypeInv, TypeOK, Draining, ReaderPCs, Paths, InLog
<1>15. CASE TruncatePos
    BY <1>15 DEF TruncatePos, TypeInv, TypeOK, Draining, ReaderPCs, Paths, InLog
<1>16. CASE WritePos
    BY <1>16 DEF WritePos, SavedPos, AfterSave, TypeInv, TypeOK, Draining, ReaderPCs, Paths, InLog
<1>17. CASE CompactSkip
    BY <1>17 DEF CompactSkip, TypeInv, TypeOK, Draining, ReaderPCs, Paths, InLog
<1>18. CASE Compact
    BY <1>18, DroppedType
    DEF Compact, WorthCompacting, TypeInv, TypeOK, Draining, ReaderPCs, Paths, InLog
<1>19. CASE CompactRenameFails
    BY <1>19
    DEF CompactRenameFails, WorthCompacting, TypeInv, TypeOK, Draining, ReaderPCs, Paths, InLog
<1>20. CASE CompactReopenFails
  <2>1. base' \in 0..Len(log') /\ ~wopen'
      BY <1>20, DroppedType DEF CompactReopenFails, TypeInv, TypeOK
  <2> QED
      BY <1>20, <2>1
      DEF CompactReopenFails, WorthCompacting, TypeInv, TypeOK, Draining, ReaderPCs, InLog
<1>21. CASE Reply
    BY <1>21 DEF Reply, TypeInv, TypeOK, Draining, ReaderPCs, Paths, CallerPCs, InLog
<1> QED
    BY <1>1, <1>2, <1>3, <1>4, <1>6, <1>7, <1>8, <1>9, <1>10, <1>11, <1>12, <1>13, <1>14,
       <1>15, <1>16, <1>17, <1>18, <1>19, <1>20, <1>21
    DEF Reader, LoopHead, Scanning, Flushing, Saving, Compacting

LEMMA AppendKeepsTypes == ASSUME TypeInv, Appending PROVE TypeInv'
<1> USE DEF disk, append, reader, shared
<1>1. PICK w \in Writers :
          \/ \E p \in Payloads : AppendNow(w, p)
          \/ AppendSlow(w)
          \/ \E p \in Payloads : AppendResume(w, p)
          \/ AppendResumeFails(w)
    BY DEF Appending
<1>2. ASSUME NEW p \in Payloads, AppendNow(w, p) \/ AppendResume(w, p)
      PROVE  TypeInv'
  <2>1. /\ log' = Append(log, p)
        /\ Len(log) < MaxLines
        /\ size' = size + 1
        /\ slowed' \subseteq slowed
        /\ UNCHANGED <<base, posFile, applied, wopen, reader, shared, mark, restarts, torn>>
      BY <1>2 DEF AppendNow, AppendResume, WriteLine
  <2>2. /\ log' \in Seq(Payloads)
        /\ Len(log') = Len(log) + 1
        /\ \A i \in 1..Len(log) : log'[i] = log[i]
      BY <2>1 DEF TypeInv, TypeOK
  <2>3. pending' \subseteq {it \in Items : InLog(it)}'
    <3> SUFFICES ASSUME NEW it \in pending PROVE it \in Items /\ InLog(it)'
        BY <2>1
    <3>1. it \in Items /\ InLog(it) /\ it[1] \in 1..Len(log)
        BY BoundsAssumption DEF TypeInv, TypeOK, InLog, Items
    <3> QED
        BY <2>1, <2>2, <3>1 DEF TypeInv, TypeOK, InLog
  <2>4. mark' \in [Callers -> 0..Len(log')]
      BY <2>1, <2>2 DEF TypeInv, TypeOK
  <2>5. /\ Len(log') <= MaxLines
        /\ base' \in 0..Len(log')
        /\ wopen' => base' + pos' <= Len(log')
      BY <2>1, <2>2, BoundsAssumption DEF TypeInv, TypeOK
  <2> QED
      BY <2>1, <2>2, <2>3, <2>4, <2>5 DEF TypeInv, TypeOK, Draining
<1>3. CASE AppendSlow(w)
    BY <1>3 DEF AppendSlow, TypeInv, TypeOK, Draining, InLog
<1>4. CASE AppendResumeFails(w)
    BY <1>4 DEF AppendResumeFails, TypeInv, TypeOK, Draining, InLog
<1> QED
    BY <1>1, <1>2, <1>3, <1>4

LEMMA CallsKeepTypes == ASSUME TypeInv, Calling PROVE TypeInv'
<1> USE DEF disk, append, reader, shared
<1>1. PICK c \in Callers :
          Call(c) \/ Send(c) \/ Return(c) \/ CloseMark(c) \/ CloseFile(c)
    BY DEF Calling
<1>2. CASE Call(c)
  <2>1. mark' \in [Callers -> 0..Len(log)] /\ fpc' \in [Callers -> CallerPCs]
      BY <1>2 DEF Call, TypeInv, TypeOK, CallerPCs
  <2> QED
      BY <1>2, <2>1 DEF Call, TypeInv, TypeOK, Draining, InLog
<1>3. CASE Send(c)
    BY <1>3 DEF Send, TypeInv, TypeOK, Draining, CallerPCs, InLog
<1>4. CASE Return(c)
    BY <1>4 DEF Return, TypeInv, TypeOK, Draining, CallerPCs, InLog
<1>5. CASE CloseMark(c)
    BY <1>5 DEF CloseMark, TypeInv, TypeOK, Draining, CallerPCs, InLog
<1>6. CASE CloseFile(c)
    BY <1>6 DEF CloseFile, TypeInv, TypeOK, Draining, CallerPCs, InLog
<1> QED
    BY <1>1, <1>2, <1>3, <1>4, <1>5, <1>6

LEMMA RestartKeepsTypes == ASSUME TypeInv, Restart PROVE TypeInv'
<1>1. /\ size' \in Nat
      /\ pos' \in Nat
      /\ base' + pos' <= Len(log')
      /\ restarts' \in 0..MaxRestarts
    BY BoundsAssumption DEF Restart, RestoredPos, FileLen, TypeInv, TypeOK, disk
<1>2. mark' \in [Callers -> 0..Len(log')] /\ fpc' \in [Callers -> CallerPCs]
    BY DEF Restart, TypeInv, TypeOK, CallerPCs, disk
<1> QED
    BY <1>1, <1>2 DEF Restart, TypeInv, TypeOK, Draining, ReaderPCs, Paths, disk

LEMMA TypeInvStep == TypeInv /\ [Next]_vars => TypeInv'
<1> SUFFICES ASSUME TypeInv, [Next]_vars PROVE TypeInv'
    OBVIOUS
<1>1. CASE UNCHANGED vars
    BY <1>1 DEF vars, disk, append, reader, shared, TypeInv, TypeOK, Draining, InLog
<1> QED
    BY <1>1, ReaderKeepsTypes, AppendKeepsTypes, CallsKeepTypes, RestartKeepsTypes DEF Next

LEMMA TypeInvHolds == Spec => []TypeInv
BY TypeInvInit, TypeInvStep, PTL DEF Spec

(* In every reachable state the variables have their types, and the read
   position lies inside the file as long as the file is open. *)
THEOREM TypeCorrect == Spec => []TypeOK
<1>1. TypeInv => TypeOK
    BY DEF TypeInv
<1> QED
    BY <1>1, TypeInvHolds, PTL

-----------------------------------------------------------------------------
(* Back-pressure. *)

(* The size bound is inductive when the writers asleep are counted with the
   lines: each of them will write one without looking at the size again.
   FileLen is there because a restart takes the size from the file. *)
SizeInv ==
    /\ FileLen <= size
    /\ size + Cardinality(slowed) < MaxSize + Cardinality(Writers)

LEMMA SlowedCount ==
    ASSUME NEW S, S \subseteq Writers
    PROVE  /\ IsFiniteSet(S)
           /\ Cardinality(S) \in Nat
           /\ Cardinality(S) <= Cardinality(Writers)
           /\ \A w \in Writers \ S :
                 /\ Cardinality(S \cup {w}) = Cardinality(S) + 1
                 /\ Cardinality(S) < Cardinality(Writers)
           /\ \A w \in S : Cardinality(S \ {w}) = Cardinality(S) - 1
<1>1. /\ IsFiniteSet(S)
      /\ Cardinality(S) <= Cardinality(Writers)
      /\ Cardinality(S) \in Nat
    BY WritersAssumption, FS_Subset, FS_CardinalityType
<1>2. ASSUME NEW w \in Writers \ S
      PROVE  /\ Cardinality(S \cup {w}) = Cardinality(S) + 1
             /\ Cardinality(S) < Cardinality(Writers)
  <2>1. Cardinality(S \cup {w}) = Cardinality(S) + 1
      BY <1>1, FS_AddElement
  <2>2. Cardinality(S \cup {w}) <= Cardinality(Writers)
      BY WritersAssumption, FS_Subset
  <2>3. Cardinality(Writers) \in Nat
      BY WritersAssumption, FS_CardinalityType
  <2> QED
      BY <1>1, <2>1, <2>2, <2>3
<1>3. ASSUME NEW w \in S PROVE Cardinality(S \ {w}) = Cardinality(S) - 1
    BY <1>1, FS_RemoveElement
<1> QED
    BY <1>1, <1>2, <1>3

LEMMA SizeInvInit == Init => SizeInv
<1> SUFFICES ASSUME Init PROVE SizeInv
    OBVIOUS
<1>1. Cardinality(slowed) = 0 /\ Cardinality(Writers) \in Nat
    BY WritersAssumption, FS_EmptySet, FS_CardinalityType DEF Init
<1>2. Len(log) = 0
    BY DEF Init
<1> QED
    BY <1>1, <1>2, SizesAssumption DEF Init, SizeInv, FileLen

LEMMA SizeInvStep == TypeInv /\ SizeInv /\ [Next]_vars => SizeInv'
<1> SUFFICES ASSUME TypeInv, SizeInv, [Next]_vars PROVE SizeInv'
    OBVIOUS
<1> USE SizesAssumption
<1>1. Cardinality(slowed) \in Nat /\ Cardinality(Writers) \in Nat
    BY SlowedCount, WritersAssumption, FS_CardinalityType DEF TypeInv, TypeOK
<1>2. UNCHANGED <<log, base, size, slowed>> => SizeInv'
    BY DEF SizeInv, FileLen
<1>3. ASSUME NEW w \in Writers, NEW p \in Payloads, AppendNow(w, p) PROVE SizeInv'
  <2>1. Len(log') = Len(log) + 1 /\ base' = base /\ slowed' = slowed /\ size' = size + 1
      BY <1>3 DEF AppendNow, WriteLine, TypeInv, TypeOK
  <2>2. size < SoftSize /\ w \in Writers \ slowed
      BY <1>3 DEF AppendNow, AdmitAtOnce
  <2>3. Cardinality(slowed) < Cardinality(Writers)
      BY <2>2, SlowedCount DEF TypeInv, TypeOK
  <2> QED
      BY <1>1, <2>1, <2>2, <2>3 DEF SizeInv, FileLen, TypeInv, TypeOK
<1>4. ASSUME NEW w \in Writers, AppendSlow(w) PROVE SizeInv'
  <2>1. size < MaxSize /\ w \in Writers \ slowed /\ slowed' = slowed \cup {w}
      BY <1>4 DEF AppendSlow, AdmitSlowly
  <2>2. UNCHANGED <<log, base, size>>
      BY <1>4 DEF AppendSlow, disk
  <2>3. /\ Cardinality(slowed') <= Cardinality(Writers)
        /\ Cardinality(slowed') \in Nat
      BY <2>1, SlowedCount DEF TypeInv, TypeOK
  <2> QED
      BY <1>1, <2>1, <2>2, <2>3 DEF SizeInv, FileLen, TypeInv, TypeOK
<1>5. ASSUME NEW w \in Writers, NEW p \in Payloads, AppendResume(w, p) PROVE SizeInv'
  <2>1. /\ Len(log') = Len(log) + 1
        /\ base' = base
        /\ w \in slowed
        /\ slowed' = slowed \ {w}
        /\ size' = size + 1
      BY <1>5 DEF AppendResume, WriteLine, TypeInv, TypeOK
  <2>2. Cardinality(slowed') = Cardinality(slowed) - 1
      BY <2>1, SlowedCount DEF TypeInv, TypeOK
  <2> QED
      BY <1>1, <2>1, <2>2 DEF SizeInv, FileLen, TypeInv, TypeOK
<1>6. ASSUME NEW w \in Writers, AppendResumeFails(w) PROVE SizeInv'
  <2>1. w \in slowed /\ slowed' = slowed \ {w} /\ UNCHANGED <<log, base, size>>
      BY <1>6 DEF AppendResumeFails, disk
  <2>2. Cardinality(slowed') = Cardinality(slowed) - 1
      BY <2>1, SlowedCount DEF TypeInv, TypeOK
  <2> QED
      BY <1>1, <2>1, <2>2 DEF SizeInv, FileLen, TypeInv, TypeOK
<1>7. CASE Compact \/ CompactReopenFails
  <2>1. UNCHANGED <<log, slowed>> /\ base' = Dropped
      BY <1>7 DEF Compact, CompactReopenFails
  <2>2. size' = Len(log) - Dropped \/ size' = size
      BY <1>7 DEF Compact, CompactReopenFails
  <2>3. Dropped \in base..Len(log)
      BY DroppedType DEF TypeInv
  <2> QED
      BY <1>1, <2>1, <2>2, <2>3 DEF SizeInv, FileLen, TypeInv, TypeOK
<1>8. CASE Restart
  <2>1. size' = FileLen /\ UNCHANGED <<log, base>> /\ Cardinality(slowed') = 0
      BY <1>8, FS_EmptySet DEF Restart, disk
  <2> QED
      BY <1>1, <2>1 DEF SizeInv, FileLen, TypeInv, TypeOK
<1>9. CASE UNCHANGED vars
    BY <1>2, <1>9 DEF vars, disk, append
<1>10. ASSUME LoopHead \/ Scanning \/ Flushing \/ Saving \/ Reply
                 \/ CompactSkip \/ CompactRenameFails
       PROVE  UNCHANGED <<log, base, size, slowed>>
    BY <1>10
    DEF LoopHead, Scanning, Flushing, Saving, TopClosed, TopOpen, SelectFlush,
        SelectDefault, ScanLine, ScanEOF, DrainLine, DrainEOF, FlushGroup, DropGroup,
        FlushDone, PosDue, PosNotDue, TruncatePos, WritePos, Reply, CompactSkip,
        CompactRenameFails, disk, append
<1>11. Calling => UNCHANGED <<log, base, size, slowed>>
    BY DEF Calling, Call, Send, Return, CloseMark, CloseFile, disk, append
<1> QED
    BY <1>2, <1>3, <1>4, <1>5, <1>6, <1>7, <1>8, <1>9, <1>10, <1>11
    DEF Next, Reader, Compacting, Appending

(* The file may pass walMaxSize, but by less than one line for each writer,
   whatever the writers, compaction, crashes and failures do: the decision of
   Append that is stale after its sleep (wal.go:131-143) costs no more. *)
THEOREM SizeBounded == Spec => []SizeBound
<1>1. TypeInv /\ SizeInv => SizeBound
  <2>1. TypeInv => Cardinality(slowed) \in Nat
      BY SlowedCount DEF TypeInv, TypeOK
  <2>2. Cardinality(Writers) \in Nat
      BY WritersAssumption, FS_CardinalityType
  <2> QED
      BY <2>1, <2>2, SizesAssumption DEF SizeInv, SizeBound, TypeInv, TypeOK
<1> QED
    BY <1>1, SizeInvInit, SizeInvStep, TypeInvHolds, PTL DEF Spec

-----------------------------------------------------------------------------
(* A line is written at most once in each life of the server. *)

(* An item that is still to be read or still in the batch has not been written
   in this life; and the batch holds only what has been read. *)
OnceInv ==
    /\ \A it \in Items :
          /\ applied[it] <= restarts + 1
          /\ ~Read(it) \/ it \in pending => applied[it] <= restarts
          /\ it[1] > Len(log) => applied[it] = 0
    /\ \A it \in pending : Read(it)

LEMMA OnceInvInit == Init => OnceInv
BY DEF Init, OnceInv

LEMMA PendingType ==
    ASSUME TypeInv, NEW it \in pending
    PROVE  /\ it \in Items
           /\ it[1] \in 1..Len(log)
           /\ it[2] \in Kinds
           /\ it[2] \in log[it[1]].kinds
BY BoundsAssumption DEF TypeInv, TypeOK, InLog, Items

LEMMA GroupInBatch ==
    ASSUME NEW S \in ReadyGroups
    PROVE  S # {} /\ S \subseteq pending
BY DEF ReadyGroups, Group

LEMMA OnceInvStep == TypeInv /\ OnceInv /\ [Next]_vars => OnceInv'
<1> SUFFICES ASSUME TypeInv, OnceInv, [Next]_vars PROVE OnceInv'
    OBVIOUS
<1>1. UNCHANGED <<applied, restarts, log, base, pos, pending>> => OnceInv'
    BY DEF OnceInv, Read
<1>2. \A it \in Items : it[1] \in Nat /\ applied[it] \in Nat
    BY BoundsAssumption DEF Items, TypeInv, TypeOK
<1>3. ASSUME NEW p \in Payloads, NEW w \in Writers, AppendNow(w, p) \/ AppendResume(w, p)
      PROVE  OnceInv'
  <2>1. UNCHANGED <<applied, restarts, base, pos, pending>> /\ Len(log') = Len(log) + 1
      BY <1>3 DEF AppendNow, AppendResume, WriteLine, TypeInv, TypeOK, reader
  <2> QED
      BY <1>2, <2>1 DEF OnceInv, Read, TypeInv, TypeOK
<1>4. CASE ScanLine \/ DrainLine
  <2>1. /\ UNCHANGED <<applied, restarts, log, base>>
        /\ pos' = pos + 1
        /\ pending' = pending \cup ItemsOf(NextLine)
      BY <1>4 DEF ScanLine, DrainLine, TakeLine, disk
  <2>2. \A it \in ItemsOf(NextLine) : it[1] = base + pos + 1
      BY DEF ItemsOf, NextLine
  <2> QED
      BY <1>2, <2>1, <2>2 DEF OnceInv, Read, TypeInv, TypeOK
<1>5. ASSUME NEW S \in ReadyGroups, FlushGroup(S) PROVE OnceInv'
  <2>1. /\ UNCHANGED <<restarts, log, base, pos>>
        /\ pending' = pending \ S
        /\ \A it \in Items : applied'[it] = applied[it] + IF it \in S THEN 1 ELSE 0
      BY <1>5 DEF FlushGroup
  <2>2. \A it \in S : it \in pending /\ it[1] <= Len(log)
      BY GroupInBatch, PendingType
  <2> QED
      BY <1>2, <2>1, <2>2 DEF OnceInv, Read, TypeInv, TypeOK
<1>6. ASSUME NEW S \in ReadyGroups, DropGroup(S) PROVE OnceInv'
    BY <1>6 DEF DropGroup, OnceInv, Read, disk
<1>7. CASE Compact \/ CompactReopenFails
  <2>1. UNCHANGED <<applied, restarts, log, pending>> /\ base' = Dropped
      BY <1>7 DEF Compact, CompactReopenFails
  <2>2. pos' = 0 \/ pos' = pos
      BY <1>7 DEF Compact, CompactReopenFails
  <2>3. base' + pos' >= base + pos \/ base' + pos' = Len(log)
      BY <2>1, <2>2, <1>7 DEF Dropped, HasLine, Compact, CompactReopenFails, TypeInv, TypeOK
  <2>4. \A it \in pending : it[1] <= Len(log)
      BY PendingType
  <2>5. base \in Nat /\ pos \in Nat /\ base' \in Nat /\ pos' \in Nat /\ Len(log) \in Nat
      BY <2>1, <2>2, DroppedType DEF TypeInv, TypeOK
  <2>6. ASSUME NEW it \in Items
        PROVE  /\ applied'[it] <= restarts' + 1
               /\ ~Read(it)' \/ it \in pending' => applied'[it] <= restarts'
               /\ it[1] > Len(log') => applied'[it] = 0
    <3>1. CASE it[1] > Len(log)
        BY <1>2, <2>1, <3>1 DEF OnceInv, TypeInv, TypeOK
    <3>2. CASE it[1] <= Len(log)
        BY <1>2, <2>1, <2>3, <2>5, <3>2 DEF OnceInv, Read
    <3> QED
        BY <1>2, <2>5, <3>1, <3>2
  <2>7. \A it \in pending' : Read(it)'
      BY <1>2, <2>1, <2>3, <2>4, <2>5, PendingType DEF OnceInv, Read
  <2> QED
      BY <2>6, <2>7 DEF OnceInv
<1>8. CASE Restart
  <2>1. UNCHANGED <<applied, log>> /\ restarts' = restarts + 1 /\ pending' = {}
      BY <1>8 DEF Restart, disk
  <2> QED
      BY <1>2, <2>1 DEF OnceInv, TypeInv, TypeOK
<1>9. CASE UNCHANGED vars
    BY <1>1, <1>9 DEF vars, disk, reader
<1>10. ASSUME \/ LoopHead \/ ScanEOF \/ DrainEOF \/ FlushDone \/ Saving \/ Reply
              \/ CompactSkip \/ CompactRenameFails
       PROVE  UNCHANGED <<applied, restarts, log, base, pos, pending>>
    BY <1>10
    DEF LoopHead, Saving, TopClosed, TopOpen, SelectFlush, SelectDefault, ScanEOF,
        DrainEOF, FlushDone, PosDue, PosNotDue, TruncatePos, WritePos, Reply, CompactSkip,
        CompactRenameFails, disk
<1>11. ASSUME NEW w \in Writers, AppendSlow(w) \/ AppendResumeFails(w)
       PROVE  UNCHANGED <<applied, restarts, log, base, pos, pending>>
    BY <1>11 DEF AppendSlow, AppendResumeFails, disk, reader
<1>12. Calling => UNCHANGED <<applied, restarts, log, base, pos, pending>>
    BY DEF Calling, Call, Send, Return, CloseMark, CloseFile, disk, reader
<1> QED
    BY <1>1, <1>3, <1>4, <1>5, <1>6, <1>7, <1>8, <1>9, <1>10, <1>11, <1>12
    DEF Next, Reader, Scanning, Flushing, Compacting, Appending

LEMMA OnceInvHolds == Spec => []OnceInv
BY OnceInvInit, OnceInvStep, TypeInvHolds, PTL DEF Spec

(* Replays after crashes apart, no line is written twice, whatever fails:
   processing, draining and compaction neither repeat a batch nor go back in
   the log (wal.go:201-300, 398-457). *)
THEOREM AppliedOnce == Spec => []AppliedOncePerLife
<1>1. OnceInv => AppliedOncePerLife
    BY DEF OnceInv, AppliedOncePerLife
<1> QED
    BY <1>1, OnceInvHolds, PTL

-----------------------------------------------------------------------------
(* Flush is a barrier. *)

Returned == {"done", "closing", "closed"}

(* Line i and all before it have been read and have left the batch. *)
Handed(i) == i <= base + pos /\ \A it \in pending : i < it[1]

(* The caller being served is the one that waits, and nobody else's channel is
   confused with its own; once the drain branch has met the end of the file
   its caller's lines have been read, and after the flush they are handed. *)
BarrierInv ==
    /\ \A it \in pending : Read(it)
    /\ chan # None => fpc[chan] = "wait" /\ chan # serving
    /\ serving # None => fpc[serving] = "wait"
    /\ Draining /\ rpc # "drain" => mark[serving] <= base + pos
    /\ Draining /\ rpc \in {"truncate", "write", "reply"} => pending = {}
    /\ \A c \in Callers : fpc[c] \in Returned => Handed(mark[c])

LEMMA BarrierInvInit == Init => BarrierInv
BY DEF Init, BarrierInv, Returned, Draining

(* Neither appends nor compaction take back what was handed over. *)
LEMMA HandedStays ==
    ASSUME TypeInv, Compact \/ CompactReopenFails, NEW i \in 0..Len(log)
    PROVE  /\ i <= base + pos => i <= base' + pos'
           /\ pending' = pending
<1>1. base' = Dropped /\ pending' = pending /\ (pos' = 0 \/ pos' = pos)
    BY DEF Compact, CompactReopenFails
<1>2. base' \in Nat /\ base' + pos' \in Nat
    BY <1>1, DroppedType DEF TypeInv, TypeOK
<1>3. base' + pos' >= base + pos \/ base' + pos' >= Len(log)
    BY <1>1 DEF Dropped, HasLine, Compact, CompactReopenFails, TypeInv, TypeOK
<1> QED
    BY <1>1, <1>2, <1>3 DEF TypeInv, TypeOK

LEMMA BarrierInvStep == TypeInv /\ BarrierInv /\ [Next]_vars => BarrierInv'
<1> SUFFICES ASSUME TypeInv, BarrierInv, [Next]_vars PROVE BarrierInv'
    OBVIOUS
<1> USE DEF Returned
<1>1. /\ \A c \in Callers : mark[c] \in 0..Len(log) /\ fpc[c] \in CallerPCs
      /\ \A it \in pending : it[1] \in 1..Len(log)
      /\ Draining => serving \in Callers
    BY PendingType DEF TypeInv, TypeOK
<1>2. ASSUME UNCHANGED <<base, pos, pending, serving, path, rpc, shared, mark>>
      PROVE  BarrierInv'
    BY <1>2 DEF BarrierInv, Read, Handed, Draining, shared
<1>3. Appending => UNCHANGED <<base, pos, pending, serving, path, rpc, shared, mark>>
    BY DEF Appending, AppendNow, AppendSlow, AppendResume, AppendResumeFails, WriteLine,
           disk, reader
<1>4. CASE LoopHead
    BY <1>1, <1>4
    DEF LoopHead, TopClosed, TopOpen, SelectFlush, SelectDefault, BarrierInv, Read, Handed,
        Draining, TypeInv, disk, shared
<1>5. CASE ScanLine \/ DrainLine
  <2>1. /\ UNCHANGED <<log, base, serving, chan, fpc, mark>>
        /\ pos' = pos + 1
        /\ pending' = pending \cup ItemsOf(NextLine)
        /\ ~Draining' \/ rpc' = "drain"
      BY <1>5 DEF ScanLine, DrainLine, TakeLine, disk, shared, Draining
  <2>2. \A it \in ItemsOf(NextLine) : it[1] = base + pos + 1
      BY DEF ItemsOf, NextLine
  <2>3. \A it \in pending' : Read(it)'
      BY <1>1, <2>1, <2>2 DEF BarrierInv, Read, TypeInv, TypeOK
  <2>4. \A c \in Callers : fpc'[c] \in Returned => Handed(mark[c])'
      BY <1>1, <2>1, <2>2 DEF BarrierInv, Handed, TypeInv, TypeOK
  <2> QED
      BY <2>1, <2>3, <2>4 DEF BarrierInv, Draining
<1>6. CASE ScanEOF \/ DrainEOF
  <2>1. /\ UNCHANGED <<log, base, pos, pending, serving, chan, fpc, mark>>
        /\ Len(log) <= base + pos
        /\ rpc' = "flush"
        /\ path' = "drain" => Draining
      BY <1>6
      DEF ScanEOF, DrainEOF, HasLine, disk, shared, Draining, TypeInv, TypeOK
  <2> QED
      BY <1>1, <2>1 DEF BarrierInv, Read, Handed, Draining, TypeInv, TypeOK
<1>7. ASSUME NEW S \in ReadyGroups, FlushGroup(S) \/ DropGroup(S) PROVE BarrierInv'
  <2>1. /\ UNCHANGED <<base, pos, rpc, path, serving, chan, fpc, mark>>
        /\ rpc = "flush"
        /\ pending' \subseteq pending
      BY <1>7 DEF FlushGroup, DropGroup, disk, shared
  <2> QED
      BY <1>1, <2>1 DEF BarrierInv, Read, Handed, Draining
<1>8. CASE FlushDone
    BY <1>1, <1>8
    DEF FlushDone, AfterFlush, BarrierInv, Read, Handed, Draining, disk, shared
<1>9. CASE Saving
    BY <1>1, <1>9
    DEF Saving, PosDue, PosNotDue, TruncatePos, WritePos, AfterSave, BarrierInv, Read,
        Handed, Draining, TypeInv, disk, shared
<1>10. CASE Compact \/ CompactReopenFails
  <2>1. UNCHANGED <<log, serving, chan, fpc, mark, pending>> /\ ~Draining'
      BY <1>10 DEF Compact, CompactReopenFails, WorthCompacting, shared, Draining
  <2>2. \A it \in pending' : Read(it)'
      BY <1>1, <1>10, <2>1, HandedStays DEF BarrierInv, Read
  <2>3. \A c \in Callers : fpc'[c] \in Returned => Handed(mark[c])'
      BY <1>1, <1>10, <2>1, HandedStays DEF BarrierInv, Handed
  <2> QED
      BY <2>1, <2>2, <2>3 DEF BarrierInv
<1>11. CASE CompactSkip \/ CompactRenameFails
    BY <1>1, <1>11
    DEF CompactSkip, CompactRenameFails, WorthCompacting, BarrierInv, Read, Handed,
        Draining, disk, shared
<1>12. CASE Reply
    BY <1>1, <1>12 DEF Reply, BarrierInv, Read, Handed, Draining, TypeInv, TypeOK, disk
<1>13. ASSUME NEW c \in Callers, Call(c) \/ Send(c) PROVE BarrierInv'
  <2>1. UNCHANGED <<base, pos, pending, rpc, path, serving>>
      BY <1>13 DEF Call, Send, disk, reader
  <2>2. /\ fpc' = [fpc EXCEPT ![c] = fpc'[c]]
        /\ fpc[c] \in {"idle", "send"}
        /\ fpc'[c] \in {"send", "wait"}
      BY <1>13 DEF Call, Send, TypeInv, TypeOK
  <2>3. \A d \in Callers : d # c => mark'[d] = mark[d]
      BY <1>13 DEF Call, Send, TypeInv, TypeOK
  <2>4. serving # c
      BY <2>2, CallersAssumption DEF BarrierInv, TypeInv, TypeOK
  <2>5. chan' # None => fpc'[chan'] = "wait" /\ chan' # serving'
      BY <1>13, <2>1, <2>2, <2>4 DEF Call, Send, BarrierInv, TypeInv, TypeOK
  <2>6. serving' # None => fpc'[serving'] = "wait"
      BY <2>1, <2>2, <2>4 DEF BarrierInv, TypeInv, TypeOK
  <2>7. \A d \in Callers : fpc'[d] \in Returned => Handed(mark[d])'
      BY <2>1, <2>2, <2>3 DEF BarrierInv, Handed, TypeInv, TypeOK
  <2>8. Draining => mark'[serving] = mark[serving]
      BY <1>1, <2>3, <2>4
  <2> QED
      BY <2>1, <2>5, <2>6, <2>7, <2>8 DEF BarrierInv, Read, Draining
<1>14. ASSUME NEW c \in Callers, Return(c) \/ CloseMark(c) \/ CloseFile(c)
       PROVE  BarrierInv'
  <2>1. UNCHANGED <<base, pos, pending, rpc, path, serving, chan, mark>>
      BY <1>14 DEF Return, CloseMark, CloseFile, disk, reader
  <2>2. /\ fpc' = [fpc EXCEPT ![c] = fpc'[c]]
        /\ fpc[c] \in {"done", "closing"}
      BY <1>14 DEF Return, CloseMark, CloseFile, TypeInv, TypeOK
  <2>3. serving # c /\ chan # c
      BY <2>2, CallersAssumption DEF BarrierInv, TypeInv, TypeOK
  <2>4. \A d \in Callers : fpc'[d] \in Returned => Handed(mark[d])'
      BY <2>1, <2>2 DEF BarrierInv, Handed, TypeInv, TypeOK
  <2> QED
      BY <2>1, <2>2, <2>3, <2>4 DEF BarrierInv, Read, Draining, TypeInv, TypeOK
<1>15. CASE Restart
    BY <1>15 DEF Restart, BarrierInv, Draining
<1>16. CASE UNCHANGED vars
    BY <1>2, <1>16 DEF vars, disk, reader
<1> QED
    BY <1>2, <1>3, <1>4, <1>5, <1>6, <1>7, <1>8, <1>9, <1>10, <1>11, <1>12, <1>13, <1>14,
       <1>15, <1>16
    DEF Next, Reader, Scanning, Flushing, Compacting, Calling

LEMMA BarrierInvHolds == Spec => []BarrierInv
BY BarrierInvInit, BarrierInvStep, TypeInvHolds, PTL DEF Spec

LEMMA BarrierAtReturn == ASSUME TypeInv, BarrierInv PROVE FlushBarrier
<1> SUFFICES ASSUME NEW c \in Callers, fpc[c] \in Returned,
                    NEW it \in Items, it[1] <= mark[c]
             PROVE  Read(it) /\ it \notin pending
    BY DEF FlushBarrier, Returned
<1>1. Handed(mark[c])
    BY DEF BarrierInv
<1>2. it[1] \in Nat /\ mark[c] \in Nat /\ \A jt \in pending : jt[1] \in Nat
    BY PendingType, BoundsAssumption DEF Items, TypeInv, TypeOK
<1> QED
    BY <1>1, <1>2 DEF Handed, Read, TypeInv, TypeOK

(* When Flush returns, no line accepted before it was called is unread or in the
   batch, whatever crashes and failures came before (wal.go:250-261, 363-367). *)
THEOREM FlushIsBarrier == Spec => []FlushBarrier
<1>1. TypeInv /\ BarrierInv => FlushBarrier
    BY BarrierAtReturn
<1> QED
    BY <1>1, BarrierInvHolds, TypeInvHolds, PTL

-----------------------------------------------------------------------------
(* What a restart takes from wal.pos. *)

(* As long as no compaction is torn the saved position is not ahead of the
   reader's, and the reader's lies in the file; while maybeCompact holds the
   lock wal.pos may still be the old file's. *)
PosInv ==
    ~torn => /\ base + pos <= Len(log)
             /\ ~Locked => posFile <= pos

LEMMA PosInvInit == Init => PosInv
BY DEF Init, PosInv

LEMMA PosInvStep == TypeInv /\ PosInv /\ [Next]_vars => PosInv'
<1> SUFFICES ASSUME TypeInv, PosInv, [Next]_vars PROVE PosInv'
    OBVIOUS
<1>1. posFile \in Nat /\ pos \in Nat /\ base \in 0..Len(log) /\ Len(log) \in Nat
    BY DEF TypeInv, TypeOK
<1>2. ASSUME UNCHANGED <<log, base, posFile, pos, path, rpc, torn>> PROVE PosInv'
    BY <1>2 DEF PosInv, Locked
<1>3. Calling \/ UNCHANGED vars => UNCHANGED <<log, base, posFile, pos, path, rpc, torn>>
    BY DEF Calling, Call, Send, Return, CloseMark, CloseFile, vars, disk, reader
<1>4. CASE Appending
  <2>1. /\ UNCHANGED <<base, posFile, pos, path, rpc, torn>>
        /\ Len(log') >= Len(log) /\ Len(log') \in Nat
      BY <1>1, <1>4
      DEF Appending, AppendNow, AppendSlow, AppendResume, AppendResumeFails, WriteLine,
          TypeInv, TypeOK, disk, reader
  <2> QED
      BY <1>1, <2>1 DEF PosInv, Locked
<1>5. CASE LoopHead \/ Scanning \/ CompactSkip \/ CompactRenameFails
                    \/ CompactReopenFails \/ Reply
    BY <1>1, <1>5
    DEF LoopHead, Scanning, TopClosed, TopOpen, SelectFlush, SelectDefault, ScanLine,
        ScanEOF, DrainLine, DrainEOF, TakeLine, HasLine, CompactSkip, CompactRenameFails,
        CompactReopenFails, WorthCompacting, Reply, PosInv, Locked, disk
<1>6. CASE Flushing
    BY <1>1, <1>6 DEF Flushing, FlushGroup, DropGroup, FlushDone, PosInv, Locked, disk
<1>7. CASE Saving
    BY <1>1, <1>7
    DEF Saving, PosDue, PosNotDue, TruncatePos, WritePos, SavedPos, PosInv, Locked, disk
<1>8. CASE Compact
    BY <1>8, DroppedType DEF Compact, PosInv, Locked, TypeInv, TypeOK
<1>9. CASE Restart
  <2>1. /\ UNCHANGED <<log, base, posFile>>
        /\ pos' = RestoredPos
      BY <1>9 DEF Restart, disk
  <2>2. torn \/ Locked => torn'
      BY <1>9 DEF Restart
  <2>3. base + RestoredPos <= Len(log)
      BY <1>1 DEF RestoredPos, FileLen
  <2>4. ~torn /\ ~Locked => RestoredPos = posFile
      BY <1>1 DEF RestoredPos, FileLen, PosInv
  <2> QED
      BY <1>1, <2>1, <2>2, <2>3, <2>4 DEF PosInv
<1> QED
    BY <1>2, <1>3, <1>4, <1>5, <1>6, <1>7, <1>8, <1>9 DEF Next, Reader, Compacting

(* A crash makes the server read lines again, never jump over lines that nobody
   has read, unless it falls into a compaction or another did before. *)
THEOREM RestartSkips == Spec => RestartSkipsOnlyIfTorn
<1>1. TypeInv /\ PosInv /\ [Next]_vars
          => [restarts' # restarts /\ ~torn' => base' + pos' <= base + pos]_vars
  <2> SUFFICES ASSUME TypeInv, PosInv, Next, restarts' # restarts, ~torn'
               PROVE  base' + pos' <= base + pos
      OBVIOUS
  <2>1. Restart
      BY DEF Next, Reader, LoopHead, TopClosed, TopOpen, SelectFlush, SelectDefault,
             Scanning, ScanLine, ScanEOF, DrainLine, DrainEOF, Flushing, FlushGroup,
             DropGroup, FlushDone, Saving, PosDue, PosNotDue, TruncatePos, WritePos,
             Compacting, CompactSkip, Compact, CompactRenameFails, CompactReopenFails,
             Reply, Appending, AppendNow, AppendSlow, AppendResume, AppendResumeFails,
             Calling, Call, Send, Return, CloseMark, CloseFile
  <2>2. base' = base /\ pos' = RestoredPos /\ ~torn /\ ~Locked
      BY <2>1 DEF Restart, disk
  <2> QED
      BY <2>2 DEF PosInv, RestoredPos, TypeInv, TypeOK
<1> QED
    BY <1>1, PosInvInit, PosInvStep, TypeInvHolds, PTL DEF Spec, RestartSkipsOnlyIfTorn

-----------------------------------------------------------------------------
(* Nothing is lost while the server lives and the database takes what it is given:
   a compaction may fail at its rename as often as it likes. *)

OnlyRenames == Faults \subseteq {"rename"}

(* Every item that has been read is in the batch or in the database; and the file
   is closed only in front of the database, so the position lies in it. *)
KeptInv ==
    /\ dbOpen => Lost = {}
    /\ base + pos <= Len(log)
    /\ restarts = 0

LEMMA KeptInvInit == Init => KeptInv
<1> SUFFICES ASSUME Init PROVE KeptInv
    OBVIOUS
<1>1. Len(log) = 0
    BY DEF Init
<1>2. Lost = {}
    BY <1>1, BoundsAssumption DEF Lost, InLog, Items
<1> QED
    BY <1>1, <1>2 DEF Init, KeptInv

(* Lost grows only by an item that is read, dropped or forgotten. *)
LEMMA LostStays ==
    ASSUME Lost = {},
           \A it \in Items : /\ InLog(it)' /\ Read(it)'
                             /\ it \notin pending'
                             /\ applied'[it] = 0
                             => InLog(it) /\ Read(it) /\ it \notin pending /\ applied[it] = 0
    PROVE  Lost' = {}
BY DEF Lost

LEMMA KeptInvStep ==
    ASSUME OnlyRenames, TypeInv, KeptInv, [Next]_vars
    PROVE  KeptInv'
<1>1. \A it \in Items : it[1] \in Nat /\ applied[it] \in Nat
    BY BoundsAssumption DEF Items, TypeInv, TypeOK
<1>2. base + pos <= Len(log) /\ Len(log) \in Nat /\ base \in Nat /\ pos \in Nat
    BY DEF KeptInv, TypeInv, TypeOK
<1>3. ASSUME UNCHANGED <<log, base, pos, pending, applied, restarts>>, dbOpen' => dbOpen
      PROVE  KeptInv'
    BY <1>3 DEF KeptInv, Lost, InLog, Read
<1>4. CASE Appending
  <2>1. PICK w \in Writers :
            \/ \E p \in Payloads : AppendNow(w, p)
            \/ AppendSlow(w)
            \/ \E p \in Payloads : AppendResume(w, p)
            \/ AppendResumeFails(w)
      BY <1>4 DEF Appending
  <2>2. ASSUME NEW p \in Payloads, AppendNow(w, p) \/ AppendResume(w, p)
        PROVE  KeptInv'
    <3>0. /\ UNCHANGED <<base, pos, pending, applied, restarts, dbOpen>>
          /\ log' = Append(log, p)
        BY <2>2 DEF AppendNow, AppendResume, WriteLine, reader, shared
    <3>1. /\ Len(log') = Len(log) + 1
          /\ \A i \in 1..Len(log) : log'[i] = log[i]
        BY <3>0 DEF TypeInv, TypeOK
    <3>2. \A it \in Items : it[1] \in Nat \ {0}
        BY BoundsAssumption DEF Items
    <3>3. ASSUME NEW it \in Items, InLog(it)', Read(it)'
          PROVE  InLog(it) /\ Read(it)
      <4>1. Read(it)
          BY <3>0, <3>3 DEF Read
      <4>2. it[1] \in 1..Len(log)
          BY <1>2, <3>2, <4>1 DEF Read
      <4> QED
          BY <3>1, <3>3, <4>1, <4>2 DEF InLog
    <3>4. dbOpen => Lost' = {}
        BY <3>0, <3>3, LostStays DEF KeptInv
    <3> QED
        BY <1>2, <3>0, <3>1, <3>4 DEF KeptInv
  <2>3. ASSUME AppendSlow(w) \/ AppendResumeFails(w) PROVE KeptInv'
      BY <1>3, <2>3 DEF AppendSlow, AppendResumeFails, disk, reader, shared
  <2> QED
      BY <2>1, <2>2, <2>3
<1>5. CASE ScanLine \/ DrainLine
  <2>1. /\ UNCHANGED <<log, base, applied, dbOpen, restarts>>
        /\ HasLine
        /\ pos' = pos + 1
        /\ pending' = pending \cup ItemsOf(NextLine)
      BY <1>5 DEF ScanLine, DrainLine, TakeLine, disk, append, shared
  <2>2. \A it \in Items : it[1] = NextLine /\ InLog(it) => it \in ItemsOf(NextLine)
      BY DEF Items, ItemsOf, InLog
  <2>3. dbOpen => Lost' = {}
      BY <1>1, <1>2, <2>1, <2>2, LostStays DEF KeptInv, InLog, Read, NextLine
  <2> QED
      BY <1>2, <2>1, <2>3 DEF KeptInv, HasLine
<1>6. ASSUME NEW S \in ReadyGroups, FlushGroup(S) PROVE KeptInv'
  <2>1. /\ UNCHANGED <<log, base, pos, dbOpen, restarts>>
        /\ pending' = pending \ S
        /\ \A it \in Items : applied'[it] = applied[it] + IF it \in S THEN 1 ELSE 0
      BY <1>6 DEF FlushGroup, append, shared
  <2>2. dbOpen => Lost' = {}
      BY <1>1, <2>1, LostStays DEF KeptInv, InLog, Read
  <2> QED
      BY <2>1, <2>2 DEF KeptInv
<1>7. ASSUME NEW S \in ReadyGroups, DropGroup(S) PROVE KeptInv'
  <2>1. ~dbOpen /\ UNCHANGED <<log, base, pos, dbOpen, restarts>>
      BY <1>7 DEF DropGroup, OnlyRenames, disk, shared
  <2> QED
      BY <2>1 DEF KeptInv
<1>8. CASE Compact
  <2>1. /\ UNCHANGED <<log, applied, pending, dbOpen, restarts>>
        /\ base' = Dropped /\ pos' = 0
      BY <1>8 DEF Compact, shared
  <2>2. base' + pos' = base + pos
      BY <1>2, <2>1 DEF Dropped, HasLine
  <2>3. dbOpen => Lost' = {}
      BY <2>1, <2>2, LostStays DEF KeptInv, InLog, Read
  <2> QED
      BY <2>1, <2>2, <2>3 DEF KeptInv
<1>9. CASE \/ LoopHead \/ ScanEOF \/ DrainEOF \/ FlushDone \/ Saving \/ CompactSkip
           \/ CompactRenameFails \/ Reply \/ UNCHANGED vars
  <2>1. UNCHANGED <<log, base, pos, pending, applied, dbOpen, restarts>>
      BY <1>9
      DEF LoopHead, Saving, TopClosed, TopOpen, SelectFlush, SelectDefault, ScanEOF,
          DrainEOF, FlushDone, PosDue, PosNotDue, TruncatePos, WritePos, CompactSkip,
          CompactRenameFails, Reply, vars, disk, append, reader, shared
  <2> QED
      BY <1>3, <2>1
<1>10. CASE Calling
  <2>1. PICK c \in Callers :
            Call(c) \/ Send(c) \/ Return(c) \/ CloseMark(c) \/ CloseFile(c)
      BY <1>10 DEF Calling
  <2>2. /\ UNCHANGED <<log, base, pos, pending, applied, restarts>>
        /\ dbOpen' => dbOpen
      BY <2>1 DEF Call, Send, Return, CloseMark, CloseFile, disk, append, reader
  <2> QED
      BY <1>3, <2>2
<1>11. ~CompactReopenFails /\ ~Restart
    BY DEF OnlyRenames, CompactReopenFails, Restart
<1> QED
    BY <1>4, <1>5, <1>6, <1>7, <1>8, <1>9, <1>10, <1>11
    DEF Next, Reader, Scanning, Flushing, Compacting

LEMMA KeptInvHolds == ASSUME OnlyRenames PROVE Spec => []KeptInv
<1>1. TypeInv /\ KeptInv /\ [Next]_vars => KeptInv'
    BY KeptInvStep
<1> QED
    BY <1>1, KeptInvInit, TypeInvHolds, PTL DEF Spec

(* While the server lives and its database is open and works, every item of an
   accepted line is unread, in the batch or in it: compaction, failed renames,
   forks, throttling, draining and the start of a Close lose nothing. *)
THEOREM NothingIsLost == ASSUME OnlyRenames PROVE Spec => []NothingLost
<1>1. KeptInv => NothingLost
    BY DEF KeptInv, NothingLost
<1> QED
    BY <1>1, KeptInvHolds, PTL

-----------------------------------------------------------------------------
(* Close. *)

(* Close is called at most once, as in its one use, cleanup_test.go:15. *)
OneCloser == \A c, d \in Closers : c = d

(* Once the database handle is closed the closer has nothing left to do. *)
CloseInv ==
    /\ \A c \in Callers : fpc[c] \in {"closing", "closed"} => c \in Closers
    /\ ~dbOpen => \A c \in Closers : fpc[c] = "closed"
    /\ CloseKeepsAccepted

LEMMA CloseInvInit == Init => CloseInv
BY DEF Init, CloseInv, CloseKeepsAccepted, Callers

(* While the handle is open the barrier and NothingLost give what is wanted. *)
LEMMA KeptWhileOpen ==
    ASSUME TypeInv, BarrierInv, KeptInv, dbOpen
    PROVE  CloseKeepsAccepted
<1> SUFFICES ASSUME NEW c \in Closers, fpc[c] \in {"done", "closing", "closed"},
                    NEW it \in Items, InLog(it), it[1] <= mark[c]
             PROVE  applied[it] > 0
    BY DEF CloseKeepsAccepted
<1>1. Read(it) /\ it \notin pending
    BY BarrierAtReturn DEF FlushBarrier, Callers
<1>2. applied[it] # 0 /\ applied[it] \in Nat
    BY <1>1 DEF KeptInv, Lost, TypeInv, TypeOK
<1> QED
    BY <1>2

(* What is in the database stays there, and so does a line's place in the log. *)
LEMMA AppliedStays ==
    ASSUME TypeInv, [Next]_vars,
           NEW it \in Items, InLog(it), applied[it] > 0
    PROVE  applied'[it] > 0
<1>1. applied[it] \in Nat
    BY DEF TypeInv, TypeOK
<1>2. ASSUME NEW S \in ReadyGroups, FlushGroup(S) PROVE applied'[it] > 0
    BY <1>1, <1>2 DEF FlushGroup
<1>3. CASE \E w \in Writers : \/ \E p \in Payloads : AppendNow(w, p) \/ AppendResume(w, p)
                              \/ AppendSlow(w) \/ AppendResumeFails(w)
    BY <1>3 DEF AppendNow, AppendResume, AppendSlow, AppendResumeFails, disk
<1>4. CASE \/ LoopHead \/ Scanning \/ FlushDone \/ Saving \/ Compacting \/ Reply
           \/ Calling \/ Restart \/ UNCHANGED vars
           \/ \E S \in ReadyGroups : DropGroup(S)
    BY <1>4
    DEF LoopHead, TopClosed, TopOpen, SelectFlush, SelectDefault, Scanning, ScanLine,
        ScanEOF, DrainLine, DrainEOF, FlushDone, Saving, PosDue, PosNotDue, TruncatePos,
        WritePos, Compacting, CompactSkip, Compact, CompactRenameFails,
        CompactReopenFails, Reply, Calling, Call, Send, Return, CloseMark, CloseFile,
        Restart, DropGroup, vars, disk
<1> QED
    BY <1>2, <1>3, <1>4 DEF Next, Reader, Flushing, Appending

LEMMA LogStays ==
    ASSUME TypeInv, [Next]_vars,
           NEW it \in Items, it[1] <= Len(log), InLog(it)'
    PROVE  InLog(it)
<1>1. it[1] \in 1..Len(log)
    BY BoundsAssumption DEF Items, TypeInv, TypeOK
<1>2. CASE log' = log
    BY <1>2 DEF InLog
<1>3. ASSUME NEW p \in Payloads, log' = Append(log, p) PROVE InLog(it)
  <2>1. log'[it[1]] = log[it[1]]
      BY <1>1, <1>3 DEF TypeInv, TypeOK
  <2> QED
      BY <1>1, <2>1 DEF InLog
<1>4. CASE Appending
    BY <1>2, <1>3, <1>4
    DEF Appending, AppendNow, AppendResume, AppendSlow, AppendResumeFails, WriteLine, disk
<1>5. CASE Reader \/ Calling \/ Restart \/ UNCHANGED vars
    BY <1>2, <1>5
    DEF Reader, LoopHead, TopClosed, TopOpen, SelectFlush, SelectDefault, Scanning,
        ScanLine, ScanEOF, DrainLine, DrainEOF, Flushing, FlushGroup, DropGroup, FlushDone,
        Saving, PosDue, PosNotDue, TruncatePos, WritePos, Compacting, CompactSkip, Compact,
        CompactRenameFails, CompactReopenFails, Reply, Calling, Call, Send, Return,
        CloseMark, CloseFile, Restart, vars, disk
<1> QED
    BY <1>4, <1>5 DEF Next

(* How a caller moves: only its own steps take it out of a returned call. *)
LEMMA CallerMoves ==
    ASSUME OnlyRenames, TypeInv, BarrierInv, [Next]_vars, NEW c \in Callers
    PROVE  \/ fpc'[c] = fpc[c] /\ mark'[c] = mark[c]
           \/ fpc[c] \in {"idle", "send", "wait"} /\ fpc'[c] \in {"send", "wait", "done"}
           \/ Return(c) \/ CloseMark(c) \/ CloseFile(c)
<1>1. CASE Reader
    BY <1>1
    DEF Reader, LoopHead, TopClosed, TopOpen, SelectFlush, SelectDefault, Scanning,
        ScanLine, ScanEOF, DrainLine, DrainEOF, Flushing, FlushGroup, DropGroup,
        FlushDone, Saving, PosDue, PosNotDue, TruncatePos, WritePos, Compacting,
        CompactSkip, Compact, CompactRenameFails, CompactReopenFails, Reply, shared,
        BarrierInv, TypeInv, TypeOK
<1>2. CASE Appending
    BY <1>2
    DEF Appending, AppendNow, AppendResume, AppendSlow, AppendResumeFails, shared
<1>3. CASE Calling
  <2>1. PICK d \in Callers : Call(d) \/ Send(d) \/ Return(d) \/ CloseMark(d) \/ CloseFile(d)
      BY <1>3 DEF Calling
  <2>2. CASE c = d
      BY <2>1, <2>2 DEF Call, Send, TypeInv, TypeOK
  <2>3. CASE c # d
      BY <2>1, <2>3 DEF Call, Send, Return, CloseMark, CloseFile, TypeInv, TypeOK
  <2> QED
      BY <2>2, <2>3
<1>4. ~Restart
    BY DEF OnlyRenames, Restart
<1>5. CASE UNCHANGED vars
    BY <1>5 DEF vars, shared
<1> QED
    BY <1>1, <1>2, <1>3, <1>4, <1>5 DEF Next

(* What was kept for callers that have returned stays kept. *)
LEMMA KeptStays ==
    ASSUME TypeInv, [Next]_vars, CloseKeepsAccepted,
           \A c \in Closers : /\ fpc[c] \in {"done", "closing", "closed"}
                              /\ mark'[c] = mark[c]
    PROVE  CloseKeepsAccepted'
<1> SUFFICES ASSUME NEW c \in Closers, NEW it \in Items, InLog(it)', it[1] <= mark[c]
             PROVE  applied'[it] > 0
    BY DEF CloseKeepsAccepted
<1>1. it[1] \in Nat /\ mark[c] \in 0..Len(log) /\ Len(log) \in Nat
    BY BoundsAssumption DEF Items, Callers, TypeInv, TypeOK
<1>2. InLog(it)
    BY <1>1, LogStays
<1>3. applied[it] > 0
    BY <1>2 DEF CloseKeepsAccepted
<1> QED
    BY <1>2, <1>3, AppliedStays

LEMMA CloseInvStep ==
    ASSUME OnlyRenames, OneCloser, TypeInv, BarrierInv, KeptInv, CloseInv, [Next]_vars
    PROVE  CloseInv'
<1>1. TypeInv' /\ BarrierInv' /\ KeptInv'
    BY TypeInvStep, BarrierInvStep, KeptInvStep
<1>2. ASSUME NEW c \in Callers, fpc'[c] \in {"closing", "closed"} PROVE c \in Closers
    BY <1>2, CallerMoves DEF Return, CloseMark, CloseFile, CloseInv, TypeInv, TypeOK
<1>3. CASE dbOpen'
  <2>1. CloseKeepsAccepted'
      BY <1>1, <1>3, KeptWhileOpen, PTL
  <2> QED
      BY <1>2, <1>3, <2>1 DEF CloseInv
<1>4. CASE ~dbOpen
  <2>1. ~dbOpen'
      BY <1>4 DEF Next, OnlyRenames, Restart, Reader, LoopHead, TopClosed, TopOpen,
          SelectFlush, SelectDefault, Scanning, ScanLine, ScanEOF, DrainLine, DrainEOF,
          Flushing, FlushGroup, DropGroup, FlushDone, Saving, PosDue, PosNotDue,
          TruncatePos, WritePos, Compacting, CompactSkip, Compact, CompactRenameFails,
          CompactReopenFails, Reply, Appending, AppendNow, AppendSlow, AppendResume,
          AppendResumeFails, Calling, Call, Send, Return, CloseMark, CloseFile, vars, shared
  <2>2. \A c \in Closers : fpc[c] = "closed" /\ c \in Callers
      BY <1>4 DEF CloseInv, Callers
  <2>3. \A c \in Closers : fpc'[c] = fpc[c] /\ mark'[c] = mark[c]
      BY <2>2, CallerMoves DEF Return, CloseMark, CloseFile
  <2>4. CloseKeepsAccepted'
      BY <2>2, <2>3, KeptStays DEF CloseInv
  <2> QED
      BY <1>2, <2>2, <2>3, <2>4 DEF CloseInv
<1>5. CASE dbOpen /\ ~dbOpen'
  <2>1. PICK d \in Callers : CloseFile(d)
      BY <1>5 DEF Next, Restart, Reader, LoopHead, TopClosed, TopOpen,
          SelectFlush, SelectDefault, Scanning, ScanLine, ScanEOF, DrainLine, DrainEOF,
          Flushing, FlushGroup, DropGroup, FlushDone, Saving, PosDue, PosNotDue,
          TruncatePos, WritePos, Compacting, CompactSkip, Compact, CompactRenameFails,
          CompactReopenFails, Reply, Appending, AppendNow, AppendSlow, AppendResume,
          AppendResumeFails, Calling, Call, Send, Return, CloseMark, vars, shared
  <2>2. /\ fpc[d] = "closing"
        /\ fpc' = [fpc EXCEPT ![d] = "closed"]
        /\ mark' = mark
      BY <2>1 DEF CloseFile
  <2>3. \A c \in Closers : c = d
      BY <2>2 DEF CloseInv, OneCloser
  <2>4. CloseKeepsAccepted'
      BY <2>2, <2>3, KeptStays DEF CloseInv
  <2>5. \A c \in Closers : fpc'[c] = "closed"
      BY <2>2, <2>3 DEF TypeInv, TypeOK
  <2> QED
      BY <1>2, <2>4, <2>5 DEF CloseInv
<1> QED
    BY <1>3, <1>4, <1>5

(* Close, called once and with nothing but renames failing, closes the database
   only after every line accepted before the call is in it, whoever appends,
   flushes or compacts meanwhile (wal.go:363-379). *)
THEOREM ClosedKeeps ==
    ASSUME OnlyRenames, OneCloser
    PROVE  Spec => []CloseKeepsAccepted
<1>1. TypeInv /\ BarrierInv /\ KeptInv /\ CloseInv /\ [Next]_vars => CloseInv'
    BY CloseInvStep
<1>2. CloseInv => CloseKeepsAccepted
    BY DEF CloseInv
<1> QED
    BY <1>1, <1>2, CloseInvInit, TypeInvHolds, BarrierInvHolds, KeptInvHolds, PTL DEF Spec

-----------------------------------------------------------------------------
(* The log implements the queue. *)

Done == {it \in Items : applied[it] > 0}

LEMMA QueueInit == Init => Queue!Init
BY DEF Init, Queue!Init

(* A group that is ready is a legal delivery: it is undelivered (OnceInv), and
   whatever precedes it in its stream has been read, so it is delivered or in the
   batch (KeptInv), and then in the same group. *)
LEMMA GroupIsDelivery ==
    ASSUME TypeInv, OnceInv, KeptInv, NEW S \in ReadyGroups, FlushGroup(S)
    PROVE  Queue!Deliver(S)
<1>1. S # {} /\ S \subseteq pending
    BY GroupInBatch
<1>2. Queue!Accepted = {it \in Items : InLog(it)}
  <2>1. Len(log) \in Nat /\ Len(log) <= MaxLines
      BY DEF TypeInv, TypeOK
  <2> QED
      BY <2>1, BoundsAssumption DEF Queue!Accepted, InLog, Items
<1>3. \A it \in pending : /\ it \in Items /\ InLog(it)
                          /\ applied[it] = 0
                          /\ it[1] \in Nat
                          /\ it[1] <= base + pos
    BY PendingType DEF OnceInv, KeptInv, TypeInv, TypeOK, InLog, Read
<1>4. S \subseteq Queue!Undelivered
    BY <1>1, <1>2, <1>3 DEF Queue!Undelivered
<1>5. \A jt \in Queue!Undelivered : jt[1] \in Nat /\ (jt[1] <= base + pos => jt \in pending)
    BY <1>2, BoundsAssumption
    DEF FlushGroup, Queue!Undelivered, KeptInv, Lost, Read, Items, TypeInv, TypeOK
<1>6. \A it, jt \in S : Queue!SameStream(it, jt)
    BY DEF ReadyGroups, Group, Queue!SameStream
<1>7. ASSUME NEW it \in S, NEW jt \in Queue!Undelivered,
             Queue!SameStream(it, jt), jt[1] < it[1]
      PROVE  jt \in S
  <2>1. jt \in pending
      BY <1>1, <1>3, <1>5, <1>7 DEF TypeInv, TypeOK
  <2>2. it[1] \in Nat /\ jt[1] \in Nat
      BY <1>1, <1>3, <1>5
  <2>3. CASE \E r \in Runs, k \in Kinds \ {"fork"} : S = Group(r, k)
      BY <1>7, <2>1, <2>3 DEF Group, Queue!SameStream
  <2>4. CASE FirstFork(it)
      BY <1>7, <2>1, <2>2, <2>4 DEF FirstFork
  <2> QED
      BY <2>3, <2>4 DEF ReadyGroups
<1>8. /\ Done' = Done \cup S
      /\ log' = log
    BY <1>1, <1>3 DEF FlushGroup, Done, TypeInv, TypeOK
<1> QED
    BY <1>1, <1>4, <1>6, <1>7, <1>8 DEF Queue!Deliver, Done

LEMMA QueueStep ==
    ASSUME OnlyRenames, TypeInv, OnceInv, KeptInv, [Next]_vars
    PROVE  [Queue!Next]_Queue!vars
<1>1. ASSUME UNCHANGED <<log, applied>> PROVE UNCHANGED Queue!vars
    BY <1>1 DEF Queue!vars
<1>2. ASSUME NEW w \in Writers, NEW p \in Payloads, AppendNow(w, p) \/ AppendResume(w, p)
      PROVE  Queue!Put(p)
    BY <1>2 DEF AppendNow, AppendResume, WriteLine, Queue!Put
<1>3. ASSUME NEW S \in ReadyGroups, FlushGroup(S) PROVE Queue!DeliverSome
  <2>1. Queue!Deliver(S)
      BY <1>3, GroupIsDelivery
  <2> QED
      BY <2>1 DEF Queue!DeliverSome, Queue!Deliver
<1>4. ASSUME NEW S \in ReadyGroups, DropGroup(S) PROVE UNCHANGED Queue!vars
    BY <1>1, <1>4 DEF DropGroup, disk
<1>5. CASE \/ LoopHead \/ Scanning \/ FlushDone \/ Saving \/ Compacting \/ Reply
           \/ Calling \/ Restart \/ UNCHANGED vars
           \/ \E w \in Writers : AppendSlow(w) \/ AppendResumeFails(w)
  <2>1. UNCHANGED <<log, applied>>
      BY <1>5
      DEF LoopHead, TopClosed, TopOpen, SelectFlush, SelectDefault, Scanning, ScanLine,
          ScanEOF, DrainLine, DrainEOF, FlushDone, Saving, PosDue, PosNotDue, TruncatePos,
          WritePos, Compacting, CompactSkip, Compact, CompactRenameFails,
          CompactReopenFails, Reply, Calling, Call, Send, Return, CloseMark, CloseFile,
          Restart, AppendSlow, AppendResumeFails, vars, disk
  <2> QED
      BY <1>1, <2>1
<1> QED
    BY <1>2, <1>3, <1>4, <1>5 DEF Next, Reader, Flushing, Appending, Queue!Next

(* While nothing but renames fails, whatever the sizes, the writers and the
   callers, the file, the cursor, the batch and the compaction are invisible:
   handlers see a queue that delivers each item once and keeps the order of each
   stream. *)
THEOREM LogIsQueue == ASSUME OnlyRenames PROVE Spec => ImplementsLineQueue
<1>1. TypeInv /\ OnceInv /\ KeptInv /\ [Next]_vars => [Queue!Next]_Queue!vars
    BY QueueStep
<1> QED
    BY <1>1, QueueInit, TypeInvHolds, OnceInvHolds, KeptInvHolds, PTL
    DEF Spec, ImplementsLineQueue, Queue!Spec

-----------------------------------------------------------------------------
(* What a crash costs. *)

(* The database never fails and is not closed. *)
DatabaseStays == Faults \subseteq {"crash", "rename"} /\ Closers = {}

(* The items a crash would lose: the position on disk is past them, and they
   are in no transaction yet. *)
AtRisk == {it \in pending : it[1] <= base + posFile}

(* Between two flushes the batch is smaller than BatchItems, so a saved position
   puts less than that at risk, and what has been lost is what was at risk when
   the crashes came.  A drain may batch more, but it does not save the position
   before it has flushed. *)
LossInv ==
    /\ dbOpen
    /\ \A c \in Callers : fpc[c] # "closing"
    /\ rpc \notin {"drain", "flush"} => Cardinality(pending) < BatchItems
    /\ ~torn /\ ~Locked => Cardinality(AtRisk) < BatchItems
    /\ LossBounded

LEMMA ItemsFinite ==
    /\ IsFiniteSet(Items)
    /\ \A T \in SUBSET Items : IsFiniteSet(T) /\ Cardinality(T) \in Nat
    /\ \A S, T : T \subseteq Items /\ S \subseteq T => Cardinality(S) <= Cardinality(T)
<1>1. IsFiniteSet(Kinds)
  <2>1. \A k : IsFiniteSet({k})
      BY FS_Singleton
  <2>2. IsFiniteSet({"scalars"} \cup {"histograms"}) /\ IsFiniteSet({"events"} \cup {"logs"})
      BY <2>1, FS_Union
  <2>3. IsFiniteSet(({"scalars"} \cup {"histograms"}) \cup ({"events"} \cup {"logs"}))
      BY <2>2, FS_Union
  <2>4. IsFiniteSet((({"scalars"} \cup {"histograms"}) \cup ({"events"} \cup {"logs"})) \cup {"fork"})
      BY <2>1, <2>3, FS_Union
  <2>5. Kinds = (({"scalars"} \cup {"histograms"}) \cup ({"events"} \cup {"logs"})) \cup {"fork"}
      BY DEF Kinds
  <2> QED
      BY <2>4, <2>5
<1>2. IsFiniteSet(1..MaxLines)
    BY BoundsAssumption, FS_Interval
<1>3. IsFiniteSet(Items)
    BY <1>1, <1>2, FS_Product DEF Items
<1> QED
    BY <1>3, FS_Subset, FS_CardinalityType

LEMMA LossInvInit == Init => LossInv
<1> SUFFICES ASSUME Init PROVE LossInv
    OBVIOUS
<1>1. Len(log) = 0
    BY DEF Init
<1>2. Lost = {}
    BY <1>1, BoundsAssumption DEF Lost, InLog, Items
<1>3. pending = {} /\ AtRisk = {}
    BY DEF Init, AtRisk
<1>4. restarts * (BatchItems - 1) = 0
    BY SizesAssumption DEF Init
<1> QED
    BY <1>2, <1>3, <1>4, SizesAssumption, FS_EmptySet DEF Init, LossInv, LossBounded

(* A step in which nobody crashes and nothing more is lost. *)
LEMMA LossStays ==
    ASSUME TypeInv, LossInv,
           UNCHANGED <<restarts, dbOpen>>, torn' => torn, torn => torn',
           \A c \in Callers : fpc'[c] # "closing",
           \A it \in Items : /\ InLog(it)' /\ Read(it)'
                             /\ it \notin pending'
                             /\ applied'[it] = 0
                             => InLog(it) /\ Read(it) /\ it \notin pending /\ applied[it] = 0,
           rpc' \notin {"drain", "flush"} => Cardinality(pending') < BatchItems,
           ~torn /\ ~Locked' => Cardinality(AtRisk') < BatchItems
    PROVE  LossInv'
<1>1. Lost' \subseteq Lost
    BY DEF Lost
<1>2. Lost \subseteq Items
    BY DEF Lost
<1>3. Cardinality(Lost') <= Cardinality(Lost)
    BY <1>1, <1>2, ItemsFinite
<1>4. Cardinality(Lost') \in Nat /\ Cardinality(Lost) \in Nat
    BY <1>1, <1>2, ItemsFinite
<1>5. restarts * (BatchItems - 1) \in Int
    BY SizesAssumption DEF TypeInv, TypeOK
<1>6. LossBounded'
    BY <1>3, <1>4, <1>5 DEF LossInv, LossBounded
<1> QED
    BY <1>6 DEF LossInv

LEMMA PendingCount ==
    ASSUME TypeInv
    PROVE  /\ pending \subseteq Items
           /\ AtRisk \subseteq pending
           /\ Cardinality(AtRisk) <= Cardinality(pending)
           /\ Cardinality(pending) \in Nat /\ Cardinality(AtRisk) \in Nat
<1>1. pending \subseteq Items /\ AtRisk \subseteq pending
    BY DEF TypeInv, TypeOK, AtRisk
<1> QED
    BY <1>1, ItemsFinite

LEMMA LossInvStep ==
    ASSUME DatabaseStays, TypeInv, TypeInv', PosInv, LossInv, [Next]_vars
    PROVE  LossInv'
<1>1. \A it \in Items : it[1] \in Nat \ {0} /\ applied[it] \in Nat
  <2>1. \A it \in Items : it[1] \in 1..MaxLines
      BY DEF Items
  <2>2. \A it \in Items : applied[it] \in Nat
      BY DEF TypeInv, TypeOK
  <2> QED
      BY <2>1, <2>2, BoundsAssumption
<1>2. /\ Len(log) \in Nat /\ base \in Nat /\ pos \in Nat /\ posFile \in Nat
      /\ BatchItems \in Nat /\ BatchItems > 0
    BY SizesAssumption DEF TypeInv, TypeOK
<1>3. /\ dbOpen
      /\ \A c \in Callers : fpc[c] # "closing"
      /\ ~torn /\ ~Locked => Cardinality(AtRisk) < BatchItems
      /\ rpc \notin {"drain", "flush"} => Cardinality(pending) < BatchItems
    BY DEF LossInv
<1>4. /\ Cardinality(AtRisk) <= Cardinality(pending)
      /\ Cardinality(pending) \in Nat /\ Cardinality(AtRisk) \in Nat
      /\ Cardinality(AtRisk') <= Cardinality(pending')
      /\ Cardinality(pending') \in Nat /\ Cardinality(AtRisk') \in Nat
  <2>1. /\ pending' \subseteq Items
        /\ AtRisk' \subseteq pending'
      BY DEF TypeInv, TypeOK, AtRisk
  <2> QED
      BY <2>1, PendingCount, ItemsFinite
<1>5. ASSUME UNCHANGED <<log, base, posFile, pos, pending, applied, restarts, dbOpen, torn>>,
             fpc' = fpc \/ \A c \in Callers : fpc'[c] # "closing",
             rpc' \notin {"drain", "flush"} => Cardinality(pending) < BatchItems,
             Locked => Locked'
      PROVE  LossInv'
  <2>1. AtRisk' = AtRisk
      BY <1>5 DEF AtRisk
  <2>2. \A it \in Items : /\ InLog(it)' /\ Read(it)' /\ it \notin pending' /\ applied'[it] = 0
                          => InLog(it) /\ Read(it) /\ it \notin pending /\ applied[it] = 0
      BY <1>5 DEF InLog, Read
  <2>3. \A c \in Callers : fpc'[c] # "closing"
      BY <1>3, <1>5
  <2>4. /\ UNCHANGED <<restarts, dbOpen>>
        /\ torn' => torn
        /\ torn => torn'
      BY <1>5
  <2>5. ~torn /\ ~Locked' => Cardinality(AtRisk') < BatchItems
      BY <1>3, <1>5, <2>1
  <2>6. rpc' \notin {"drain", "flush"} => Cardinality(pending') < BatchItems
      BY <1>5
  <2> QED
      BY <2>2, <2>3, <2>4, <2>5, <2>6, LossStays
<1>6. CASE Appending
  <2>1. PICK w \in Writers :
            \/ \E p \in Payloads : AppendNow(w, p)
            \/ AppendSlow(w)
            \/ \E p \in Payloads : AppendResume(w, p)
            \/ AppendResumeFails(w)
      BY <1>6 DEF Appending
  <2>2. ASSUME NEW p \in Payloads, AppendNow(w, p) \/ AppendResume(w, p)
        PROVE  LossInv'
    <3>1. /\ UNCHANGED <<base, posFile, pos, pending, rpc, path, applied, restarts, dbOpen,
                         fpc, torn>>
          /\ log' = Append(log, p)
        BY <2>2 DEF AppendNow, AppendResume, WriteLine, reader, shared
    <3>2. /\ Len(log') = Len(log) + 1
          /\ \A i \in 1..Len(log) : log'[i] = log[i]
        BY <3>1 DEF TypeInv, TypeOK
    <3>4. wopen => base + pos <= Len(log)
        BY DEF TypeInv, TypeOK
    <3>5. wopen
        BY <2>2 DEF AppendNow, AppendResume, WriteLine
    <3>6. ASSUME NEW it \in Items, InLog(it)', Read(it)'
          PROVE  InLog(it) /\ Read(it)
      <4>1. Read(it)
          BY <3>1, <3>6 DEF Read
      <4>2. it[1] \in 1..Len(log)
          BY <1>1, <1>2, <3>4, <3>5, <4>1 DEF Read
      <4> QED
          BY <3>1, <3>2, <3>6, <4>1, <4>2 DEF InLog
    <3>7. AtRisk' = AtRisk /\ Locked' = Locked
        BY <3>1 DEF AtRisk, Locked
    <3>8. \A it \in Items : /\ InLog(it)' /\ Read(it)' /\ it \notin pending' /\ applied'[it] = 0
                            => InLog(it) /\ Read(it) /\ it \notin pending /\ applied[it] = 0
        BY <3>1, <3>6
    <3>9. /\ \A c \in Callers : fpc'[c] # "closing"
          /\ rpc' \notin {"drain", "flush"} => Cardinality(pending') < BatchItems
          /\ ~torn /\ ~Locked' => Cardinality(AtRisk') < BatchItems
        BY <1>3, <3>1, <3>7
    <3> QED
        BY <3>1, <3>8, <3>9, LossStays
  <2>3. ASSUME AppendSlow(w) \/ AppendResumeFails(w) PROVE LossInv'
    <3>1. UNCHANGED <<disk, reader, shared, restarts, torn>>
        BY <2>3 DEF AppendSlow, AppendResumeFails
    <3> QED
        BY <1>3, <1>5, <3>1 DEF disk, reader, shared, Locked
  <2> QED
      BY <2>1, <2>2, <2>3
<1>7. CASE ScanLine \/ DrainLine
  <2>1. /\ UNCHANGED <<log, base, posFile, applied, dbOpen, restarts, fpc, torn>>
        /\ HasLine
        /\ pos' = pos + 1
        /\ pending' = pending \cup ItemsOf(NextLine)
      BY <1>7 DEF ScanLine, DrainLine, TakeLine, disk, append, shared
  <2>2. \A it \in Items : it[1] = NextLine /\ InLog(it) => it \in ItemsOf(NextLine)
      BY DEF Items, ItemsOf, InLog
  <2>3. \A it \in Items : /\ InLog(it)' /\ Read(it)' /\ it \notin pending' /\ applied'[it] = 0
                          => InLog(it) /\ Read(it) /\ it \notin pending /\ applied[it] = 0
      BY <1>1, <1>2, <2>1, <2>2 DEF InLog, Read, NextLine
  <2>4. ~Locked
      BY <1>7 DEF Locked, ScanLine, DrainLine
  <2>5. ASSUME ~torn PROVE AtRisk' = AtRisk
    <3>1. posFile <= pos
        BY <2>4, <2>5 DEF PosInv
    <3>2. \A it \in ItemsOf(NextLine) : it[1] = base + pos + 1
        BY DEF ItemsOf, NextLine
    <3>3. \A it \in ItemsOf(NextLine) : ~(it[1] <= base + posFile)
        BY <1>2, <3>1, <3>2
    <3> QED
        BY <2>1, <3>3 DEF AtRisk
  <2>6. rpc' \notin {"drain", "flush"} => Cardinality(pending') < BatchItems
      BY <1>2, <1>4, <1>7 DEF ScanLine, DrainLine, BatchFull
  <2>7. ~torn /\ ~Locked' => Cardinality(AtRisk') < BatchItems
      BY <1>3, <2>4, <2>5
  <2> QED
      BY <1>3, <2>1, <2>3, <2>6, <2>7, LossStays
<1>8. ASSUME NEW S \in ReadyGroups, FlushGroup(S) PROVE LossInv'
  <2>1. /\ UNCHANGED <<log, base, posFile, pos, rpc, path, dbOpen, restarts, fpc, torn>>
        /\ pending' = pending \ S
        /\ \A it \in Items : applied'[it] = applied[it] + IF it \in S THEN 1 ELSE 0
        /\ rpc = "flush"
      BY <1>8 DEF FlushGroup, append, shared
  <2>2. \A it \in Items : /\ InLog(it)' /\ Read(it)' /\ it \notin pending' /\ applied'[it] = 0
                          => InLog(it) /\ Read(it) /\ it \notin pending /\ applied[it] = 0
      BY <1>1, <2>1 DEF InLog, Read
  <2>3. AtRisk' \subseteq AtRisk /\ ~Locked
      BY <2>1 DEF AtRisk, Locked
  <2>4. Cardinality(AtRisk') <= Cardinality(AtRisk)
      BY <2>3, PendingCount, ItemsFinite
  <2>5. ~torn /\ ~Locked' => Cardinality(AtRisk') < BatchItems
      BY <1>2, <1>3, <1>4, <2>3, <2>4
  <2> QED
      BY <1>3, <2>1, <2>2, <2>5, LossStays
<1>9. CASE FlushDone
  <2>1. pending = {} /\ Cardinality(pending) = 0
      BY <1>9, FS_EmptySet DEF FlushDone
  <2>2. /\ UNCHANGED <<log, base, posFile, pos, pending, applied, restarts, dbOpen, torn, fpc>>
        /\ ~Locked
      BY <1>9 DEF FlushDone, disk, shared, Locked
  <2> QED
      BY <1>2, <1>5, <2>1, <2>2
<1>10. CASE TruncatePos \/ WritePos
  <2>1. /\ UNCHANGED <<log, base, pos, pending, applied, restarts, dbOpen, torn, fpc>>
        /\ rpc \notin {"drain", "flush"}
      BY <1>10 DEF TruncatePos, WritePos, shared
  <2>2. Cardinality(pending') < BatchItems
      BY <1>3, <2>1
  <2>3. Cardinality(AtRisk') < BatchItems
      BY <1>2, <1>4, <2>2
  <2>4. \A it \in Items : /\ InLog(it)' /\ Read(it)' /\ it \notin pending' /\ applied'[it] = 0
                          => InLog(it) /\ Read(it) /\ it \notin pending /\ applied[it] = 0
      BY <2>1 DEF InLog, Read
  <2> QED
      BY <1>3, <2>1, <2>2, <2>3, <2>4, LossStays
<1>11. CASE Compact
  <2>1. /\ UNCHANGED <<log, applied, pending, dbOpen, restarts, fpc, torn>>
        /\ base' = Dropped /\ pos' = 0
        /\ rpc = "compactCheck"
        /\ Locked'
      BY <1>11 DEF Compact, WorthCompacting, shared, Locked
  <2>2. \A it \in Items : InLog(it) /\ Read(it)' => Read(it)
    <3>1. base' + pos' = base + pos \/ Len(log) <= base + pos
        BY <1>2, <2>1 DEF Dropped, HasLine
    <3> QED
        BY <1>1, <1>2, <3>1 DEF InLog, Read
  <2>3. \A it \in Items : /\ InLog(it)' /\ Read(it)' /\ it \notin pending' /\ applied'[it] = 0
                          => InLog(it) /\ Read(it) /\ it \notin pending /\ applied[it] = 0
      BY <2>1, <2>2 DEF InLog
  <2>4. Cardinality(pending') < BatchItems
      BY <1>3, <2>1
  <2> QED
      BY <1>3, <2>1, <2>3, <2>4, LossStays
<1>12. CASE \/ LoopHead \/ ScanEOF \/ DrainEOF \/ PosDue \/ PosNotDue \/ CompactSkip
            \/ CompactRenameFails \/ UNCHANGED vars
  <2>1. /\ UNCHANGED <<log, base, posFile, pos, pending, applied, restarts, dbOpen, torn, fpc>>
        /\ rpc' = rpc \/ rpc \notin {"drain", "flush"} \/ rpc' \in {"drain", "flush"}
        /\ Locked => Locked'
      BY <1>12
      DEF LoopHead, TopClosed, TopOpen, SelectFlush, SelectDefault, ScanEOF, DrainEOF, PosDue,
          PosNotDue, CompactSkip, CompactRenameFails, WorthCompacting, vars, disk, append,
          reader, shared, Locked
  <2> QED
      BY <1>3, <1>5, <2>1
<1>13. CASE Reply
  <2>1. /\ UNCHANGED <<log, base, posFile, pos, pending, applied, restarts, dbOpen, torn>>
        /\ rpc = "reply" /\ rpc' = "top"
        /\ fpc' = [fpc EXCEPT ![serving] = "done"]
        /\ ~Locked
      BY <1>13 DEF Reply, disk, Locked
  <2>2. \A c \in Callers : fpc'[c] # "closing"
      BY <1>3, <2>1 DEF TypeInv, TypeOK
  <2> QED
      BY <1>3, <1>5, <2>1, <2>2
<1>14. CASE Calling
  <2>1. PICK c \in Callers : Call(c) \/ Send(c) \/ Return(c) \/ CloseMark(c) \/ CloseFile(c)
      BY <1>14 DEF Calling
  <2>2. ~CloseMark(c) /\ ~CloseFile(c)
      BY <1>3 DEF CloseMark, CloseFile, DatabaseStays
  <2>3. /\ UNCHANGED <<disk, reader, dbOpen, restarts, torn>>
        /\ \E s \in {"send", "wait", "idle"} : fpc' = [fpc EXCEPT ![c] = s]
      BY <2>1, <2>2 DEF Call, Send, Return
  <2>4. \A d \in Callers : fpc'[d] # "closing"
      BY <1>3, <2>3 DEF TypeInv, TypeOK
  <2> QED
      BY <1>3, <1>5, <2>3, <2>4 DEF disk, reader, Locked
<1>15. CASE Restart
  <2>1. /\ UNCHANGED <<log, base, posFile, applied>>
        /\ pos' = RestoredPos
        /\ restarts' = restarts + 1
        /\ torn' = (torn \/ Locked)
        /\ pending' = {} /\ dbOpen'
        /\ fpc' = [c \in Callers |-> "idle"]
      BY <1>15 DEF Restart, disk
  <2>2. Cardinality(pending') = 0 /\ Cardinality(AtRisk') = 0
      BY <1>4, <2>1, FS_EmptySet
  <2>3. ASSUME ~torn' PROVE Cardinality(Lost') <= restarts' * (BatchItems - 1)
    <3>1. ~torn /\ ~Locked
        BY <2>1, <2>3
    <3>2. posFile <= pos /\ RestoredPos <= posFile
        BY <1>2, <3>1 DEF PosInv, RestoredPos
    <3>3. Lost' \subseteq Lost \cup AtRisk
      <4> SUFFICES ASSUME NEW it \in Lost' PROVE it \in Lost \cup AtRisk
          OBVIOUS
      <4>1. /\ it \in Items /\ InLog(it) /\ applied[it] = 0
            /\ it[1] <= base + RestoredPos
          BY <2>1 DEF Lost, InLog, Read
      <4>2. RestoredPos \in Nat
          BY <1>2 DEF RestoredPos
      <4>3. it[1] <= base + posFile /\ Read(it)
          BY <1>1, <1>2, <3>2, <4>1, <4>2 DEF Read
      <4> QED
          BY <4>1, <4>3 DEF Lost, AtRisk
    <3>4. /\ Lost \cup AtRisk \subseteq Items
          /\ Lost \subseteq Items /\ AtRisk \subseteq Items
        BY PendingCount DEF Lost
    <3>5. Cardinality(Lost') <= Cardinality(Lost \cup AtRisk)
        BY <3>3, <3>4, ItemsFinite
    <3>6. Cardinality(Lost \cup AtRisk) <= Cardinality(Lost) + Cardinality(AtRisk)
      <4>1. /\ IsFiniteSet(Lost) /\ IsFiniteSet(AtRisk)
            /\ Cardinality(Lost) \in Nat
            /\ Cardinality(Lost \cap AtRisk) \in Nat
          BY <3>4, ItemsFinite
      <4>2. Cardinality(Lost \cup AtRisk) =
                Cardinality(Lost) + Cardinality(AtRisk) - Cardinality(Lost \cap AtRisk)
          BY <4>1, FS_Union
      <4> QED
          BY <1>4, <4>1, <4>2
    <3>7. /\ Cardinality(Lost') \in Nat
          /\ Cardinality(Lost) \in Nat
          /\ Cardinality(Lost \cup AtRisk) \in Nat
      <4>1. Lost' \subseteq Items
          BY DEF Lost
      <4> QED
          BY <3>4, <4>1, ItemsFinite
    <3>8. Cardinality(Lost) <= restarts * (BatchItems - 1) /\ Cardinality(AtRisk) <= BatchItems - 1
        BY <1>2, <1>3, <1>4, <3>1 DEF LossInv, LossBounded
    <3>9. /\ restarts * (BatchItems - 1) \in Int
          /\ (restarts + 1) * (BatchItems - 1) = restarts * (BatchItems - 1) + (BatchItems - 1)
      <4>1. restarts \in Int /\ BatchItems - 1 \in Int
          BY <1>2 DEF TypeInv, TypeOK
      <4>2. \A a, b \in Int : a * b \in Int /\ (a + 1) * b = a * b + b
          OBVIOUS
      <4> QED
          BY <4>1, <4>2
    <3>10. \A a, b, c, d, e, f \in Int : a <= b /\ b <= c + d /\ c <= e /\ d <= f => a <= e + f
        OBVIOUS
    <3>11. Cardinality(Lost') <= restarts * (BatchItems - 1) + (BatchItems - 1)
      <4>1. BatchItems - 1 \in Int
          BY <1>2
      <4> QED
          BY <1>4, <3>5, <3>6, <3>7, <3>8, <3>9, <3>10, <4>1
    <3>12. restarts' * (BatchItems' - 1) = restarts * (BatchItems - 1) + (BatchItems - 1)
        BY <2>1, <3>9
    <3> QED
        BY <3>11, <3>12
  <2> QED
      BY <1>2, <2>1, <2>2, <2>3 DEF LossInv, LossBounded
<1>16. \A S : ~DropGroup(S)
    BY <1>3 DEF DropGroup, DatabaseStays
<1>17. ~CompactReopenFails
    BY DEF DatabaseStays, CompactReopenFails
<1> QED
    BY <1>6, <1>7, <1>8, <1>9, <1>10, <1>11, <1>12, <1>13, <1>14, <1>15, <1>16, <1>17
    DEF Next, Reader, Scanning, Flushing, Saving, Compacting

(* Each crash costs less than a batch, whatever is appended, drained, compacted or
   not compacted between them, as long as none hits a compaction: the position is saved ahead
   of the database (wal.go:269-275), but never further than that. *)
THEOREM CrashCostsABatch == ASSUME DatabaseStays PROVE Spec => []LossBounded
<1>1. TypeInv /\ TypeInv' /\ PosInv /\ LossInv /\ [Next]_vars => LossInv'
    BY LossInvStep
<1>2. LossInv => LossBounded
    BY DEF LossInv
<1>3. Spec => []PosInv
    BY PosInvInit, PosInvStep, TypeInvHolds, PTL DEF Spec
<1> QED
    BY <1>1, <1>2, <1>3, LossInvInit, TypeInvHolds, PTL DEF Spec

-----------------------------------------------------------------------------
(* Order within a life. *)

(* Whatever follows an item of the batch in its stream, and has been read, is in
   the batch too. *)
OrderInv ==
    ~torn => \A it \in pending, jt \in Items :
                Later(jt, it) /\ Read(jt) => jt \in pending

LEMMA OrderInvInit == Init => OrderInv
BY DEF Init, OrderInv

(* A group takes everything of its stream, and a fork goes after all others. *)
LEMMA GroupLeavesNoEarlier ==
    ASSUME TypeInv, NEW S \in ReadyGroups, NEW it \in pending, it \notin S,
           NEW jt \in S
    PROVE  ~Later(jt, it)
<1>1. /\ it[1] \in Nat /\ jt[1] \in Nat /\ jt \in pending
    BY PendingType, GroupInBatch
<1>2. CASE \E r \in Runs, k \in Kinds \ {"fork"} : S = Group(r, k)
    BY <1>2 DEF Group, Later
<1>3. CASE S = {jt} /\ FirstFork(jt)
    BY <1>1, <1>3 DEF FirstFork, Later
<1> QED
    BY <1>2, <1>3 DEF ReadyGroups

LEMMA OrderInvStep == TypeInv /\ PosInv /\ OrderInv /\ [Next]_vars => OrderInv'
<1> SUFFICES ASSUME TypeInv, PosInv, OrderInv, [Next]_vars, ~torn'
             PROVE  \A it \in pending', jt \in Items :
                        Later(jt, it)' /\ Read(jt)' => jt \in pending'
    BY DEF OrderInv
<1>1. /\ base \in Nat /\ pos \in Nat /\ Len(log) \in Nat
      /\ \A it \in Items : it[1] \in Nat \ {0}
      /\ \A it \in pending : it \in Items /\ it[1] \in 1..Len(log)
    BY PendingType, BoundsAssumption DEF TypeInv, TypeOK, Items
<1>2. ASSUME UNCHANGED <<log, base, pos, pending>>, ~torn
      PROVE  \A it \in pending', jt \in Items :
                 Later(jt, it)' /\ Read(jt)' => jt \in pending'
    BY <1>2 DEF OrderInv, Later, InLog, Read
<1>3. CASE Appending
  <2>1. /\ UNCHANGED <<base, pos, pending, torn>>
        /\ log' = log \/ \E p \in Payloads : log' = Append(log, p)
      BY <1>3
      DEF Appending, AppendNow, AppendSlow, AppendResume, AppendResumeFails, WriteLine,
          disk, reader
  <2>2. \A i \in 1..Len(log) : log'[i] = log[i]
      BY <2>1 DEF TypeInv, TypeOK
  <2>3. base + pos <= Len(log)
      BY <2>1 DEF PosInv
  <2> SUFFICES ASSUME NEW it \in pending, NEW jt \in Items, Later(jt, it)', Read(jt)'
               PROVE  jt \in pending
      BY <2>1
  <2>4. it[1] \in 1..Len(log) /\ jt[1] \in 1..Len(log)
      BY <1>1, <2>1, <2>3 DEF Read
  <2>5. Later(jt, it) /\ Read(jt)
      BY <1>1, <2>1, <2>2, <2>4 DEF Later, InLog, Read
  <2> QED
      BY <1>1, <2>1, <2>5 DEF OrderInv
<1>4. CASE ScanLine \/ DrainLine
  <2>1. /\ UNCHANGED <<log, base, torn>>
        /\ pos' = pos + 1
        /\ pending' = pending \cup ItemsOf(NextLine)
      BY <1>4 DEF ScanLine, DrainLine, TakeLine, disk
  <2> SUFFICES ASSUME NEW it \in pending', NEW jt \in Items, Later(jt, it)', Read(jt)'
               PROVE  jt \in pending'
      OBVIOUS
  <2>2. Later(jt, it) /\ (Read(jt) \/ jt[1] = NextLine)
      BY <1>1, <2>1 DEF Later, InLog, Read, NextLine
  <2>3. CASE jt[1] = NextLine
      BY <2>1, <2>2, <2>3 DEF Later, InLog, ItemsOf, Items
  <2>4. CASE Read(jt)
    <3>1. it \in pending
        BY <1>1, <2>1, <2>2, <2>4 DEF ItemsOf, NextLine, Later, Read
    <3> QED
        BY <2>1, <2>2, <2>4, <3>1 DEF OrderInv
  <2> QED
      BY <2>2, <2>3, <2>4
<1>5. ASSUME NEW S \in ReadyGroups, FlushGroup(S) \/ DropGroup(S)
      PROVE  \A it \in pending', jt \in Items :
                 Later(jt, it)' /\ Read(jt)' => jt \in pending'
  <2>1. UNCHANGED <<log, base, pos, torn>> /\ pending' = pending \ S
      BY <1>5 DEF FlushGroup, DropGroup, disk
  <2> QED
      BY <2>1, GroupLeavesNoEarlier DEF OrderInv, Later, InLog, Read
<1>6. CASE Compact
  <2>1. /\ UNCHANGED <<log, pending, torn>>
        /\ base' = Dropped /\ pos' = 0
      BY <1>6 DEF Compact
  <2>2. base' + pos' = base + pos
      BY <1>1, <2>1 DEF Dropped, HasLine, PosInv
  <2> QED
      BY <2>1, <2>2 DEF OrderInv, Later, InLog, Read
<1>7. CASE Restart
    BY <1>7 DEF Restart
<1>8. ~CompactReopenFails
    BY DEF CompactReopenFails
<1>9. CASE \/ LoopHead \/ ScanEOF \/ DrainEOF \/ FlushDone \/ Saving \/ Reply
           \/ CompactSkip \/ CompactRenameFails \/ Calling \/ UNCHANGED vars
  <2>1. UNCHANGED <<log, base, pos, pending, torn>>
      BY <1>9
      DEF LoopHead, Saving, TopClosed, TopOpen, SelectFlush, SelectDefault, ScanEOF,
          DrainEOF, FlushDone, PosDue, PosNotDue, TruncatePos, WritePos, Reply, CompactSkip,
          CompactRenameFails, Calling, Call, Send, Return, CloseMark, CloseFile, vars, disk,
          reader
  <2> QED
      BY <1>2, <2>1
<1> QED
    BY <1>3, <1>4, <1>5, <1>6, <1>7, <1>8, <1>9
    DEF Next, Reader, Scanning, Flushing, Compacting

LEMMA OnlyGroupsAreWritten ==
    ASSUME TypeInv, [Next]_vars, NEW it \in Items, applied'[it] > applied[it]
    PROVE  \E S \in ReadyGroups : FlushGroup(S) /\ it \in S
<1>1. applied[it] \in Nat
    BY DEF TypeInv, TypeOK
<1>2. ASSUME NEW S \in ReadyGroups, FlushGroup(S) PROVE it \in S
    BY <1>1, <1>2 DEF FlushGroup
<1>3. CASE \E w \in Writers : \/ \E p \in Payloads : AppendNow(w, p) \/ AppendResume(w, p)
                              \/ AppendSlow(w) \/ AppendResumeFails(w)
    BY <1>1, <1>3 DEF AppendNow, AppendResume, AppendSlow, AppendResumeFails, disk
<1>4. CASE \/ LoopHead \/ Scanning \/ FlushDone \/ Saving \/ Compacting \/ Reply
           \/ Calling \/ Restart \/ UNCHANGED vars
           \/ \E S \in ReadyGroups : DropGroup(S)
    BY <1>1, <1>4
    DEF LoopHead, TopClosed, TopOpen, SelectFlush, SelectDefault, Scanning, ScanLine,
        ScanEOF, DrainLine, DrainEOF, FlushDone, Saving, PosDue, PosNotDue, TruncatePos,
        WritePos, Compacting, CompactSkip, Compact, CompactRenameFails,
        CompactReopenFails, Reply, Calling, Call, Send, Return, CloseMark, CloseFile,
        Restart, DropGroup, vars, disk
<1> QED
    BY <1>2, <1>3, <1>4 DEF Next, Reader, Flushing, Appending

(* Batches, drains, failing groups and restarts keep the order of each stream, and
   put a fork after everything logged before it (wal.go:201-232, buffer.go). *)
THEOREM OrderIsKept == Spec => OrderWithinLife
<1>1. TypeInv /\ OrderInv /\ [Next]_vars =>
          [\A it \in Items : ~torn /\ applied'[it] > applied[it] =>
              /\ \A jt \in Items : Later(jt, it) /\ Read(jt) => jt \in pending
              /\ it[2] = "fork" => \A jt \in pending : it[1] <= jt[1]]_vars
  <2> SUFFICES ASSUME TypeInv, OrderInv, [Next]_vars,
                      NEW it \in Items, ~torn, applied'[it] > applied[it]
               PROVE  /\ \A jt \in Items : Later(jt, it) /\ Read(jt) => jt \in pending
                      /\ it[2] = "fork" => \A jt \in pending : it[1] <= jt[1]
      OBVIOUS
  <2>1. PICK S \in ReadyGroups : it \in S
      BY OnlyGroupsAreWritten
  <2>2. it \in pending
      BY <2>1, GroupInBatch
  <2>3. it[2] = "fork" => FirstFork(it)
      BY <2>1 DEF ReadyGroups, Group
  <2> QED
      BY <2>2, <2>3 DEF OrderInv, FirstFork
<1>2. Spec => []PosInv
    BY PosInvInit, PosInvStep, TypeInvHolds, PTL DEF Spec
<1>3. Spec => []OrderInv
    BY <1>2, OrderInvInit, OrderInvStep, TypeInvHolds, PTL DEF Spec
<1> QED
    BY <1>1, <1>3, TypeInvHolds, PTL DEF Spec, OrderWithinLife

-----------------------------------------------------------------------------
(* Nobody who waits is forgotten. *)

(* The reader leaves its loop by the branch of a closed log only. *)
WaitersInv ==
    /\ \A c \in Callers : fpc[c] = "wait" => chan = c \/ serving = c
    /\ path = "exit" => closed
    /\ rpc = "exited" => path = "exit"

LEMMA WaitersInvInit == Init => WaitersInv
BY DEF Init, WaitersInv

LEMMA WaitersInvStep ==
    TypeInv /\ BarrierInv /\ WaitersInv /\ [Next]_vars => WaitersInv'
<1> SUFFICES ASSUME TypeInv, BarrierInv, WaitersInv, [Next]_vars
             PROVE  WaitersInv'
    OBVIOUS
<1>1. CASE LoopHead \/ Reply
    BY <1>1, CallersAssumption
    DEF LoopHead, TopClosed, TopOpen, SelectFlush, SelectDefault, Reply, WaitersInv,
        BarrierInv, TypeInv, TypeOK, Draining, shared
<1>2. CASE \/ Scanning \/ Flushing \/ PosDue \/ PosNotDue \/ TruncatePos \/ Compacting
  <2>1. UNCHANGED <<shared, serving>>
      BY <1>2
      DEF Scanning, ScanLine, ScanEOF, DrainLine, DrainEOF, Flushing, FlushGroup, DropGroup,
          FlushDone, PosDue, PosNotDue, TruncatePos, Compacting, CompactSkip, Compact,
          CompactRenameFails, CompactReopenFails
  <2>2. rpc' # "exited" /\ (path' = path \/ path' # "exit")
    <3>1. CASE Scanning
        BY <3>1 DEF Scanning, ScanLine, ScanEOF, DrainLine, DrainEOF
    <3>2. CASE Flushing
        BY <3>2 DEF Flushing, FlushGroup, DropGroup, FlushDone, AfterFlush
    <3>3. CASE PosDue \/ PosNotDue \/ TruncatePos
        BY <3>3 DEF PosDue, PosNotDue, TruncatePos
    <3>4. CASE Compacting
        BY <3>4
        DEF Compacting, CompactSkip, Compact, CompactRenameFails, CompactReopenFails
    <3> QED
        BY <1>2, <3>1, <3>2, <3>3, <3>4
  <2> QED
      BY <2>1, <2>2 DEF WaitersInv, shared
<1>3. CASE WritePos
  <2>1. UNCHANGED <<shared, serving, path>> /\ rpc' = AfterSave
      BY <1>3 DEF WritePos
  <2>2. AfterSave = "exited" => path = "exit"
      BY DEF AfterSave, TypeInv, TypeOK, Paths
  <2> QED
      BY <2>1, <2>2 DEF WaitersInv, shared
<1>4. CASE Appending
    BY <1>4
    DEF Appending, AppendNow, AppendSlow, AppendResume, AppendResumeFails, WaitersInv,
        reader, shared
<1>5. CASE Calling
  <2>1. PICK c \in Callers : Call(c) \/ Send(c) \/ Return(c) \/ CloseMark(c) \/ CloseFile(c)
      BY <1>5 DEF Calling
  <2>2. /\ UNCHANGED <<rpc, path, serving>>
        /\ closed => closed'
        /\ \A d \in Callers : fpc'[d] = "wait" => fpc[d] = "wait" \/ (chan = None /\ chan' = d)
        /\ chan # None => chan' = chan
      BY <2>1 DEF Call, Send, Return, CloseMark, CloseFile, TypeInv, TypeOK, reader
  <2> QED
      BY <2>2, CallersAssumption DEF WaitersInv
<1>6. CASE Restart
    BY <1>6 DEF Restart, WaitersInv
<1>7. CASE UNCHANGED vars
    BY <1>7 DEF vars, reader, shared, WaitersInv
<1> QED
    BY <1>1, <1>2, <1>3, <1>4, <1>5, <1>6, <1>7 DEF Next, Reader, Saving

(* A caller of Flush or Close that waits has its channel in flushNow or with the
   reader until it is answered or the process ends, whatever fails; and a reader
   that has left its loop left it because the log was closed, with nobody in its
   hands (wal.go:243-261, 363-367). *)
THEOREM NobodyIsForgotten == Spec => []WaitersAreKnown
<1>1. TypeInv /\ WaitersInv => WaitersAreKnown
    BY DEF TypeInv, WaitersInv, WaitersAreKnown, Draining
<1> QED
    BY <1>1, WaitersInvInit, WaitersInvStep, TypeInvHolds, BarrierInvHolds, PTL DEF Spec

-----------------------------------------------------------------------------
(* The log is read like LineReader. *)

Batch == {it[1] : it \in pending}

LEMMA ReadingInit == Init => Reading!Init
BY DEF Init, Reading!Init, SavedLine, Locked

(* Only Append writes lines, and nothing mends a torn log. *)
LEMMA LinesStay ==
    ASSUME TypeInv, [Next]_vars, ~Appending
    PROVE  log' = log /\ (torn => torn')
<1>1. CASE LoopHead \/ Scanning \/ Reply
    BY <1>1
    DEF LoopHead, TopClosed, TopOpen, SelectFlush, SelectDefault, Scanning, ScanLine,
        ScanEOF, DrainLine, DrainEOF, Reply, disk
<1>2. CASE Flushing \/ Saving \/ Compacting
    BY <1>2
    DEF Flushing, FlushGroup, DropGroup, FlushDone, Saving, PosDue, PosNotDue, TruncatePos,
        WritePos, Compacting, CompactSkip, Compact, CompactRenameFails, CompactReopenFails,
        disk
<1>3. CASE Calling
    BY <1>3 DEF Calling, Call, Send, Return, CloseMark, CloseFile, disk
<1>4. CASE Restart \/ UNCHANGED vars
    BY <1>4 DEF Restart, vars, disk, TypeInv, TypeOK
<1> QED
    BY <1>1, <1>2, <1>3, <1>4 DEF Next, Reader

(* A line is in the batch with all its items or, when it has none, not at all. *)
LEMMA TakingIsReading ==
    ASSUME TypeInv, ~torn, TakeLine,
           \/ UNCHANGED <<log, base, posFile, path, rpc, torn>>
           \/ UNCHANGED <<log, base, posFile, torn>> /\ ~Locked /\ ~Locked'
    PROVE  Reading!Read
<1>1. NextLine \in 1..Len(log) /\ base + pos < Len(log)
    BY DEF TakeLine, HasLine, NextLine, TypeInv, TypeOK
<1>2. SavedLine' = SavedLine
    BY DEF SavedLine, Locked
<1>3. base' + pos' = (base + pos) + 1
    BY DEF TakeLine, TypeInv, TypeOK
<1>4. Batch' = IF HoldsItems(log[NextLine]) THEN Batch \cup {NextLine} ELSE Batch
  <2>1. pending' = pending \cup ({NextLine} \X log[NextLine].kinds)
      BY DEF TakeLine, ItemsOf
  <2>2. CASE HoldsItems(log[NextLine])
    <3>1. PICK k \in log[NextLine].kinds : TRUE
        BY <2>2 DEF HoldsItems
    <3>2. <<NextLine, k>> \in pending' /\ <<NextLine, k>>[1] = NextLine
        BY <2>1, <3>1
    <3>3. \A it \in pending' : it \in pending \/ it[1] = NextLine
        BY <2>1
    <3> QED
        BY <2>1, <2>2, <3>2, <3>3 DEF Batch
  <2>3. CASE ~HoldsItems(log[NextLine])
    <3>1. pending' = pending
        BY <2>1, <2>3 DEF HoldsItems
    <3> QED
        BY <2>3, <3>1 DEF Batch
  <2> QED
      BY <2>2, <2>3
<1> QED
    BY <1>1, <1>2, <1>3, <1>4 DEF Reading!Read, Batch, NextLine

LEMMA ReadingStep ==
    ASSUME TypeInv, TypeInv', PosInv, [Next]_vars
    PROVE  [Reading!Next]_Reading!vars
<1>1. /\ base \in Nat /\ pos \in Nat /\ posFile \in Nat /\ Len(log) \in Nat
      /\ base' \in Nat /\ pos' \in Nat /\ posFile' \in Nat
    BY DEF TypeInv, TypeOK
<1>2. ASSUME UNCHANGED <<log, base, pos, pending, torn>>, SavedLine' = SavedLine
      PROVE  UNCHANGED Reading!vars
    BY <1>2 DEF Reading!vars
<1>3. CASE Appending
  <2>1. /\ UNCHANGED <<base, pos, posFile, pending, path, rpc, torn>>
        /\ log' = log \/ \E p \in Payloads : log' = Append(log, p)
      BY <1>3
      DEF Appending, AppendNow, AppendSlow, AppendResume, AppendResumeFails, WriteLine,
          disk, reader
  <2>2. SavedLine' = SavedLine
      BY <2>1 DEF SavedLine, Locked
  <2>3. CASE log' = log
      BY <2>1, <2>2, <2>3 DEF Reading!vars
  <2>4. CASE \E p \in Payloads : log' = Append(log, p)
      BY <2>1, <2>2, <2>4 DEF Reading!Next, Reading!Write
  <2> QED
      BY <2>1, <2>3, <2>4
<1>4. CASE ~Appending /\ torn'
  <2>1. log' = log /\ torn' = TRUE
      BY <1>4, LinesStay DEF TypeInv, TypeOK
  <2>2. base' + pos' \in Nat /\ SavedLine' \in Nat
    <3>1. \A m, n \in Nat : m + n \in Nat
        OBVIOUS
    <3> QED
        BY <1>1, <3>1 DEF SavedLine
  <2>3. Batch' \subseteq 1..Len(log)
    <3>1. \A it \in pending' : it[1] \in 1..Len(log')
        BY BoundsAssumption DEF TypeInv, TypeOK, InLog, Items
    <3> QED
        BY <2>1, <3>1 DEF Batch
  <2> QED
      BY <2>1, <2>2, <2>3 DEF Reading!Next, Reading!Tear, Batch, SavedLine
<1>5. ASSUME ~Appending, ~torn' PROVE [Reading!Next]_Reading!vars
  <2>1. /\ log' = log
        /\ torn = FALSE /\ torn' = FALSE
      BY <1>5, LinesStay DEF TypeInv, TypeOK
  <2>2. /\ base + pos <= Len(log)
        /\ ~Locked => posFile <= pos
      BY <2>1 DEF PosInv
  <2>3. CASE ScanLine \/ DrainLine
    <3>1. /\ TakeLine /\ UNCHANGED <<base, posFile>>
          /\ ~Locked /\ ~Locked'
        BY <2>3 DEF ScanLine, DrainLine, Locked, disk
    <3> QED
        BY <2>1, <3>1, TakingIsReading DEF Reading!Next
  <2>4. ASSUME NEW S \in ReadyGroups, FlushGroup(S) \/ DropGroup(S)
        PROVE  Reading!Leave
    <3>1. /\ UNCHANGED <<base, pos, posFile, rpc, path>>
          /\ pending' \subseteq pending
        BY <2>4 DEF FlushGroup, DropGroup, disk
    <3> QED
        BY <2>1, <3>1 DEF Reading!Leave, SavedLine, Locked
  <2>5. CASE FlushDone
    <3>1. /\ UNCHANGED <<base, pos, posFile, pending, path>> /\ ~Locked
        BY <2>5 DEF FlushDone, Locked, disk
    <3>2. SavedLine' \in 0..SavedLine
        BY <1>1, <3>1 DEF SavedLine
    <3> QED
        BY <2>1, <3>1, <3>2 DEF Reading!Next, Reading!Truncate
  <2>6. CASE PosDue \/ PosNotDue
    <3>1. UNCHANGED <<base, pos, posFile, pending>> /\ ~Locked /\ ~Locked'
        BY <2>6 DEF PosDue, PosNotDue, Locked, disk, TypeInv
    <3> QED
        BY <1>2, <2>1, <3>1 DEF SavedLine
  <2>7. CASE TruncatePos
    <3>1. UNCHANGED <<base, pos, pending, path>> /\ posFile' = 0 /\ Locked' = Locked
        BY <2>7 DEF TruncatePos, Locked
    <3>2. SavedLine' \in 0..SavedLine
        BY <1>1, <3>1 DEF SavedLine
    <3> QED
        BY <2>1, <3>1, <3>2 DEF Reading!Next, Reading!Truncate
  <2>8. CASE WritePos
    <3>1. UNCHANGED <<base, pos, pending, path>> /\ posFile' = pos /\ ~Locked'
        BY <2>8 DEF WritePos, SavedPos, AfterSave, Locked
    <3>2. SavedLine' = base + pos
        BY <1>1, <3>1 DEF SavedLine
    <3> QED
        BY <2>1, <3>1, <3>2 DEF Reading!Next, Reading!Save
  <2>9. CASE Compact
    <3>1. /\ UNCHANGED <<posFile, pending>>
          /\ base' = Dropped /\ pos' = 0
          /\ Locked'
        BY <2>9 DEF Compact, Locked
    <3>2. base' = base + pos
        BY <1>1, <2>2, <3>1 DEF Dropped, HasLine
    <3>3. SavedLine' = base + pos /\ base' + pos' = base + pos
        BY <1>1, <3>1, <3>2 DEF SavedLine
    <3> QED
        BY <2>1, <3>1, <3>3 DEF Reading!Next, Reading!Save
  <2>10. CASE Restart
    <3>1. /\ UNCHANGED <<base, posFile>>
          /\ pos' = RestoredPos /\ pending' = {}
          /\ ~Locked /\ ~Locked'
        BY <2>1, <2>10 DEF Restart, Locked, disk
    <3>2. RestoredPos = posFile
        BY <1>1, <2>2, <3>1 DEF RestoredPos, FileLen
    <3>3. SavedLine' = SavedLine /\ base' + pos' = SavedLine' /\ SavedLine \in 0..SavedLine
        BY <1>1, <3>1, <3>2 DEF SavedLine
    <3> QED
        BY <2>1, <3>1, <3>3 DEF Reading!Next, Reading!Restart
  <2>11. CASE \/ LoopHead \/ ScanEOF \/ DrainEOF \/ Reply \/ CompactSkip
              \/ CompactRenameFails
    <3>1. UNCHANGED <<base, pos, posFile, pending>> /\ ~Locked /\ ~Locked'
        BY <2>11
        DEF LoopHead, TopClosed, TopOpen, SelectFlush, SelectDefault, ScanEOF, DrainEOF,
            Reply, CompactSkip, CompactRenameFails, WorthCompacting, Locked, disk
    <3> QED
        BY <1>2, <2>1, <3>1 DEF SavedLine
  <2>12. CASE Calling \/ UNCHANGED vars
    <3>1. UNCHANGED <<base, pos, posFile, pending, path, rpc>>
        BY <2>12 DEF Calling, Call, Send, Return, CloseMark, CloseFile, vars, disk, reader
    <3> QED
        BY <1>2, <2>1, <3>1 DEF SavedLine, Locked
  <2>13. ~CompactReopenFails
      BY <2>1 DEF CompactReopenFails
  <2> QED
      BY <1>5, <2>1, <2>3, <2>4, <2>5, <2>6, <2>7, <2>8, <2>9, <2>10, <2>11, <2>12, <2>13
      DEF Next, Reader, Scanning, Flushing, Saving, Compacting, Reading!Next
<1> QED
    BY <1>3, <1>4, <1>5

(* Whatever fails, the file, its compaction, wal.pos and the restarts come to a
   sequence of lines and a cursor: lines are read in turn and once in a life, and
   a restart begins where a saved position was, or before; until a compaction
   tears. *)
THEOREM LogIsLineReader == Spec => ImplementsLineReader
<1>1. Spec => []PosInv
    BY PosInvInit, PosInvStep, TypeInvHolds, PTL DEF Spec
<1>2. TypeInv /\ TypeInv' /\ PosInv /\ [Next]_vars => [Reading!Next]_Reading!vars
    BY ReadingStep
<1> QED
    BY <1>1, <1>2, ReadingInit, TypeInvHolds, PTL
    DEF Spec, ImplementsLineReader, Reading!Spec

=============================================================================
