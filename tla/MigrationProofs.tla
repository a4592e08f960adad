-------------------------- MODULE MigrationProofs --------------------------
(***************************************************************************)
(* Theorems about Migration, for any projects, runs, numbers of pieces and *)
(* bounds.                                                                 *)
(***************************************************************************)
EXTENDS Migration, TLAPS

LEMMA PartFacts ==
    /\ Len(PartSeq) = 7
    /\ \A k \in 1..7 : PartSeq[k] \in Parts
    /\ \A p \in Parts : \E k \in 1..7 : p = PartSeq[k]
BY DEF PartSeq, Parts

LEMMA IdleTypes == IdleWorker \in Workers /\ IdleApi \in Handlers
BY PartFacts DEF IdleWorker, Workers, WorkerPCs, IdleApi, Handlers, ProjectStatus

(* What the ways in which the worker moves preserve. *)
LEMMA Going ==
    ASSUME w \in Workers, NEW pc \in WorkerPCs
    PROVE  [w EXCEPT !.pc = pc] \in Workers
BY DEF Workers

LEMMA GoingTo ==
    ASSUME w \in Workers, NEW pc \in WorkerPCs, NEW n \in Nat
    PROVE  [w EXCEPT !.pc = pc, !.at = n] \in Workers
BY DEF Workers

LEMMA GoingOn ==
    ASSUME w \in Workers, NEW pc \in WorkerPCs, w.part # Len(PartSeq)
    PROVE  Advance(pc) \in Workers
<1>1. w.part + 1 \in 1..Len(PartSeq)  BY PartFacts DEF Workers
<1> QED BY <1>1 DEF Workers, Advance

LEMMA PlaceTypes == \A r, p, i : PieceOrMark(r, p, i) \in WorkerPCs
BY DEF PieceOrMark, WorkerPCs, Busy, OnPart

LEMMA PartTypes == w \in Workers => w.part \in 1..7 /\ Part \in Parts /\ w.at \in Nat /\ w.sent \in Nat
BY PartFacts DEF Workers, Part

LEMMA NextPartType == w \in Workers /\ NextPart => w' \in Workers
<1> SUFFICES ASSUME w \in Workers, NextPart PROVE w' \in Workers  OBVIOUS
<1>1. {"finish", "after", "part"} \subseteq WorkerPCs  BY DEF WorkerPCs, Busy
<1> QED BY <1>1, Going, GoingOn DEF NextPart

LEMMA NextPieceType == w \in Workers => NextPiece \in Workers
<1> SUFFICES ASSUME w \in Workers PROVE NextPiece \in Workers  OBVIOUS
<1>1. w.at + 1 \in Nat  BY PartTypes
<1> QED BY <1>1, PlaceTypes DEF NextPiece, Workers

LEMMA PieceTypes == \A r \in Runs, p \in Parts : PieceSet(r, p) \subseteq Parts \X Nat
<1> SUFFICES ASSUME NEW r \in Runs, NEW p \in Parts PROVE PieceSet(r, p) \subseteq Parts \X Nat
  OBVIOUS
<1>1. Pieces[r][p] \in Nat  BY SourceAssumption
<1> QED BY <1>1 DEF PieceSet

LEMMA TypeInit == Init => TypeOK
<1> SUFFICES ASSUME Init PROVE TypeOK  OBVIOUS
<1>1. pstatus \in [Projects -> ProjectStatus] /\ rstatus \in [Runs -> RunStatus]
  BY DEF Init, ProjectStatus, RunStatus
<1>2. flags \in [Runs -> SUBSET Parts] /\ sent \in [Runs -> Nat] /\ errors \in [Runs -> Nat]
  BY DEF Init
<1>3. w \in Workers /\ api \in Handlers  BY IdleTypes DEF Init
<1>4. /\ got \in [Runs -> SUBSET (Parts \X Nat)] /\ missed \in [Runs -> SUBSET (Parts \X Nat)]
      /\ cut \in [Runs -> SUBSET Parts]
  BY DEF Init
<1> QED BY <1>1, <1>2, <1>3, <1>4 DEF Init, TypeOK

LEMMA TypeStep == TypeOK /\ [Next]_vars => TypeOK'
<1> SUFFICES ASSUME TypeOK, [Next]_vars PROVE TypeOK'  OBVIOUS
<1> USE DEF TypeOK
<1>t. /\ w \in Workers
      /\ w.part \in 1..7 /\ Part \in Parts /\ w.at \in Nat /\ w.sent \in Nat
  BY PartTypes
<1>n. <<Part, w.at>> \in Parts \X Nat  BY <1>t
<1>p. {"idle", "pick", "pickRun", "error", "list", "upsert", "gate", "send", "count", "mark",
       "begin", "fetch", "part", "after", "finish", "check", "close"} \subseteq WorkerPCs
  BY DEF WorkerPCs, Discovering, Busy, OnPart, Closing
<1>f. ASSUME NEW kind, Fault(kind) PROVE faults' \in Nat  BY <1>f DEF Fault
<1>q. ASSUME Request PROVE requests' \in Nat  BY <1>q DEF Request
(* The steps that change only the worker and the counter of faults. *)
<1>w. ASSUME w' \in Workers, faults' \in Nat,
             UNCHANGED <<dbVars, procVars, api, got, lossVars, reopened, stranded, requests>>
      PROVE TypeOK'
  BY <1>w DEF dbVars, rowVars, procVars, lossVars
<1>1. CASE Tick  BY <1>1, <1>w, <1>p, Going DEF Tick, bounds
<1>2. CASE \E p \in Projects : PickProject(p)
  <2>1. PICK p \in Projects : PickProject(p)  BY <1>2
  <2>2. w' \in Workers  BY <2>1, <1>p DEF PickProject, Workers
  <2>3. pstatus' \in [Projects -> ProjectStatus]  BY <2>1 DEF PickProject, ProjectStatus
  <2> QED BY <2>1, <2>2, <2>3 DEF PickProject, rowVars, procVars, lossVars, bounds
<1>3. CASE NoProject  BY <1>3, <1>w, <1>p, Going DEF NoProject, bounds
<1>4. CASE \E r \in Runs : PickRun(r)
  <2>1. PICK r \in Runs : PickRun(r)  BY <1>4
  <2>2. w' \in Workers  BY <2>1, <1>p, IdleTypes DEF PickRun, Workers
  <2> QED BY <2>1, <2>2, <1>w DEF PickRun, bounds
<1>5. CASE NoRun  BY <1>5, <1>w, IdleTypes DEF NoRun, bounds
<1>6. CASE Discover
  <2>1. CASE ListRuns
    <3>1. w' \in Workers  BY <2>1, <1>p DEF ListRuns, Workers, RunsOf
    <3> QED BY <2>1, <3>1, <1>w DEF ListRuns, bounds
  <2>2. CASE ListFails
    BY <2>2, <1>f, IdleTypes
    DEF ListFails, SetProject, ProjectStatus, rowVars, procVars, lossVars
  <2>3. CASE Discovered
    BY <2>3, IdleTypes
    DEF Discovered, SetProject, ProjectStatus, rowVars, procVars, lossVars, bounds
  <2>4. CASE \E r \in Runs : UpsertRow(r)
    <3>1. PICK r \in Runs : UpsertRow(r)  BY <2>4
    <3>2. w' \in Workers  BY <3>1 DEF UpsertRow, Workers
    <3>3. rstatus' \in [Runs -> RunStatus]  BY <3>1 DEF UpsertRow, RunStatus
    <3> QED BY <3>1, <3>2, <3>3 DEF UpsertRow, rowVars, procVars, lossVars, bounds
  <2> QED BY <1>6, <2>1, <2>2, <2>3, <2>4 DEF Discover
<1>7. CASE Migrate
  <2>1. CASE BeginRun
    BY <2>1, <1>p, Going
    DEF BeginRun, SetRun, RunStatus, rowVars, procVars, lossVars, bounds
  <2>2. CASE FetchRun  BY <2>2, <1>w, <1>p, Going DEF FetchRun, bounds
  <2>3. CASE StartFails
    <3>1. faults' \in Nat  BY <2>3, <1>f DEF StartFails
    <3> QED BY <2>3, <3>1, <1>w, <1>p, Going DEF StartFails
  <2>4. CASE SkipPart  BY <2>4, <1>w, NextPartType DEF SkipPart, bounds
  <2>5. CASE StartPart
    <3>1. FirstPiece \in Nat  BY <1>t DEF FirstPiece
    <3>2. w' \in Workers  BY <2>5, <3>1, PlaceTypes, GoingTo DEF StartPart
    <3> QED BY <2>5, <3>2, <1>w DEF StartPart, bounds
  <2>6. CASE SourceHasNothing
    <3>1. w' \in Workers  BY <2>6, <1>p, Going DEF SourceHasNothing
    <3>2. missed' \in [Runs -> SUBSET (Parts \X Nat)]
      BY <2>6, <1>t, PieceTypes DEF SourceHasNothing
    <3>3. faults' \in Nat  BY <2>6, <1>f DEF SourceHasNothing
    <3> QED BY <2>6, <3>1, <3>2, <3>3 DEF SourceHasNothing, dbVars, rowVars, procVars
  <2>7. CASE PassGate
    <3>1. w' \in Workers  BY <2>7, <1>p, Going DEF PassGate
    <3> QED BY <2>7, <3>1, <1>w DEF PassGate, bounds
  <2>8. CASE CutShort
    <3>1. w' \in Workers  BY <2>8, <1>p, Going DEF CutShort
    <3>2. cut' \in [Runs -> SUBSET Parts]  BY <2>8, <1>t DEF CutShort
    <3> QED BY <2>8, <3>1, <3>2 DEF CutShort, dbVars, rowVars, procVars, bounds
  <2>9. CASE LeaveRun  BY <2>9, <1>w, IdleTypes DEF LeaveRun, bounds
  <2>d. ASSUME Deliver \/ UNCHANGED got PROVE got' \in [Runs -> SUBSET (Parts \X Nat)]
    BY <2>d, <1>n DEF Deliver
  <2>10. CASE SendPiece
    <3>1. w' \in Workers  BY <2>10, <1>p, Going, NextPieceType DEF SendPiece
    <3>2. got' \in [Runs -> SUBSET (Parts \X Nat)]  BY <2>10, <2>d DEF SendPiece
    <3> QED BY <2>10, <3>1, <3>2 DEF SendPiece, dbVars, rowVars, procVars, lossVars, bounds
  <2>11. CASE SendFails
    <3>1. w' \in Workers  BY <2>11, <1>p, Going DEF SendFails
    <3>2. got' \in [Runs -> SUBSET (Parts \X Nat)]  BY <2>11, <2>d DEF SendFails
    <3>3. faults' \in Nat  BY <2>11, <1>f DEF SendFails
    <3> QED BY <2>11, <3>1, <3>2, <3>3 DEF SendFails, dbVars, rowVars, procVars, lossVars
  <2>12. CASE FileMissing
    <3>1. w' \in Workers  BY <2>12, NextPieceType DEF FileMissing
    <3>2. missed' \in [Runs -> SUBSET (Parts \X Nat)]  BY <2>12, <1>n DEF FileMissing
    <3>3. faults' \in Nat  BY <2>12, <1>f DEF FileMissing
    <3> QED BY <2>12, <3>1, <3>2, <3>3 DEF FileMissing, dbVars, rowVars, procVars
  <2>13. CASE CountSent
    <3>1. w' \in Workers  BY <2>13, NextPieceType DEF CountSent
    <3>2. sent' \in [Runs -> Nat]  BY <2>13, <1>t DEF CountSent
    <3> QED BY <2>13, <3>1, <3>2 DEF CountSent, procVars, lossVars, bounds
  <2>14. CASE MarkPart
    <3>1. w' \in Workers  BY <2>14, NextPartType DEF MarkPart
    <3>2. flags' \in [Runs -> SUBSET Parts]  BY <2>14, <1>t DEF MarkPart
    <3> QED BY <2>14, <3>1, <3>2 DEF MarkPart, procVars, lossVars, bounds
  <2>15. CASE FinishRun
    BY <2>15, <1>p, Going
    DEF FinishRun, SetRun, RunStatus, rowVars, procVars, lossVars, bounds
  <2>16. CASE RecordError
    <3>1. errors' \in [Runs -> Nat]
      <4>1. ASSUME NEW r \in Runs PROVE errors'[r] \in Nat
        <5>1. errors'[r] = errors[r] \/ errors'[r] = errors[r] + 1  BY <2>16 DEF RecordError
        <5> QED BY <5>1
      <4> QED BY <2>16, <4>1 DEF RecordError
    <3>2. rstatus' \in [Runs -> RunStatus]  BY <2>16 DEF RecordError, SetRun, RunStatus
    <3> QED BY <2>16, <3>1, <3>2, IdleTypes DEF RecordError, procVars, lossVars, bounds
  <2>17. CASE CheckProject
    <3>1. w' \in Workers  BY <2>17, <1>p, Going, IdleTypes DEF CheckProject
    <3> QED BY <2>17, <3>1, <1>w DEF CheckProject, bounds
  <2>18. CASE CloseProject
    <3>1. pstatus' \in [Projects -> ProjectStatus]  BY <2>18 DEF CloseProject, ProjectStatus
    <3> QED BY <2>18, <3>1, IdleTypes DEF CloseProject, rowVars, procVars, lossVars, bounds
  <2> QED BY <1>7, <2>1, <2>2, <2>3, <2>4, <2>5, <2>6, <2>7, <2>8, <2>9, <2>10, <2>11, <2>12,
             <2>13, <2>14, <2>15, <2>16, <2>17, <2>18 DEF Migrate
<1>8. CASE Reset
  <2>c. ASSUME NEW R \in SUBSET Runs, ClearRows(R)
        PROVE  /\ rstatus' \in [Runs -> RunStatus] /\ flags' \in [Runs -> SUBSET Parts]
               /\ sent' \in [Runs -> Nat] /\ errors' \in [Runs -> Nat]
               /\ got' \in [Runs -> SUBSET (Parts \X Nat)]
               /\ missed' \in [Runs -> SUBSET (Parts \X Nat)]
               /\ cut' \in [Runs -> SUBSET Parts] /\ overtaken' \subseteq Runs
    <3>1. rstatus' \in [Runs -> RunStatus]  BY <2>c DEF ClearRows, RunStatus
    <3>2. flags' \in [Runs -> SUBSET Parts] /\ sent' \in [Runs -> Nat] /\ errors' \in [Runs -> Nat]
      BY <2>c DEF ClearRows
    <3>3. /\ got' \in [Runs -> SUBSET (Parts \X Nat)]
          /\ missed' \in [Runs -> SUBSET (Parts \X Nat)] /\ cut' \in [Runs -> SUBSET Parts]
      BY <2>c DEF ClearRows
    <3>4. overtaken' \subseteq Runs  BY <2>c DEF ClearRows
    <3> QED BY <3>1, <3>2, <3>3, <3>4
  <2>1. CASE \E r \in Runs : ResetRun(r)
    <3>1. PICK r \in Runs : ResetRun(r)  BY <2>1
    <3>2. ClearRows({r}) /\ {r} \in SUBSET Runs  BY <3>1 DEF ResetRun
    <3>3. reopened' \subseteq Projects /\ requests' \in Nat
      BY <3>1, <1>q DEF ResetRun, Reopen
    <3> QED BY <3>1, <3>2, <3>3, <2>c DEF ResetRun, procVars
  <2>2. CASE \E p \in Projects, force \in BOOLEAN : ResetProject(p, force)
    <3>1. PICK p \in Projects, force \in BOOLEAN : ResetProject(p, force)  BY <2>2
    <3>2. api' \in Handlers /\ requests' \in Nat  BY <3>1, <1>q DEF ResetProject, Handlers
    <3> QED BY <3>1, <3>2 DEF ResetProject, dbVars, rowVars, procVars, lossVars
  <2>3. CASE ResetRows
    <3>1. api' \in Handlers /\ reopened' \subseteq Projects
      BY <2>3 DEF ResetRows, Handlers, Reopen
    <3>2. CASE api.force
      <4>1. ClearRows(Rows(api.project)) /\ Rows(api.project) \in SUBSET Runs
        BY <2>3, <3>2 DEF ResetRows, Rows, RunsOf
      <4> QED BY <2>3, <3>1, <4>1, <2>c DEF ResetRows, procVars, bounds
    <3>3. CASE ~api.force
      <4>1. rstatus' \in [Runs -> RunStatus] /\ errors' \in [Runs -> Nat]
        BY <2>3, <3>3 DEF ResetRows, RunStatus
      <4> QED BY <2>3, <3>1, <3>3, <4>1 DEF ResetRows, procVars, lossVars, bounds
    <3> QED BY <3>2, <3>3
  <2>4. CASE ResetStatus
    <3>1. pstatus' \in [Projects -> ProjectStatus] /\ reopened' \subseteq Projects
      BY <2>4 DEF ResetStatus, ProjectStatus
    <3> QED BY <2>4, <3>1, IdleTypes DEF ResetStatus, rowVars, procVars, lossVars, bounds
  <2> QED BY <1>8, <2>1, <2>2, <2>3, <2>4 DEF Reset
<1>9. CASE \E p \in Projects : Schedule(p)
  BY <1>9 DEF Schedule, ProjectStatus, rowVars, procVars, lossVars, bounds
<1>10. CASE Pause \/ Resume \/ Stop
  BY <1>10, <1>q DEF Pause, Resume, Stop, dbVars, rowVars, lossVars, bounds
<1>11. CASE Exit \/ Crash
  <2>1. stranded' \subseteq Projects /\ up' \in BOOLEAN /\ w' = IdleWorker /\ api' = IdleApi
    BY <1>11 DEF Exit, Crash, Gone
  <2>2. faults' \in Nat  BY <1>11, <1>f DEF Exit, Crash, bounds
  <2> QED BY <1>11, <2>1, <2>2, IdleTypes
          DEF Exit, Crash, dbVars, rowVars, lossVars, bounds
<1>12. CASE Start  BY <1>12 DEF Start, dbVars, rowVars, lossVars, bounds
<1>13. CASE UNCHANGED vars
  BY <1>13 DEF vars, dbVars, rowVars, procVars, lossVars, bounds
<1> QED BY <1>1, <1>2, <1>3, <1>4, <1>5, <1>6, <1>7, <1>8, <1>9, <1>10, <1>11, <1>12, <1>13
        DEF Next, Work

(* The variables always have their types. *)
THEOREM TypeCorrect == Spec => []TypeOK
BY TypeInit, TypeStep, PTL DEF Spec

-----------------------------------------------------------------------------
(* What the worker knows while it has a row in its hands: what it has gone
   through, or will skip, is with worb.  The operators take the contents of
   got, missed and cut as arguments. *)

Full(r, p, g, m, c) == p \in c \/ PieceSet(r, p) \subseteq g \cup m

Lines(n, g) == \A i \in 1..n : <<"history", i>> \in g

Sent(v, g, m) ==
    /\ \A i \in 1..(v.at - 1) : <<PartSeq[v.part], i>> \in g \cup m
    /\ PartSeq[v.part] = "history" => Lines(v.at - 1, g)

Facts(v, r, g, m, c) ==
    /\ \A p \in v.flags : Full(r, p, g, m, c)
    /\ Lines(v.sent, g)
    /\ \A k \in 1..(v.part - 1) : Full(r, PartSeq[k], g, m, c)
    /\ v.pc \in {"gate", "send", "count"} => Sent(v, g, m)
    /\ v.pc = "count" => PartSeq[v.part] = "history" /\ <<"history", v.at>> \in g
    /\ v.pc = "mark" => Full(r, PartSeq[v.part], g, m, c)
    /\ v.pc = "finish" => \A p \in Parts : Full(r, p, g, m, c)

Hands ==
    w.pc \in Busy =>
        /\ w.run \in Runs
        /\ w.run \notin overtaken => Facts(w, w.run, got[w.run], missed[w.run], cut[w.run])

RowInv(r) ==
    /\ \A p \in flags[r] : Full(r, p, got[r], missed[r], cut[r])
    /\ Lines(sent[r], got[r])
    /\ rstatus[r] = "done" => \A p \in Parts : Full(r, p, got[r], missed[r], cut[r])

CopyInv == Hands /\ \A r \in Runs \ overtaken : RowInv(r)

LEMMA FullGrows ==
    ASSUME NEW r, NEW p, NEW g, NEW m, NEW c, NEW gg, NEW mm, NEW cc,
           Full(r, p, g, m, c), g \subseteq gg, m \subseteq mm, c \subseteq cc
    PROVE  Full(r, p, gg, mm, cc)
BY DEF Full

LEMMA FactsGrow ==
    ASSUME NEW v, NEW r, NEW g, NEW m, NEW c, NEW gg, NEW mm, NEW cc,
           Facts(v, r, g, m, c), g \subseteq gg, m \subseteq mm, c \subseteq cc
    PROVE  Facts(v, r, gg, mm, cc)
<1>1. \A p : Full(r, p, g, m, c) => Full(r, p, gg, mm, cc)  BY FullGrows
<1>2. \A n : Lines(n, g) => Lines(n, gg)  BY DEF Lines
<1>3. Sent(v, g, m) => Sent(v, gg, mm)  BY <1>2 DEF Sent
<1> QED BY <1>1, <1>2, <1>3 DEF Facts

(* A move to a place where nothing more is known. *)
LEMMA FactsGoing ==
    ASSUME NEW v \in Workers, NEW r, NEW g, NEW m, NEW c, Facts(v, r, g, m, c),
           NEW pc \in {"fetch", "part", "after", "error"}
    PROVE  Facts([v EXCEPT !.pc = pc], r, g, m, c)
BY DEF Facts, Workers

(* The place before piece n of the part, when the ones before n are there. *)
LEMMA FactsAt ==
    ASSUME NEW v \in Workers, NEW r \in Runs, NEW g, NEW m, NEW c, Facts(v, r, g, m, c),
           NEW n \in Nat \ {0}, NEW pc,
           pc = PieceOrMark(r, PartSeq[v.part], n),
           \A i \in 1..(n - 1) : <<PartSeq[v.part], i>> \in g \cup m,
           PartSeq[v.part] = "history" => Lines(n - 1, g)
    PROVE  Facts([v EXCEPT !.pc = pc, !.at = n], r, g, m, c)
<1> DEFINE u == [v EXCEPT !.pc = pc, !.at = n]
<1>1. u.pc = pc /\ u.at = n /\ u.part = v.part /\ u.flags = v.flags /\ u.sent = v.sent
  BY DEF Workers
<1>2. PartSeq[v.part] \in Parts  BY PartFacts DEF Workers
<1>3. Pieces[r][PartSeq[v.part]] \in Nat  BY <1>2, SourceAssumption
<1>4. CASE n > Pieces[r][PartSeq[v.part]]
  <2>1. pc = "mark"  BY <1>4 DEF PieceOrMark
  <2>2. Full(r, PartSeq[v.part], g, m, c)  BY <1>3, <1>4 DEF Full, PieceSet
  <2> HIDE DEF u
  <2>3. Facts(u, r, g, m, c)  BY <1>1, <2>1, <2>2 DEF Facts
  <2> QED BY <2>3 DEF u
<1>5. CASE ~(n > Pieces[r][PartSeq[v.part]])
  <2>1. pc \in {"gate", "send"}  BY <1>5 DEF PieceOrMark
  <2>2. Sent(u, g, m)  BY <1>1 DEF Sent
  <2> HIDE DEF u
  <2>3. Facts(u, r, g, m, c)  BY <1>1, <2>1, <2>2 DEF Facts
  <2> QED BY <2>3 DEF u
<1> QED BY <1>4, <1>5

(* The place after a part that is whole. *)
LEMMA FactsNext ==
    ASSUME NEW v \in Workers, NEW r, NEW g, NEW m, NEW c, Facts(v, r, g, m, c),
           Full(r, PartSeq[v.part], g, m, c), NEW pc \in {"part", "after"}
    PROVE  /\ v.part = Len(PartSeq) => Facts([v EXCEPT !.pc = "finish"], r, g, m, c)
           /\ Facts([v EXCEPT !.pc = pc, !.part = @ + 1, !.at = 1], r, g, m, c)
<1>1. v.part \in 1..7  BY PartFacts DEF Workers
<1>2. \A k \in 1..v.part : Full(r, PartSeq[k], g, m, c)
  <2>1. ASSUME NEW k \in 1..v.part PROVE k = v.part \/ k \in 1..(v.part - 1)  BY <1>1
  <2> QED BY <2>1 DEF Facts
<1>3. ASSUME v.part = Len(PartSeq)
      PROVE  Facts([v EXCEPT !.pc = "finish"], r, g, m, c)
  <2>1. \A p \in Parts : Full(r, p, g, m, c)  BY <1>2, <1>3, PartFacts
  <2> QED BY <2>1 DEF Facts, Workers
<1>4. Facts([v EXCEPT !.pc = pc, !.part = @ + 1, !.at = 1], r, g, m, c)
  <2> DEFINE u == [v EXCEPT !.pc = pc, !.part = @ + 1, !.at = 1]
  <2>1. u.pc = pc /\ u.part = v.part + 1 /\ u.flags = v.flags /\ u.sent = v.sent
    BY DEF Workers
  <2>2. 1..(u.part - 1) = 1..v.part  BY <1>1, <2>1
  <2> HIDE DEF u
  <2>3. Facts(u, r, g, m, c)  BY <1>2, <2>1, <2>2 DEF Facts
  <2> QED BY <2>3 DEF u
<1> QED BY <1>3, <1>4

LEMMA CopyInit == Init => CopyInv
BY DEF Init, CopyInv, Hands, RowInv, Lines, IdleWorker, Busy, OnPart

(* What a step must show that leaves the rows alone and takes nothing back. *)
LEMMA CopyByHands ==
    ASSUME CopyInv, TypeOK, UNCHANGED <<flags, sent, rstatus, overtaken>>,
           \A r \in Runs : got[r] \subseteq got'[r] /\ missed[r] \subseteq missed'[r] /\ cut[r] \subseteq cut'[r],
           Hands'
    PROVE  CopyInv'
<1>1. ASSUME NEW r \in Runs \ overtaken' PROVE RowInv(r)'
  <2>1. RowInv(r)  BY <1>1 DEF CopyInv
  <2>2. \A p : Full(r, p, got[r], missed[r], cut[r]) => Full(r, p, got'[r], missed'[r], cut'[r])
    BY FullGrows
  <2>3. Lines(sent[r], got[r]) => Lines(sent[r], got'[r])  BY DEF Lines
  <2> QED BY <2>1, <2>2, <2>3 DEF RowInv
<1> QED BY <1>1 DEF CopyInv

LEMMA CopyStep == TypeOK /\ CopyInv /\ [Next]_vars => CopyInv'
<1> SUFFICES ASSUME TypeOK, CopyInv, [Next]_vars PROVE CopyInv'  OBVIOUS
<1>t. /\ w \in Workers
      /\ w.part \in 1..7 /\ Part \in Parts /\ w.at \in Nat /\ w.sent \in Nat
  BY PartTypes DEF TypeOK
<1>h. Hands  BY DEF CopyInv
<1>b. \A pc : pc \in Busy <=> pc \in {"begin", "fetch", "part", "after", "finish",
                                      "gate", "send", "count", "mark"}
  BY DEF Busy, OnPart
<1>i. IdleWorker.pc \notin Busy  BY DEF IdleWorker, Busy, OnPart
<1> DEFINE F == Facts(w, w.run, got[w.run], missed[w.run], cut[w.run])
<1>f. ASSUME w.pc \in Busy, w.run \notin overtaken PROVE F  BY <1>f, <1>h DEF Hands
(* The rows are left alone, and so is what is with worb. *)
<1>r. ASSUME UNCHANGED <<flags, sent, rstatus, overtaken, got, missed, cut>>,
             w'.pc \in Busy => /\ w'.run \in Runs
                               /\ w'.run \notin overtaken =>
                                    Facts(w', w'.run, got[w'.run], missed[w'.run], cut[w'.run])
      PROVE CopyInv'
  <2>1. Hands'  BY <1>r DEF Hands
  <2> QED BY <1>r, <2>1, CopyByHands
<1>o. ASSUME UNCHANGED <<flags, sent, rstatus, overtaken, got, missed, cut>>, w'.pc \notin Busy
      PROVE CopyInv'
  BY <1>o, <1>r
<1>1. CASE Tick
  <2>1. w'.pc = "pick"  BY <1>1, <1>t DEF Tick, Workers
  <2> QED BY <1>1, <2>1, <1>b, <1>o DEF Tick, dbVars, rowVars, lossVars
<1>2. CASE \E p \in Projects : PickProject(p)
  <2>1. PICK p \in Projects : PickProject(p)  BY <1>2
  <2>2. w'.pc = "list"  BY <2>1, <1>t DEF PickProject, Workers
  <2> QED BY <2>1, <2>2, <1>b, <1>o DEF PickProject, rowVars, lossVars
<1>3. CASE NoProject
  <2>1. w'.pc = "pickRun"  BY <1>3, <1>t DEF NoProject, Workers
  <2> QED BY <1>3, <2>1, <1>b, <1>o DEF NoProject, dbVars, rowVars, lossVars
<1>4. CASE \E r \in Runs : PickRun(r)
  <2>1. PICK r \in Runs : PickRun(r)  BY <1>4
  <2>2. w'.run = r /\ w'.pc = "begin" /\ w'.flags = flags[r] /\ w'.sent = sent[r]
        /\ w'.part = 1
    BY <2>1 DEF PickRun, IdleWorker
  <2>3. UNCHANGED <<flags, sent, rstatus, overtaken, got, missed, cut>>
    BY <2>1 DEF PickRun, dbVars, rowVars, lossVars
  <2>4. ASSUME r \notin overtaken PROVE Facts(w', r, got[r], missed[r], cut[r])
    <3>1. RowInv(r)  BY <2>4 DEF CopyInv
    <3> QED BY <3>1, <2>2 DEF RowInv, Facts
  <2> QED BY <2>2, <2>3, <2>4, <1>r
<1>5. CASE NoRun  BY <1>5, <1>i, <1>o DEF NoRun, dbVars, rowVars, lossVars
<1>6. CASE Discover
  <2>1. CASE ListRuns
    <3>1. w'.pc = "upsert"  BY <2>1, <1>t DEF ListRuns, Workers
    <3> QED BY <2>1, <3>1, <1>b, <1>o DEF ListRuns, dbVars, rowVars, lossVars
  <2>2. CASE ListFails  BY <2>2, <1>i, <1>o DEF ListFails, rowVars, lossVars
  <2>3. CASE Discovered  BY <2>3, <1>i, <1>o DEF Discovered, rowVars, lossVars
  <2>4. CASE \E r \in Runs : UpsertRow(r)
    <3>1. PICK r \in Runs : UpsertRow(r)  BY <2>4
    <3>2. w'.pc = "upsert"  BY <3>1, <1>t DEF UpsertRow, Workers
    <3>3. Hands'  BY <3>2, <1>b DEF Hands
    <3>4. ASSUME NEW q \in Runs \ overtaken' PROVE RowInv(q)'
      <4>1. RowInv(q) /\ (rstatus'[q] = "done" => rstatus[q] = "done")
        BY <3>1, <3>4 DEF CopyInv, UpsertRow, TypeOK, lossVars
      <4> QED BY <3>1, <4>1 DEF RowInv, UpsertRow, rowVars, lossVars
    <3> QED BY <3>3, <3>4 DEF CopyInv
  <2> QED BY <1>6, <2>1, <2>2, <2>3, <2>4 DEF Discover
<1>7. CASE Migrate
  (* A move to a place where nothing more is known. *)
  <2>g. ASSUME NEW pc \in {"fetch", "part", "after"}, w.pc \in Busy, w' = [w EXCEPT !.pc = pc],
               UNCHANGED <<overtaken, got, missed, cut>>
        PROVE  Hands'
    <3>1. w'.run = w.run  BY <2>g, <1>t DEF Workers
    <3>2. ASSUME w.run \notin overtaken
          PROVE  Facts(w', w.run, got[w.run], missed[w.run], cut[w.run])
      BY <2>g, <3>2, <1>f, <1>t, FactsGoing
    <3> QED BY <2>g, <3>1, <3>2, <1>h DEF Hands
  <2>e. ASSUME w' = [w EXCEPT !.pc = "error"],
               UNCHANGED <<flags, sent, rstatus, overtaken, missed, cut>>,
               \A r \in Runs : got[r] \subseteq got'[r]
        PROVE  CopyInv'
    <3>1. w'.pc = "error"  BY <2>e, <1>t DEF Workers
    <3>2. Hands'  BY <3>1, <1>b DEF Hands
    <3> QED BY <2>e, <3>2, CopyByHands
  (* The end of a part that is whole. *)
  <2>n. ASSUME w.pc \in Busy, NextPart, UNCHANGED <<overtaken, got, missed, cut>>,
               w.run \notin overtaken => Full(w.run, Part, got[w.run], missed[w.run], cut[w.run])
        PROVE  Hands'
    <3>1. w'.run = w.run  BY <2>n, <1>t DEF NextPart, Advance, Workers
    <3>2. ASSUME w.run \notin overtaken
          PROVE  Facts(w', w.run, got[w.run], missed[w.run], cut[w.run])
      BY <2>n, <3>2, <1>f, <1>t, FactsNext DEF NextPart, Advance, Part
    <3> QED BY <2>n, <3>1, <3>2, <1>h DEF Hands
  (* The step from a piece that has been dealt with to the next. *)
  <2>p. ASSUME w.pc \in {"send", "count"}, w' = NextPiece, UNCHANGED overtaken,
               \A r \in Runs : got[r] \subseteq got'[r] /\ missed[r] \subseteq missed'[r] /\ cut[r] \subseteq cut'[r],
               <<Part, w.at>> \in got'[w.run] \cup missed'[w.run],
               Part = "history" => <<Part, w.at>> \in got'[w.run]
        PROVE  Hands'
    <3>1. w'.run = w.run  BY <2>p, <1>t DEF NextPiece, Workers
    <3>2. w.run \in Runs /\ w.pc \in Busy  BY <2>p, <1>h, <1>b DEF Hands
    <3>3. ASSUME w.run \notin overtaken
          PROVE  Facts(w', w.run, got'[w.run], missed'[w.run], cut'[w.run])
      <4>1. Facts(w, w.run, got'[w.run], missed'[w.run], cut'[w.run])
        BY <2>p, <3>2, <3>3, <1>f, FactsGrow
      <4>2. Sent(w, got'[w.run], missed'[w.run])  BY <2>p, <4>1 DEF Facts
      <4>3. w.at + 1 \in Nat \ {0} /\ w.at + 1 - 1 = w.at  BY <1>t
      <4>4. \A i \in 1..w.at : i \in 1..(w.at - 1) \/ i = w.at  BY <1>t
      <4>5. \A i \in 1..(w.at + 1 - 1) : <<Part, i>> \in got'[w.run] \cup missed'[w.run]
        BY <2>p, <4>2, <4>3, <4>4 DEF Sent, Part
      <4>6. Part = "history" => Lines(w.at + 1 - 1, got'[w.run])
        BY <2>p, <4>2, <4>3, <4>4 DEF Sent, Part, Lines
      <4>7. NextPiece = [w EXCEPT !.pc = PieceOrMark(w.run, Part, w.at + 1), !.at = w.at + 1]
        BY <1>t DEF NextPiece, Workers
      <4>8. PICK n \in Nat \ {0} : n = w.at + 1  BY <4>3
      <4>9. /\ \A i \in 1..(n - 1) : <<PartSeq[w.part], i>> \in got'[w.run] \cup missed'[w.run]
            /\ PartSeq[w.part] = "history" => Lines(n - 1, got'[w.run])
        BY <4>3, <4>5, <4>6, <4>8, <1>t DEF Part
      <4>10. PICK pc : pc = PieceOrMark(w.run, PartSeq[w.part], n)  OBVIOUS
      <4>11. Facts([w EXCEPT !.pc = pc, !.at = n], w.run, got'[w.run], missed'[w.run], cut'[w.run])
        BY <3>2, <4>1, <4>9, <4>10, <1>t, FactsAt
      <4> QED BY <2>p, <4>7, <4>8, <4>10, <4>11 DEF Part
    <3> QED BY <3>1, <3>2, <3>3, <2>p DEF Hands
  <2>1. CASE BeginRun
    <3>1. w.pc \in Busy /\ w.run \in Runs  BY <2>1, <1>b, <1>h DEF BeginRun, Hands
    <3>2. Hands'  BY <2>1, <3>1, <2>g DEF BeginRun, lossVars
    <3>3. ASSUME NEW r \in Runs \ overtaken' PROVE RowInv(r)'
      <4>1. RowInv(r) /\ (rstatus'[r] = "done" => rstatus[r] = "done")
        BY <2>1, <3>3 DEF CopyInv, BeginRun, SetRun, TypeOK, lossVars
      <4> QED BY <2>1, <4>1 DEF RowInv, BeginRun, rowVars, lossVars
    <3> QED BY <3>2, <3>3 DEF CopyInv
  <2>2. CASE FetchRun
    <3>1. Hands'  BY <2>2, <1>b, <2>g DEF FetchRun, lossVars
    <3> QED BY <2>2, <3>1, CopyByHands DEF FetchRun, dbVars, rowVars, lossVars
  <2>3. CASE StartFails
    BY <2>3, <2>e DEF StartFails, dbVars, rowVars, lossVars
  <2>4. CASE SkipPart
    <3>1. w.pc \in Busy  BY <2>4, <1>b DEF SkipPart
    <3>2. ASSUME w.run \notin overtaken
          PROVE  Full(w.run, Part, got[w.run], missed[w.run], cut[w.run])
      BY <2>4, <3>1, <3>2, <1>f DEF SkipPart, Facts
    <3>3. Hands'  BY <2>4, <3>1, <3>2, <2>n DEF SkipPart, lossVars
    <3> QED BY <2>4, <3>3, CopyByHands DEF SkipPart, dbVars, rowVars, lossVars
  <2>5. CASE StartPart
    <3>1. w.pc \in Busy /\ w.run \in Runs  BY <2>5, <1>b, <1>h DEF StartPart, Hands
    <3>2. w'.run = w.run  BY <2>5, <1>t DEF StartPart, Workers
    <3>3. UNCHANGED <<flags, sent, rstatus, overtaken, got, missed, cut>>
      BY <2>5 DEF StartPart, dbVars, rowVars, lossVars
    <3>4. ASSUME w.run \notin overtaken
          PROVE  Facts(w', w.run, got[w.run], missed[w.run], cut[w.run])
      <4>1. F  BY <3>1, <3>4, <1>f
      <4>2. FirstPiece \in Nat \ {0}  BY <1>t DEF FirstPiece
      <4>3. Part = "history" => FirstPiece - 1 = w.sent  BY <1>t DEF FirstPiece
      <4>4. Part # "history" => 1..(FirstPiece - 1) = {}  BY DEF FirstPiece
      <4>5. Part = "history" => Lines(FirstPiece - 1, got[w.run])  BY <4>1, <4>3 DEF Facts
      <4>6. \A i \in 1..(FirstPiece - 1) : <<Part, i>> \in got[w.run] \cup missed[w.run]
        BY <4>4, <4>5 DEF Lines
      <4> QED BY <2>5, <3>1, <4>1, <4>2, <4>5, <4>6, <1>t, FactsAt DEF StartPart, Part
    <3> QED BY <3>1, <3>2, <3>3, <3>4, <1>r
  <2>6. CASE SourceHasNothing
    <3>1. w.pc \in Busy /\ w.run \in Runs  BY <2>6, <1>b, <1>h DEF SourceHasNothing, Hands
    <3>2. w'.run = w.run  BY <2>6, <1>t DEF SourceHasNothing, Workers
    <3>3. missed'[w.run] = missed[w.run] \cup PieceSet(w.run, Part)
          /\ \A r \in Runs : missed[r] \subseteq missed'[r]
      BY <2>6, <3>1 DEF SourceHasNothing, TypeOK
    <3>4. UNCHANGED <<flags, sent, rstatus, overtaken, got, cut>>
      BY <2>6 DEF SourceHasNothing, dbVars, rowVars
    <3>5. ASSUME w.run \notin overtaken
          PROVE  Facts(w', w.run, got[w.run], missed'[w.run], cut[w.run])
      <4>1. Facts(w, w.run, got[w.run], missed'[w.run], cut[w.run])
        BY <3>1, <3>3, <3>5, <1>f, FactsGrow
      <4>2. Full(w.run, Part, got[w.run], missed'[w.run], cut[w.run])  BY <3>3 DEF Full
      <4> QED BY <2>6, <4>1, <4>2, <1>t DEF SourceHasNothing, Facts, Workers, Part
    <3>6. Hands'  BY <3>1, <3>2, <3>4, <3>5 DEF Hands
    <3> QED BY <3>3, <3>4, <3>6, CopyByHands
  <2>7. CASE PassGate
    <3>1. UNCHANGED <<flags, sent, rstatus, overtaken, got, missed, cut>>
      BY <2>7 DEF PassGate, dbVars, rowVars, lossVars
    <3>2. w.pc \in Busy  BY <2>7, <1>b DEF PassGate
    <3>3. CASE w.pc = "gate"
      <4>1. w'.run = w.run  BY <2>7, <1>t DEF PassGate, Workers
      <4>2. ASSUME w.run \notin overtaken
            PROVE  Facts(w', w.run, got[w.run], missed[w.run], cut[w.run])
        BY <2>7, <3>2, <3>3, <4>2, <1>f, <1>t DEF PassGate, Facts, Sent, Workers
      <4> QED BY <3>1, <3>2, <4>1, <4>2, <1>h, <1>r DEF Hands
    <3>4. CASE w.pc # "gate"
      <4>1. Hands'  BY <2>7, <3>1, <3>2, <3>4, <2>g DEF PassGate
      <4> QED BY <3>1, <4>1, CopyByHands
    <3> QED BY <3>3, <3>4
  <2>8. CASE CutShort
    <3>1. w.pc \in Busy /\ w.run \in Runs  BY <2>8, <1>b, <1>h DEF CutShort, Hands
    <3>2. w'.run = w.run  BY <2>8, <1>t DEF CutShort, Workers
    <3>3. cut'[w.run] = cut[w.run] \cup {Part} /\ \A r \in Runs : cut[r] \subseteq cut'[r]
      BY <2>8, <3>1 DEF CutShort, TypeOK
    <3>4. UNCHANGED <<flags, sent, rstatus, overtaken, got, missed>>
      BY <2>8 DEF CutShort, dbVars, rowVars
    <3>5. ASSUME w.run \notin overtaken
          PROVE  Facts(w', w.run, got[w.run], missed[w.run], cut'[w.run])
      <4>1. Facts(w, w.run, got[w.run], missed[w.run], cut'[w.run])
        BY <3>1, <3>3, <3>5, <1>f, FactsGrow
      <4>2. Full(w.run, Part, got[w.run], missed[w.run], cut'[w.run])  BY <3>3 DEF Full
      <4> QED BY <2>8, <4>1, <4>2, <1>t DEF CutShort, Facts, Workers, Part
    <3>6. Hands'  BY <3>1, <3>2, <3>4, <3>5 DEF Hands
    <3> QED BY <3>3, <3>4, <3>6, CopyByHands
  <2>9. CASE LeaveRun  BY <2>9, <1>i, <1>o DEF LeaveRun, dbVars, rowVars, lossVars
  <2>d. ASSUME Deliver, w.run \in Runs
        PROVE  <<Part, w.at>> \in got'[w.run] /\ \A r \in Runs : got[r] \subseteq got'[r]
    BY <2>d DEF Deliver, TypeOK
  <2>10. CASE SendPiece
    <3>1. w.pc \in Busy /\ w.run \in Runs  BY <2>10, <1>b, <1>h DEF SendPiece, Hands
    <3>2. UNCHANGED <<flags, sent, rstatus, overtaken, missed, cut>>
      BY <2>10 DEF SendPiece, dbVars, rowVars, lossVars
    <3>3. <<Part, w.at>> \in got'[w.run] /\ \A r \in Runs : got[r] \subseteq got'[r]
      BY <2>10, <3>1, <2>d DEF SendPiece
    <3>4. CASE Part = "history"
      <4>1. w' = [w EXCEPT !.pc = "count"]  BY <2>10, <3>4 DEF SendPiece
      <4>2. w'.run = w.run  BY <4>1, <1>t DEF Workers
      <4>3. ASSUME w.run \notin overtaken
            PROVE  Facts(w', w.run, got'[w.run], missed[w.run], cut[w.run])
        <5>1. Facts(w, w.run, got'[w.run], missed[w.run], cut[w.run])
          BY <3>1, <3>3, <4>3, <1>f, FactsGrow
        <5> QED BY <2>10, <3>3, <3>4, <4>1, <5>1, <1>t
                DEF SendPiece, Facts, Sent, Workers, Part
      <4>4. Hands'  BY <3>1, <3>2, <4>2, <4>3 DEF Hands
      <4> QED BY <3>2, <3>3, <4>4, CopyByHands
    <3>5. CASE Part # "history"
      <4>1. w.pc = "send" /\ w' = NextPiece  BY <2>10, <3>5 DEF SendPiece
      <4>2. Hands'  BY <3>2, <3>3, <3>5, <4>1, <2>p
      <4> QED BY <3>2, <3>3, <4>2, CopyByHands
    <3> QED BY <3>4, <3>5
  <2>11. CASE SendFails
    <3>1. w.run \in Runs  BY <2>11, <1>b, <1>h DEF SendFails, Hands
    <3>2. \A r \in Runs : got[r] \subseteq got'[r]  BY <2>11, <3>1, <2>d DEF SendFails
    <3> QED BY <2>11, <3>2, <2>e DEF SendFails, dbVars, rowVars, lossVars
  <2>12. CASE FileMissing
    <3>1. w.run \in Runs  BY <2>12, <1>b, <1>h DEF FileMissing, Hands
    <3>2. <<Part, w.at>> \in missed'[w.run] /\ \A r \in Runs : missed[r] \subseteq missed'[r]
      BY <2>12, <3>1 DEF FileMissing, TypeOK
    <3>3. UNCHANGED <<flags, sent, rstatus, overtaken, got, cut>>
      BY <2>12 DEF FileMissing, dbVars, rowVars
    <3>4. w.pc = "send" /\ w' = NextPiece /\ Part # "history"  BY <2>12 DEF FileMissing
    <3>5. Hands'  BY <3>2, <3>3, <3>4, <2>p
    <3> QED BY <3>2, <3>3, <3>5, CopyByHands
  <2>13. CASE CountSent
    <3>1. w.pc \in Busy /\ w.run \in Runs  BY <2>13, <1>b, <1>h DEF CountSent, Hands
    <3>2. UNCHANGED <<flags, rstatus, overtaken, got, missed, cut>>
      BY <2>13 DEF CountSent, lossVars
    <3>3. w.pc = "count" /\ w' = NextPiece  BY <2>13 DEF CountSent
    <3>4. ASSUME NEW r \in Runs \ overtaken' PROVE RowInv(r)'
      <4>1. RowInv(r)  BY <3>2, <3>4 DEF CopyInv
      <4>2. CASE r # w.run
        <5>1. sent'[r] = sent[r]  BY <2>13, <4>2 DEF CountSent, TypeOK
        <5> QED BY <3>2, <4>1, <5>1 DEF RowInv
      <4>3. CASE r = w.run
        <5>1. sent'[r] = w.at  BY <2>13, <4>3 DEF CountSent, TypeOK
        <5>2. F  BY <3>1, <3>2, <3>4, <4>3, <1>f
        <5>3. /\ Part = "history" /\ <<"history", w.at>> \in got[r]
              /\ Lines(w.at - 1, got[r])
          BY <3>3, <4>3, <5>2 DEF Facts, Sent, Part
        <5>4. \A i \in 1..w.at : i \in 1..(w.at - 1) \/ i = w.at  BY <1>t
        <5>5. Lines(w.at, got[r])  BY <5>3, <5>4 DEF Lines
        <5> QED BY <3>2, <4>1, <5>1, <5>5 DEF RowInv
      <4> QED BY <4>2, <4>3
    <3>5. Hands'
      <4>1. CASE w.run \in overtaken
        <5>1. w'.run = w.run  BY <3>3, <1>t DEF NextPiece, Workers
        <5> QED BY <3>1, <3>2, <4>1, <5>1 DEF Hands
      <4>2. CASE w.run \notin overtaken
        <5>1. Part = "history" /\ <<"history", w.at>> \in got[w.run]
          BY <3>1, <3>3, <4>2, <1>f DEF Facts, Part
        <5> QED BY <3>2, <3>3, <5>1, <2>p
      <4> QED BY <4>1, <4>2
    <3> QED BY <3>4, <3>5 DEF CopyInv
  <2>14. CASE MarkPart
    <3>1. w.pc \in Busy /\ w.run \in Runs  BY <2>14, <1>b, <1>h DEF MarkPart, Hands
    <3>2. UNCHANGED <<sent, rstatus, overtaken, got, missed, cut>>
      BY <2>14 DEF MarkPart, lossVars
    <3>3. ASSUME w.run \notin overtaken
          PROVE  Full(w.run, Part, got[w.run], missed[w.run], cut[w.run])
      BY <2>14, <3>1, <3>3, <1>f DEF MarkPart, Facts, Part
    <3>4. Hands'  BY <2>14, <3>1, <3>2, <3>3, <2>n DEF MarkPart
    <3>5. ASSUME NEW r \in Runs \ overtaken' PROVE RowInv(r)'
      <4>1. RowInv(r)  BY <3>2, <3>5 DEF CopyInv
      <4>2. \A p \in flags'[r] : p \in flags[r] \/ (r = w.run /\ p = Part)
        BY <2>14 DEF MarkPart, TypeOK
      <4> QED BY <3>2, <3>3, <3>5, <4>1, <4>2 DEF RowInv
    <3> QED BY <3>4, <3>5 DEF CopyInv
  <2>15. CASE FinishRun
    <3>1. w.pc \in Busy  BY <2>15, <1>b DEF FinishRun
    <3>2. w'.pc = "check"  BY <2>15, <1>t DEF FinishRun, Workers
    <3>3. Hands'  BY <3>2, <1>b DEF Hands
    <3>4. UNCHANGED <<flags, sent, overtaken, got, missed, cut>>
      BY <2>15 DEF FinishRun, rowVars, lossVars
    <3>5. ASSUME NEW r \in Runs \ overtaken' PROVE RowInv(r)'
      <4>1. RowInv(r)  BY <3>4, <3>5 DEF CopyInv
      <4>2. r # w.run => rstatus'[r] = rstatus[r]  BY <2>15 DEF FinishRun, SetRun, TypeOK
      <4>3. r = w.run => \A p \in Parts : Full(r, p, got[r], missed[r], cut[r])
        BY <2>15, <3>1, <3>4, <3>5, <1>f DEF FinishRun, Facts
      <4> QED BY <3>4, <4>1, <4>2, <4>3 DEF RowInv
    <3> QED BY <3>3, <3>5 DEF CopyInv
  <2>16. CASE RecordError
    <3>1. Hands'  BY <2>16, <1>i DEF RecordError, Hands
    <3>2. UNCHANGED <<flags, sent, overtaken, got, missed, cut>>
      BY <2>16 DEF RecordError, lossVars
    <3>3. ASSUME NEW r \in Runs \ overtaken' PROVE RowInv(r)'
      <4>1. RowInv(r) /\ (rstatus'[r] = "done" => rstatus[r] = "done")
        BY <2>16, <3>2, <3>3 DEF CopyInv, RecordError, SetRun, TypeOK
      <4> QED BY <3>2, <4>1 DEF RowInv
    <3> QED BY <3>1, <3>3 DEF CopyInv
  <2>17. CASE CheckProject
    <3>1. w'.pc \notin Busy
      BY <2>17, <1>i, <1>b, <1>t DEF CheckProject, Workers
    <3> QED BY <2>17, <3>1, <1>o DEF CheckProject, dbVars, rowVars, lossVars
  <2>18. CASE CloseProject  BY <2>18, <1>i, <1>o DEF CloseProject, rowVars, lossVars
  <2> QED BY <1>7, <2>1, <2>2, <2>3, <2>4, <2>5, <2>6, <2>7, <2>8, <2>9, <2>10, <2>11, <2>12,
             <2>13, <2>14, <2>15, <2>16, <2>17, <2>18 DEF Migrate
<1>8. CASE Reset
  <2>c. ASSUME NEW R \in SUBSET Runs, ClearRows(R), w' = w PROVE CopyInv'
    <3>1. Hands'
      <4>1. SUFFICES ASSUME w.pc \in Busy
                     PROVE  /\ w.run \in Runs
                            /\ w.run \notin overtaken' =>
                                 Facts(w, w.run, got'[w.run], missed'[w.run], cut'[w.run])
        BY <2>c DEF Hands
      <4>2. w.run \in Runs  BY <4>1, <1>h DEF Hands
      <4>3. ASSUME w.run \notin overtaken'
            PROVE  Facts(w, w.run, got'[w.run], missed'[w.run], cut'[w.run])
        <5>1. w.run \notin R /\ w.run \notin overtaken
          BY <2>c, <4>1, <4>2, <4>3 DEF ClearRows, At
        <5>2. got'[w.run] = got[w.run] /\ missed'[w.run] = missed[w.run]
              /\ cut'[w.run] = cut[w.run]
          BY <2>c, <4>2, <5>1 DEF ClearRows
        <5> QED BY <4>1, <5>1, <5>2, <1>f
      <4> QED BY <4>2, <4>3
    <3>2. ASSUME NEW r \in Runs \ overtaken' PROVE RowInv(r)'
      <4>1. CASE r \in R
        <5>1. flags'[r] = {} /\ sent'[r] = 0 /\ rstatus'[r] = "pending"
          BY <2>c, <4>1 DEF ClearRows
        <5> QED BY <5>1 DEF RowInv, Lines
      <4>2. CASE r \notin R
        <5>1. flags'[r] = flags[r] /\ sent'[r] = sent[r] /\ rstatus'[r] = rstatus[r]
              /\ got'[r] = got[r] /\ missed'[r] = missed[r] /\ cut'[r] = cut[r]
          BY <2>c, <4>2 DEF ClearRows
        <5>2. r \notin overtaken  BY <2>c, <3>2, <4>2 DEF ClearRows
        <5>3. RowInv(r)  BY <5>2 DEF CopyInv
        <5> QED BY <5>1, <5>3 DEF RowInv
      <4> QED BY <4>1, <4>2
    <3> QED BY <3>1, <3>2 DEF CopyInv
  <2>1. CASE \E r \in Runs : ResetRun(r)
    <3>1. PICK r \in Runs : ResetRun(r)  BY <2>1
    <3>2. ClearRows({r}) /\ {r} \in SUBSET Runs /\ w' = w  BY <3>1 DEF ResetRun
    <3> QED BY <3>2, <2>c
  <2>u. ASSUME w' = w, UNCHANGED <<flags, sent, rstatus, overtaken, got, missed, cut>>
        PROVE  CopyInv'
    BY <2>u, <1>h, <1>r DEF Hands
  <2>2. CASE \E p \in Projects, force \in BOOLEAN : ResetProject(p, force)
    BY <2>2, <2>u DEF ResetProject, dbVars, rowVars, lossVars
  <2>3. CASE ResetRows
    <3>1. CASE api.force
      <4>1. ClearRows(Rows(api.project)) /\ Rows(api.project) \in SUBSET Runs /\ w' = w
        BY <2>3, <3>1 DEF ResetRows, Rows, RunsOf
      <4> QED BY <4>1, <2>c
    <3>2. CASE ~api.force
      <4>1. w' = w /\ UNCHANGED <<flags, sent, overtaken, got, missed, cut>>
        BY <2>3, <3>2 DEF ResetRows, lossVars
      <4>2. \A r \in Runs : rstatus'[r] = "done" => rstatus[r] = "done"
        BY <2>3, <3>2 DEF ResetRows
      <4>3. Hands'  BY <4>1, <1>h DEF Hands
      <4>4. ASSUME NEW r \in Runs \ overtaken' PROVE RowInv(r)'
        <5>1. RowInv(r)  BY <4>1, <4>4 DEF CopyInv
        <5> QED BY <4>1, <4>2, <5>1 DEF RowInv
      <4> QED BY <4>3, <4>4 DEF CopyInv
    <3> QED BY <3>1, <3>2
  <2>4. CASE ResetStatus
    BY <2>4, <2>u DEF ResetStatus, rowVars, lossVars
  <2> QED BY <1>8, <2>1, <2>2, <2>3, <2>4 DEF Reset
<1>u. ASSUME w' = w, UNCHANGED <<flags, sent, rstatus, overtaken, got, missed, cut>>
      PROVE  CopyInv'
  BY <1>u, <1>h, <1>r DEF Hands
<1>9. CASE \E p \in Projects : Schedule(p)
  BY <1>9, <1>u DEF Schedule, rowVars, lossVars
<1>10. CASE Pause \/ Resume \/ Stop
  BY <1>10, <1>u DEF Pause, Resume, Stop, dbVars, rowVars, lossVars
<1>11. CASE Exit \/ Crash
  BY <1>11, <1>i, <1>o DEF Exit, Crash, Gone, dbVars, rowVars, lossVars
<1>12. CASE Start  BY <1>12, <1>u DEF Start, dbVars, rowVars, lossVars
<1>13. CASE UNCHANGED vars
  BY <1>13, <1>u DEF vars, dbVars, rowVars, lossVars
<1> QED BY <1>1, <1>2, <1>3, <1>4, <1>5, <1>6, <1>7, <1>8, <1>9, <1>10, <1>11, <1>12, <1>13
        DEF Next, Work

LEMMA CopyAlways == Spec => []CopyInv
<1>1. TypeOK /\ CopyInv /\ [Next]_vars => CopyInv'  BY CopyStep
<1> QED BY CopyInit, TypeCorrect, <1>1, PTL DEF Spec

(* What the worker will not look at again has reached worb. *)
THEOREM SkippedAlways == Spec => []SkippedIsDelivered
<1>1. CopyInv => SkippedIsDelivered
  BY DEF CopyInv, RowInv, Lines, Full, SkippedIsDelivered, Whole
<1> QED BY <1>1, CopyAlways, PTL

(* A run that is done is whole. *)
THEOREM DoneRunAlways == Spec => []DoneRunIsComplete
<1>1. CopyInv => DoneRunIsComplete
  BY DEF CopyInv, RowInv, Full, DoneRunIsComplete, Whole
<1> QED BY <1>1, CopyAlways, PTL

-----------------------------------------------------------------------------
(* Why the count of check_project_done still holds when the project is closed:
   the runs of a project that is closed, or is about to be, change only by a
   reset; the worker is at runs of projects that are ready, and lists runs of
   one that is in discovery; and a request that found a project done or failed
   is the only one to change its status. *)

AllDone(p) == \A r \in RunsOf(p) : rstatus[r] \in {"none", "done"}

InRun == Busy \cup Closing \cup {"error"}

PlaceInv ==
    /\ w.pc \in InRun => w.run \in Runs /\ pstatus[ProjectOf[w.run]] = "ready"
    /\ w.pc \in Discovering =>
          /\ w.project \in Projects /\ pstatus[w.project] = "discovering"
          /\ w.pc = "upsert" => w.todo \subseteq RunsOf(w.project)
    /\ api.pc # "idle" =>
          /\ api.project \in Projects
          /\ api.seen \in {"error", "done"} => pstatus[api.project] = api.seen

DoneInv == /\ \A p \in Projects \ reopened : pstatus[p] = "done" => AllDone(p)
           /\ w.pc = "close" /\ ProjectOf[w.run] \notin reopened => AllDone(ProjectOf[w.run])

LEMMA PlaceInit == Init => PlaceInv
BY DEF Init, PlaceInv, IdleWorker, IdleApi, InRun, Busy, OnPart, Closing, Discovering

LEMMA PlaceStep == TypeOK /\ PlaceInv /\ [Next]_vars => PlaceInv'
<1> SUFFICES ASSUME TypeOK, PlaceInv, [Next]_vars PROVE PlaceInv'  OBVIOUS
<1>t. w \in Workers /\ api \in Handlers /\ pstatus \in [Projects -> ProjectStatus]
  BY DEF TypeOK
<1>p. /\ \A r \in Runs : ProjectOf[r] \in Projects
      /\ None \notin Projects /\ None \notin Runs
  BY SourceAssumption
<1>i. \A pc : pc \in InRun <=> pc \in {"begin", "fetch", "part", "after", "finish", "gate",
                                       "send", "count", "mark", "check", "close", "error"}
  BY DEF InRun, Busy, OnPart, Closing
<1>d. \A pc : pc \in Discovering <=> pc \in {"list", "upsert"}  BY DEF Discovering
<1>w. IdleWorker.pc = "idle" /\ IdleApi.pc = "idle"  BY DEF IdleWorker, IdleApi
(* Only the worker moves, and within its run, or out of it. *)
<1>m. ASSUME UNCHANGED <<pstatus, api>>,
             w'.pc \notin Discovering,
             w'.pc \in InRun => w.pc \in InRun /\ w'.run = w.run
      PROVE  PlaceInv'
  BY <1>m DEF PlaceInv
<1>1. CASE Tick
  <2>1. w'.pc = "pick"  BY <1>1, <1>t DEF Tick, Workers
  <2> QED BY <1>1, <2>1, <1>i, <1>d, <1>m DEF Tick, dbVars
<1>2. CASE \E p \in Projects : PickProject(p)
  <2>1. PICK p \in Projects : PickProject(p)  BY <1>2
  <2>2. w'.pc = "list" /\ w'.project = p
    BY <2>1, <1>t DEF PickProject, Workers
  <2>3. pstatus[p] = "pending" /\ pstatus'[p] = "discovering"
        /\ \A q \in Projects : q # p => pstatus'[q] = pstatus[q]
    BY <2>1, <1>t DEF PickProject
  <2>4. api' = api  BY <2>1 DEF PickProject
  <2> QED BY <2>2, <2>3, <2>4, <1>i, <1>d DEF PlaceInv
<1>3. CASE NoProject
  <2>1. w'.pc = "pickRun"  BY <1>3, <1>t DEF NoProject, Workers
  <2> QED BY <1>3, <2>1, <1>i, <1>d, <1>m DEF NoProject, dbVars
<1>4. CASE \E r \in Runs : PickRun(r)
  <2>1. PICK r \in Runs : PickRun(r)  BY <1>4
  <2>2. w'.pc = "begin" /\ w'.run = r  BY <2>1 DEF PickRun, IdleWorker
  <2>3. pstatus[ProjectOf[r]] = "ready"  BY <2>1 DEF PickRun, NextRuns, Eligible
  <2>4. UNCHANGED <<pstatus, api>>  BY <2>1 DEF PickRun, dbVars
  <2> QED BY <2>2, <2>3, <2>4, <1>i, <1>d DEF PlaceInv
<1>5. CASE NoRun  BY <1>5, <1>w, <1>i, <1>d, <1>m DEF NoRun, dbVars
(* A project in the worker's hands takes another status, and is let go. *)
<1>s. ASSUME NEW p \in Projects, pstatus[p] \in {"ready", "discovering"},
             \A q \in Projects : q # p => pstatus'[q] = pstatus[q],
             w' = IdleWorker, api' = api
      PROVE  PlaceInv'
  BY <1>s, <1>t, <1>w, <1>i, <1>d DEF PlaceInv
<1>6. CASE Discover
  <2>1. CASE ListRuns
    <3>1. w.pc = "list" /\ w'.pc = "upsert" /\ w'.project = w.project
          /\ w'.todo = RunsOf(w.project)
      BY <2>1, <1>t DEF ListRuns, Workers
    <3>2. UNCHANGED <<pstatus, api>>  BY <2>1 DEF ListRuns, dbVars
    <3> QED BY <3>1, <3>2, <1>i, <1>d DEF PlaceInv
  <2>2. CASE ListFails
    <3>1. w.project \in Projects /\ pstatus[w.project] = "discovering"
      BY <2>2, <1>d DEF ListFails, PlaceInv
    <3>2. /\ \A q \in Projects : q # w.project => pstatus'[q] = pstatus[q]
          /\ w' = IdleWorker /\ api' = api
      BY <2>2, <1>t DEF ListFails, SetProject
    <3> QED BY <3>1, <3>2, <1>s
  <2>3. CASE Discovered
    <3>1. w.project \in Projects /\ pstatus[w.project] = "discovering"
      BY <2>3, <1>d DEF Discovered, PlaceInv
    <3>2. /\ \A q \in Projects : q # w.project => pstatus'[q] = pstatus[q]
          /\ w' = IdleWorker /\ api' = api
      BY <2>3, <1>t DEF Discovered, SetProject
    <3> QED BY <3>1, <3>2, <1>s
  <2>4. CASE \E r \in Runs : UpsertRow(r)
    <3>1. PICK r \in Runs : UpsertRow(r)  BY <2>4
    <3>2. w.pc = "upsert" /\ w'.pc = "upsert" /\ w'.project = w.project
          /\ w'.todo \subseteq w.todo
      BY <3>1, <1>t DEF UpsertRow, Workers
    <3>3. UNCHANGED <<pstatus, api>>  BY <3>1 DEF UpsertRow
    <3> QED BY <3>2, <3>3, <1>i, <1>d DEF PlaceInv
  <2> QED BY <1>6, <2>1, <2>2, <2>3, <2>4 DEF Discover
<1>7. CASE Migrate
  <2>n. ASSUME NextPart PROVE w'.pc \in {"finish", "after", "part"} /\ w'.run = w.run
    BY <2>n, <1>t DEF NextPart, Advance, Workers
  <2>a. \A r, p, i : PieceOrMark(r, p, i) \in {"mark", "gate", "send"}  BY DEF PieceOrMark
  <2>p. ASSUME w' = NextPiece PROVE w'.pc \in {"mark", "gate", "send"} /\ w'.run = w.run
    BY <2>p, <2>a, <1>t DEF NextPiece, Workers
  <2>1. CASE CloseProject
    <3>1. w.run \in Runs /\ pstatus[ProjectOf[w.run]] = "ready"
      BY <2>1, <1>i DEF CloseProject, PlaceInv
    <3>2. /\ \A q \in Projects : q # ProjectOf[w.run] => pstatus'[q] = pstatus[q]
          /\ w' = IdleWorker /\ api' = api
      BY <2>1, <1>t DEF CloseProject
    <3>3. ProjectOf[w.run] \in Projects  BY <3>1, <1>p
    <3> QED BY <3>1, <3>2, <3>3, <1>s
  <2>2. CASE RecordError  BY <2>2, <1>w, <1>i, <1>d, <1>m DEF RecordError
  <2>3. CASE LeaveRun  BY <2>3, <1>w, <1>i, <1>d, <1>m DEF LeaveRun, dbVars
  <2>4. CASE CheckProject
    <3>1. w'.pc = "idle" \/ (w'.pc = "close" /\ w'.run = w.run)
      BY <2>4, <1>t, <1>w DEF CheckProject, Workers
    <3> QED BY <2>4, <3>1, <1>i, <1>d, <1>m DEF CheckProject, dbVars
  <2>5. CASE BeginRun \/ FetchRun \/ PassGate \/ FinishRun \/ StartFails
    <3>1. w.pc \in InRun /\ w'.run = w.run
          /\ w'.pc \in {"fetch", "part", "send", "check", "error"}
      BY <2>5, <1>t, <1>i DEF BeginRun, FetchRun, PassGate, FinishRun, StartFails, Workers
    <3>2. UNCHANGED <<pstatus, api>>
      BY <2>5 DEF BeginRun, FetchRun, PassGate, FinishRun, StartFails, dbVars
    <3> QED BY <3>1, <3>2, <1>i, <1>d, <1>m
  <2>6. CASE SkipPart \/ MarkPart
    <3>1. w.pc \in InRun /\ NextPart  BY <2>6, <1>i DEF SkipPart, MarkPart
    <3>2. UNCHANGED <<pstatus, api>>  BY <2>6 DEF SkipPart, MarkPart, dbVars
    <3> QED BY <3>1, <3>2, <2>n, <1>i, <1>d, <1>m
  <2>7. CASE StartPart
    <3>1. w.pc \in InRun /\ w'.run = w.run /\ w'.pc \in {"mark", "gate", "send"}
      BY <2>7, <2>a, <1>t, <1>i DEF StartPart, Workers
    <3> QED BY <2>7, <3>1, <1>i, <1>d, <1>m DEF StartPart, dbVars
  <2>8. CASE SourceHasNothing \/ CutShort
    <3>1. w.pc \in InRun /\ w'.run = w.run /\ w'.pc = "mark"
      BY <2>8, <1>t, <1>i DEF SourceHasNothing, CutShort, Workers
    <3>2. UNCHANGED <<pstatus, api>>  BY <2>8 DEF SourceHasNothing, CutShort, dbVars
    <3> QED BY <3>1, <3>2, <1>i, <1>d, <1>m
  <2>9. CASE SendPiece \/ SendFails
    <3>1. w.pc \in InRun /\ w'.run = w.run /\ w'.pc \in {"count", "error", "mark", "gate", "send"}
      BY <2>9, <2>p, <1>t, <1>i DEF SendPiece, SendFails, Workers
    <3>2. UNCHANGED <<pstatus, api>>  BY <2>9 DEF SendPiece, SendFails, dbVars
    <3> QED BY <3>1, <3>2, <1>i, <1>d, <1>m
  <2>10. CASE FileMissing \/ CountSent
    <3>1. w.pc \in InRun /\ w' = NextPiece  BY <2>10, <1>i DEF FileMissing, CountSent
    <3>2. UNCHANGED <<pstatus, api>>  BY <2>10 DEF FileMissing, CountSent, dbVars
    <3> QED BY <3>1, <3>2, <2>p, <1>i, <1>d, <1>m
  <2> QED BY <1>7, <2>1, <2>2, <2>3, <2>4, <2>5, <2>6, <2>7, <2>8, <2>9, <2>10 DEF Migrate
<1>8. CASE Reset
  <2>1. CASE \E r \in Runs : ResetRun(r)
    BY <2>1 DEF ResetRun, PlaceInv
  <2>2. CASE \E p \in Projects, force \in BOOLEAN : ResetProject(p, force)
    BY <2>2 DEF ResetProject, PlaceInv, dbVars
  <2>3. CASE ResetRows
    <3>1. /\ UNCHANGED <<pstatus, w>> /\ api.pc # "idle"
          /\ api'.project = api.project /\ api'.seen = api.seen
      BY <2>3, <1>t DEF ResetRows, Handlers
    <3> QED BY <3>1 DEF PlaceInv
  <2>4. CASE ResetStatus
    <3>1. api'.pc = "idle" /\ w' = w  BY <2>4, <1>w DEF ResetStatus
    <3>2. CASE api.seen \in {"error", "done"}
      <4>1. api.project \in Projects /\ pstatus[api.project] \in {"error", "done"}
        BY <2>4, <3>2 DEF ResetStatus, PlaceInv
      <4>2. \A q \in Projects : q # api.project => pstatus'[q] = pstatus[q]
        BY <2>4, <3>2, <1>t DEF ResetStatus
      <4> QED BY <3>1, <4>1, <4>2, <1>p DEF PlaceInv
    <3>3. CASE api.seen \notin {"error", "done"}
      BY <2>4, <3>1, <3>3 DEF ResetStatus, PlaceInv
    <3> QED BY <3>2, <3>3
  <2> QED BY <1>8, <2>1, <2>2, <2>3, <2>4 DEF Reset
<1>9. CASE \E p \in Projects : Schedule(p)
  <2>1. PICK p \in Projects : Schedule(p)  BY <1>9
  <2>2. pstatus[p] = "none" /\ \A q \in Projects : q # p => pstatus'[q] = pstatus[q]
    BY <2>1, <1>t DEF Schedule
  <2> QED BY <2>1, <2>2, <1>p DEF Schedule, PlaceInv
<1>10. CASE Pause \/ Resume \/ Stop
  BY <1>10 DEF Pause, Resume, Stop, PlaceInv, dbVars
<1>11. CASE Exit \/ Crash
  BY <1>11, <1>w, <1>i, <1>d DEF Exit, Crash, Gone, PlaceInv, dbVars
<1>12. CASE Start  BY <1>12 DEF Start, PlaceInv, dbVars
<1>13. CASE UNCHANGED vars  BY <1>13 DEF vars, PlaceInv, dbVars
<1> QED BY <1>1, <1>2, <1>3, <1>4, <1>5, <1>6, <1>7, <1>8, <1>9, <1>10, <1>11, <1>12, <1>13
        DEF Next, Work

LEMMA DoneInit == Init => DoneInv
BY DEF Init, DoneInv, IdleWorker

LEMMA DoneStep == TypeOK /\ PlaceInv /\ DoneInv /\ [Next]_vars => DoneInv'
<1> SUFFICES ASSUME TypeOK, PlaceInv, DoneInv, [Next]_vars PROVE DoneInv'  OBVIOUS
<1>t. /\ w \in Workers /\ pstatus \in [Projects -> ProjectStatus]
      /\ rstatus \in [Runs -> RunStatus]
  BY DEF TypeOK
<1>p. \A r \in Runs : ProjectOf[r] \in Projects  BY SourceAssumption
<1>i. \A pc : pc \in InRun <=> pc \in {"begin", "fetch", "part", "after", "finish", "gate",
                                       "send", "count", "mark", "check", "close", "error"}
  BY DEF InRun, Busy, OnPart, Closing
(* No project is closed, and no run changes, or one of a project that is not
   done; the worker is not about to close a project. *)
<1>a. ASSUME reopened' = reopened, w'.pc # "close",
             \A p \in Projects : pstatus'[p] = "done" =>
                 pstatus[p] = "done" /\ \A r \in RunsOf(p) : rstatus'[r] = rstatus[r]
      PROVE  DoneInv'
  BY <1>a DEF DoneInv, AllDone
<1>b. ASSUME reopened' = reopened, w'.pc # "close", UNCHANGED <<pstatus, rstatus>>
      PROVE  DoneInv'
  BY <1>b, <1>a
<1>c. ASSUME UNCHANGED <<pstatus, rstatus, reopened, w>> PROVE DoneInv'
  BY <1>c DEF DoneInv, AllDone
(* The worker's run takes another status. *)
<1>r. ASSUME w.pc \in InRun, NEW s, rstatus' = [rstatus EXCEPT ![w.run] = s],
             UNCHANGED <<pstatus, reopened>>, w'.pc # "close"
      PROVE  DoneInv'
  <2>1. w.run \in Runs /\ pstatus[ProjectOf[w.run]] = "ready"  BY <1>r DEF PlaceInv
  <2>2. ASSUME NEW p \in Projects, pstatus[p] = "done", NEW r \in RunsOf(p)
        PROVE  rstatus'[r] = rstatus[r]
    BY <2>1, <2>2, <1>r, <1>t DEF RunsOf
  <2> QED BY <2>2, <1>r, <1>a
<1>w. IdleWorker.pc = "idle"  BY DEF IdleWorker
<1>1. CASE Tick
  <2>1. w'.pc = "pick"  BY <1>1, <1>t DEF Tick, Workers
  <2> QED BY <1>1, <2>1, <1>b DEF Tick, dbVars
<1>2. CASE \E p \in Projects : PickProject(p)
  <2>1. PICK p \in Projects : PickProject(p)  BY <1>2
  <2>2. w'.pc = "list"  BY <2>1, <1>t DEF PickProject, Workers
  <2>3. \A q \in Projects : pstatus'[q] = "done" => pstatus[q] = "done"
    BY <2>1, <1>t DEF PickProject
  <2> QED BY <2>1, <2>2, <2>3, <1>a DEF PickProject
<1>3. CASE NoProject
  <2>1. w'.pc = "pickRun"  BY <1>3, <1>t DEF NoProject, Workers
  <2> QED BY <1>3, <2>1, <1>b DEF NoProject, dbVars
<1>4. CASE \E r \in Runs : PickRun(r)
  <2>1. w'.pc = "begin"  BY <1>4 DEF PickRun, IdleWorker
  <2> QED BY <1>4, <2>1, <1>b DEF PickRun, dbVars
<1>5. CASE NoRun  BY <1>5, <1>w, <1>b DEF NoRun, dbVars
<1>6. CASE Discover
  <2>1. CASE ListRuns
    <3>1. w'.pc = "upsert"  BY <2>1, <1>t DEF ListRuns, Workers
    <3> QED BY <2>1, <3>1, <1>b DEF ListRuns, dbVars
  <2>2. CASE ListFails \/ Discovered
    <3>1. \A q \in Projects : pstatus'[q] = "done" => pstatus[q] = "done"
      BY <2>2, <1>t DEF ListFails, Discovered, SetProject
    <3>2. w' = IdleWorker /\ UNCHANGED <<rstatus, reopened>>
      BY <2>2 DEF ListFails, Discovered
    <3> QED BY <3>1, <3>2, <1>w, <1>a
  <2>3. CASE \E r \in Runs : UpsertRow(r)
    <3>1. PICK r \in Runs : UpsertRow(r)  BY <2>3
    <3>2. w'.pc = "upsert"  BY <3>1, <1>t DEF UpsertRow, Workers
    <3>3. r \in RunsOf(w.project) /\ pstatus[w.project] = "discovering"
      BY <3>1 DEF UpsertRow, PlaceInv, Discovering
    <3>4. ASSUME NEW p \in Projects, pstatus[p] = "done", NEW q \in RunsOf(p)
          PROVE  rstatus'[q] = rstatus[q]
      BY <3>1, <3>3, <3>4, <1>t DEF UpsertRow, RunsOf
    <3> QED BY <3>1, <3>2, <3>4, <1>a DEF UpsertRow
  <2> QED BY <1>6, <2>1, <2>2, <2>3 DEF Discover
<1>7. CASE Migrate
  <2>1. CASE CloseProject
    <3>1. w.pc = "close" /\ w.run \in Runs  BY <2>1, <1>i DEF CloseProject, PlaceInv
    <3>2. \A q \in Projects : q # ProjectOf[w.run] => pstatus'[q] = pstatus[q]
      BY <2>1, <1>t DEF CloseProject
    <3>3. w'.pc # "close" /\ UNCHANGED <<rstatus, reopened>>
      BY <2>1, <1>w DEF CloseProject
    <3> QED BY <3>1, <3>2, <3>3 DEF DoneInv, AllDone
  <2>2. CASE CheckProject
    <3>1. UNCHANGED <<pstatus, rstatus, reopened>>  BY <2>2 DEF CheckProject, dbVars
    <3>2. CASE Remaining(ProjectOf[w.run]) = {}
      <4>1. w'.run = w.run  BY <2>2, <3>2, <1>t DEF CheckProject, Workers
      <4>2. AllDone(ProjectOf[w.run])  BY <3>2 DEF Remaining, Rows, RunsOf, AllDone
      <4> QED BY <3>1, <4>1, <4>2 DEF DoneInv, AllDone
    <3>3. CASE Remaining(ProjectOf[w.run]) # {}
      BY <2>2, <3>1, <3>3, <1>w, <1>b DEF CheckProject
    <3> QED BY <3>2, <3>3
  <2>3. CASE BeginRun \/ FinishRun
    <3>1. w'.pc # "close" /\ w.pc \in InRun
      BY <2>3, <1>t, <1>i DEF BeginRun, FinishRun, Workers
    <3>2. UNCHANGED <<pstatus, reopened>>  BY <2>3 DEF BeginRun, FinishRun
    <3>3. rstatus' = [rstatus EXCEPT ![w.run] = "in_progress"]
          \/ rstatus' = [rstatus EXCEPT ![w.run] = "done"]
      BY <2>3 DEF BeginRun, FinishRun, SetRun
    <3> QED BY <3>1, <3>2, <3>3, <1>r
  <2>4. CASE RecordError
    <3>1. w'.pc # "close" /\ w.pc \in InRun  BY <2>4, <1>w, <1>i DEF RecordError
    <3>2. UNCHANGED <<pstatus, reopened>> /\ rstatus' = [rstatus EXCEPT ![w.run] = "error"]
      BY <2>4 DEF RecordError, SetRun
    <3> QED BY <3>1, <3>2, <1>r
  <2>n. ASSUME NextPart PROVE w'.pc # "close"
    BY <2>n, <1>t DEF NextPart, Advance, Workers
  <2>q. \A r, p, i : PieceOrMark(r, p, i) # "close"  BY DEF PieceOrMark
  <2>p. ASSUME w' = NextPiece PROVE w'.pc # "close"
    BY <2>p, <2>q, <1>t DEF NextPiece, Workers
  <2>5. CASE FetchRun \/ StartFails \/ SkipPart \/ StartPart \/ SourceHasNothing
    <3>a. ASSUME FetchRun \/ StartFails \/ SourceHasNothing PROVE w'.pc # "close"
      <4>1. w' = [w EXCEPT !.pc = "part"] \/ w' = [w EXCEPT !.pc = "error"]
            \/ w' = [w EXCEPT !.pc = "mark"]
        BY <3>a DEF FetchRun, StartFails, SourceHasNothing
      <4> QED BY <4>1, <1>t DEF Workers
    <3>b. ASSUME SkipPart PROVE w'.pc # "close"  BY <3>b, <2>n DEF SkipPart
    <3>c. ASSUME StartPart PROVE w'.pc # "close"  BY <3>c, <2>q, <1>t DEF StartPart, Workers
    <3>1. w'.pc # "close"  BY <2>5, <3>a, <3>b, <3>c
    <3>2. UNCHANGED <<pstatus, rstatus, reopened>>
      BY <2>5 DEF FetchRun, StartFails, SkipPart, StartPart, SourceHasNothing, dbVars
    <3> QED BY <3>1, <3>2, <1>b
  <2>6. CASE PassGate \/ CutShort \/ LeaveRun
    <3>1. w'.pc # "close"  BY <2>6, <1>w, <1>t DEF PassGate, CutShort, LeaveRun, Workers
    <3>2. UNCHANGED <<pstatus, rstatus, reopened>>
      BY <2>6 DEF PassGate, CutShort, LeaveRun, dbVars
    <3> QED BY <3>1, <3>2, <1>b
  <2>7. CASE SendPiece \/ SendFails \/ FileMissing
    <3>1. w'.pc # "close"  BY <2>7, <2>p, <1>t DEF SendPiece, SendFails, FileMissing, Workers
    <3>2. UNCHANGED <<pstatus, rstatus, reopened>>
      BY <2>7 DEF SendPiece, SendFails, FileMissing, dbVars
    <3> QED BY <3>1, <3>2, <1>b
  <2>8. CASE CountSent \/ MarkPart
    <3>1. w'.pc # "close"  BY <2>8, <2>n, <2>p DEF CountSent, MarkPart
    <3>2. UNCHANGED <<pstatus, rstatus, reopened>>  BY <2>8 DEF CountSent, MarkPart
    <3> QED BY <3>1, <3>2, <1>b
  <2> QED BY <1>7, <2>1, <2>2, <2>3, <2>4, <2>5, <2>6, <2>7, <2>8 DEF Migrate
<1>8. CASE Reset
  (* Runs in R are taken back. *)
  <2>r. ASSUME NEW R \in SUBSET Runs, Reopen(R), UNCHANGED <<pstatus, w>>,
               \A r \in Runs \ R : rstatus'[r] = rstatus[r]
        PROVE  DoneInv'
    <3>1. ASSUME NEW p \in Projects \ reopened', Closed(p)
          PROVE  p \notin reopened /\ (AllDone(p) => AllDone(p)')
      <4>1. R \cap RunsOf(p) = {} /\ p \notin reopened  BY <2>r, <3>1 DEF Reopen
      <4>2. \A r \in RunsOf(p) : rstatus'[r] = rstatus[r]  BY <2>r, <4>1 DEF RunsOf
      <4> QED BY <4>1, <4>2 DEF AllDone
    <3>2. ASSUME NEW p \in Projects \ reopened', pstatus'[p] = "done" PROVE AllDone(p)'
      BY <2>r, <3>1, <3>2 DEF Closed, DoneInv
    <3>3. ASSUME w'.pc = "close", ProjectOf[w'.run] \notin reopened'
          PROVE  AllDone(ProjectOf[w.run])'
      <4>1. w.run \in Runs /\ ProjectOf[w.run] \in Projects
        BY <2>r, <3>3, <1>i, <1>p DEF PlaceInv
      <4>2. PICK p \in Projects : p = ProjectOf[w.run]  BY <4>1
      <4>3. Closed(p)  BY <2>r, <3>3, <4>2 DEF Closed, Closing
      <4>4. p \notin reopened /\ (AllDone(p) => AllDone(p)')  BY <2>r, <3>1, <3>3, <4>2, <4>3
      <4>5. AllDone(p)'  BY <2>r, <3>3, <4>2, <4>4 DEF DoneInv
      <4> QED BY <2>r, <4>2, <4>5 DEF AllDone
    <3> QED BY <3>2, <3>3 DEF DoneInv
  <2>1. CASE \E r \in Runs : ResetRun(r)
    <3>1. PICK r \in Runs : ResetRun(r)  BY <2>1
    <3>2. Reopen({r}) /\ \A q \in Runs \ {r} : rstatus'[q] = rstatus[q]
      BY <3>1 DEF ResetRun, ClearRows
    <3> QED BY <3>1, <3>2, <2>r DEF ResetRun
  <2>2. CASE \E p \in Projects, force \in BOOLEAN : ResetProject(p, force)
    BY <2>2, <1>c DEF ResetProject, dbVars
  <2>3. CASE ResetRows
    <3>1. CASE api.force
      <4>1. Reopen(Rows(api.project)) /\ Rows(api.project) \in SUBSET Runs
            /\ \A q \in Runs \ Rows(api.project) : rstatus'[q] = rstatus[q]
        BY <2>3, <3>1 DEF ResetRows, ClearRows, Rows, RunsOf
      <4> QED BY <2>3, <4>1, <2>r DEF ResetRows
    <3>2. CASE ~api.force
      <4> DEFINE failed == {r \in Rows(api.project) : rstatus[r] = "error"}
      <4>1. Reopen(failed) /\ failed \in SUBSET Runs
            /\ \A q \in Runs \ failed : rstatus'[q] = rstatus[q]
        BY <2>3, <3>2 DEF ResetRows, Rows, RunsOf
      <4> QED BY <2>3, <4>1, <2>r DEF ResetRows
    <3> QED BY <3>1, <3>2
  <2>4. CASE ResetStatus
    <3>1. CASE api.seen \in {"error", "done"}
      <4>1. api.project \in Projects /\ pstatus[api.project] \in {"error", "done"}
        BY <2>4, <3>1 DEF ResetStatus, PlaceInv
      <4>2. /\ pstatus'[api.project] = "pending"
            /\ \A q \in Projects : q # api.project => pstatus'[q] = pstatus[q]
            /\ reopened' = reopened \ {api.project}
            /\ w' = w /\ rstatus' = rstatus
        BY <2>4, <3>1, <4>1, <1>t DEF ResetStatus
      <4>3. w.pc = "close" => ProjectOf[w.run] # api.project
        BY <4>1, <1>i DEF PlaceInv
      <4> QED BY <4>1, <4>2, <4>3 DEF DoneInv, AllDone
    <3>2. CASE api.seen \notin {"error", "done"}
      BY <2>4, <3>2, <1>c DEF ResetStatus
    <3> QED BY <3>1, <3>2
  <2> QED BY <1>8, <2>1, <2>2, <2>3, <2>4 DEF Reset
<1>9. CASE \E p \in Projects : Schedule(p)
  <2>1. PICK p \in Projects : Schedule(p)  BY <1>9
  <2>2. \A q \in Projects : pstatus'[q] = "done" <=> pstatus[q] = "done"
    BY <2>1, <1>t DEF Schedule
  <2> QED BY <2>1, <2>2 DEF Schedule, DoneInv, AllDone
<1>10. CASE Pause \/ Resume \/ Stop
  BY <1>10, <1>c DEF Pause, Resume, Stop, dbVars
<1>11. CASE Exit \/ Crash
  BY <1>11, <1>w, <1>b DEF Exit, Crash, Gone, dbVars
<1>12. CASE Start  BY <1>12, <1>c DEF Start, dbVars
<1>13. CASE UNCHANGED vars  BY <1>13, <1>c DEF vars, dbVars
<1> QED BY <1>1, <1>2, <1>3, <1>4, <1>5, <1>6, <1>7, <1>8, <1>9, <1>10, <1>11, <1>12, <1>13
        DEF Next, Work

(* A project that is done has only runs that are. *)
THEOREM DoneProjectAlways == Spec => []DoneProjectHasDoneRuns
<1>1. TypeOK /\ PlaceInv /\ [Next]_vars => PlaceInv'  BY PlaceStep
<1>2. TypeOK /\ PlaceInv /\ DoneInv /\ [Next]_vars => DoneInv'  BY DoneStep
<1>3. DoneInv => DoneProjectHasDoneRuns
  BY DEF DoneInv, AllDone, Rows, RunsOf, DoneProjectHasDoneRuns
<1> QED BY TypeCorrect, PlaceInit, DoneInit, <1>1, <1>2, <1>3, PTL DEF Spec

-----------------------------------------------------------------------------
(* Migration implements Transfer.  The worker goes through the parts in their
   order, and by the row it read; so the row it writes has the columns it read
   and the ones of the parts it has behind it.  Hence the columns of a run are
   always those of its first parts, and the part in hand is the next one. *)

FirstParts(n) == {PartSeq[k] : k \in 1..n}

Prefix(f) == \E n \in 0..7 : f = FirstParts(n)

Open(r) == rstatus[r] \in {"pending", "in_progress"}

(* Worker v is at a run with columns f and n counted pieces. *)
InOrder(v, f, n) ==
    /\ v.pc = "finish" => f = Parts
    /\ v.pc # "finish" => f = v.flags \cup FirstParts(v.part - 1)
    /\ v.pc \in OnPart => PartSeq[v.part] \notin f
    /\ v.part = 1 \/ (v.part = 2 /\ v.pc \notin OnPart) => v.sent = n
    /\ v.pc \in {"gate", "send", "count"} /\ PartSeq[v.part] = "history" => v.at = n + 1

(* There is a piece where it is about to send one, or to count it. *)
AtPiece(v, r) ==
    /\ v.pc \in {"gate", "send", "count"} => v.at \in 1..Pieces[r][PartSeq[v.part]]
    /\ v.pc = "count" => PartSeq[v.part] = "history"

AtPlace ==
    /\ w.pc \in Busy \cup {"error"} => w.run \in Runs /\ Open(w.run)
    /\ w.pc \in Busy =>
          /\ AtPiece(w, w.run)
          /\ w.run \notin overtaken => InOrder(w, flags[w.run], sent[w.run])

OrderInv == AtPlace /\ \A r \in Runs \ overtaken : Prefix(flags[r])

LEMMA OrderFacts ==
    /\ \A j, k \in 1..7 : PartSeq[j] = PartSeq[k] => j = k
    /\ PartSeq[2] = "history"
    /\ FirstParts(0) = {}
    /\ FirstParts(7) = Parts
    /\ \A n \in 1..7 : FirstParts(n) = FirstParts(n - 1) \cup {PartSeq[n]}
<1>1. \A j, k \in 1..7 : PartSeq[j] = PartSeq[k] => j = k  BY DEF PartSeq
<1>2. PartSeq[2] = "history"  BY DEF PartSeq
<1>3. FirstParts(0) = {}  BY DEF FirstParts
<1>4. FirstParts(7) = Parts  BY PartFacts DEF FirstParts, Parts
<1>5. ASSUME NEW n \in 1..7 PROVE FirstParts(n) = FirstParts(n - 1) \cup {PartSeq[n]}
  <2>1. 1..n = (1..(n - 1)) \cup {n}  OBVIOUS
  <2> QED BY <2>1 DEF FirstParts
<1> QED BY <1>1, <1>2, <1>3, <1>4, <1>5

(* The first parts that lack part n, but none before it. *)
LEMMA PrefixAt ==
    ASSUME NEW f, Prefix(f), NEW n \in 1..7, FirstParts(n - 1) \subseteq f, PartSeq[n] \notin f
    PROVE  f = FirstParts(n - 1)
<1>1. PICK m \in 0..7 : f = FirstParts(m)  BY DEF Prefix
<1>2. m < n  BY <1>1 DEF FirstParts
<1>3. n - 1 <= m
  <2>1. SUFFICES ASSUME m < n - 1 PROVE FALSE  OBVIOUS
  <2>2. n - 1 \in 1..7 /\ PartSeq[n - 1] \in FirstParts(n - 1)  BY <2>1 DEF FirstParts
  <2>3. PICK k \in 1..m : PartSeq[k] = PartSeq[n - 1]  BY <1>1, <2>2 DEF FirstParts
  <2>4. k = n - 1  BY <2>2, <2>3, OrderFacts
  <2> QED BY <2>1, <2>4
<1> QED BY <1>1, <1>2, <1>3

(* The place before piece i of the part. *)
LEMMA PieceAt ==
    ASSUME NEW v \in Workers, NEW r \in Runs, NEW i \in Nat \ {0}
    PROVE  AtPiece([v EXCEPT !.pc = PieceOrMark(r, PartSeq[v.part], i), !.at = i], r)
<1> DEFINE u == [v EXCEPT !.pc = PieceOrMark(r, PartSeq[v.part], i), !.at = i]
<1>1. u.pc = PieceOrMark(r, PartSeq[v.part], i) /\ u.at = i /\ u.part = v.part
  BY DEF Workers
<1>2. PartSeq[v.part] \in Parts  BY PartFacts DEF Workers
<1>3. Pieces[r][PartSeq[v.part]] \in Nat  BY <1>2, SourceAssumption
<1> HIDE DEF u
<1>4. AtPiece(u, r)  BY <1>1, <1>3 DEF AtPiece, PieceOrMark
<1> QED BY <1>4 DEF u

(* ... of a run that was not reset under the worker. *)
LEMMA InOrderAt ==
    ASSUME NEW v \in Workers, NEW r, NEW f, NEW n, NEW pc,
           f = v.flags \cup FirstParts(v.part - 1), PartSeq[v.part] \notin f,
           v.part = 1 => v.sent = n,
           NEW i \in Nat \ {0}, PartSeq[v.part] = "history" => i = n + 1,
           pc = PieceOrMark(r, PartSeq[v.part], i)
    PROVE  InOrder([v EXCEPT !.pc = pc, !.at = i], f, n)
<1> DEFINE u == [v EXCEPT !.pc = pc, !.at = i]
<1>1. u.pc = pc /\ u.at = i /\ u.part = v.part /\ u.flags = v.flags /\ u.sent = v.sent
  BY DEF Workers
<1>2. pc \in {"mark", "gate", "send"} /\ pc \in OnPart  BY DEF PieceOrMark, OnPart
<1> HIDE DEF u
<1>3. InOrder(u, f, n)  BY <1>1, <1>2 DEF InOrder
<1> QED BY <1>3 DEF u

(* The place after a part whose column is set. *)
LEMMA InOrderNext ==
    ASSUME NEW v \in Workers, NEW r, NEW f, NEW n,
           f = v.flags \cup FirstParts(v.part), v.part = 1 => v.sent = n,
           NEW pc \in {"part", "after"}
    PROVE  /\ v.part = Len(PartSeq) => InOrder([v EXCEPT !.pc = "finish"], f, n)
           /\ v.part # Len(PartSeq) =>
                 InOrder([v EXCEPT !.pc = pc, !.part = @ + 1, !.at = 1], f, n)
<1>1. v.part \in 1..7 /\ v.flags \subseteq Parts  BY PartFacts DEF Workers
<1>2. "finish" \notin OnPart /\ pc \notin OnPart  BY DEF OnPart
<1>3. ASSUME v.part = Len(PartSeq)
      PROVE  InOrder([v EXCEPT !.pc = "finish"], f, n)
  <2>1. f = Parts /\ v.part = 7  BY <1>1, <1>3, PartFacts, OrderFacts
  <2> QED BY <1>2, <2>1 DEF InOrder, Workers
<1>4. ASSUME v.part # Len(PartSeq)
      PROVE  InOrder([v EXCEPT !.pc = pc, !.part = @ + 1, !.at = 1], f, n)
  <2> DEFINE u == [v EXCEPT !.pc = pc, !.part = @ + 1, !.at = 1]
  <2>1. u.pc = pc /\ u.part = v.part + 1 /\ u.flags = v.flags /\ u.sent = v.sent
    BY DEF Workers
  <2>2. u.part - 1 = v.part /\ (u.part \in {1, 2} => v.part = 1)  BY <1>1, <2>1
  <2> HIDE DEF u
  <2>3. InOrder(u, f, n)  BY <1>2, <2>1, <2>2 DEF InOrder
  <2> QED BY <2>3 DEF u
<1> QED BY <1>3, <1>4

LEMMA OrderInit == Init => OrderInv
<1> SUFFICES ASSUME Init PROVE OrderInv  OBVIOUS
<1>1. w.pc \notin Busy \cup {"error"}  BY DEF Init, IdleWorker, Busy, OnPart
<1>2. \A r \in Runs : flags[r] = FirstParts(0)  BY OrderFacts DEF Init
<1> QED BY <1>1, <1>2 DEF OrderInv, AtPlace, Prefix

LEMMA OrderStep == TypeOK /\ OrderInv /\ [Next]_vars => OrderInv'
<1> SUFFICES ASSUME TypeOK, OrderInv, [Next]_vars PROVE OrderInv'  OBVIOUS
<1>t. /\ w \in Workers
      /\ w.part \in 1..7 /\ Part \in Parts /\ w.at \in Nat /\ w.sent \in Nat
  BY PartTypes DEF TypeOK
<1>a. AtPlace  BY DEF OrderInv
<1>b. \A pc : pc \in Busy <=> pc \in {"begin", "fetch", "part", "after", "finish",
                                      "gate", "send", "count", "mark"}
  BY DEF Busy, OnPart
<1>c. \A pc : pc \in OnPart <=> pc \in {"gate", "send", "count", "mark"}
  BY DEF OnPart
<1>i. IdleWorker.pc \notin Busy \cup {"error"}  BY DEF IdleWorker, Busy, OnPart
<1>f. ASSUME w.pc \in Busy
      PROVE  /\ w.run \in Runs /\ Open(w.run)
             /\ AtPiece(w, w.run)
             /\ w.run \notin overtaken => InOrder(w, flags[w.run], sent[w.run])
  BY <1>f, <1>a DEF AtPlace
(* The columns are left alone. *)
<1>r. ASSUME UNCHANGED <<flags, overtaken>>, AtPlace' PROVE OrderInv'
  BY <1>r DEF OrderInv
<1>o. ASSUME UNCHANGED <<flags, overtaken>>, w'.pc \notin Busy \cup {"error"}
      PROVE  OrderInv'
  BY <1>o, <1>r DEF AtPlace
<1>x. ASSUME w'.pc \notin {"gate", "send", "count"} PROVE AtPiece(w', w.run)
  BY <1>x DEF AtPiece
(* The worker goes on with its run. *)
<1>m. ASSUME UNCHANGED <<flags, rstatus, overtaken>>, w.pc \in Busy, w'.run = w.run,
             AtPiece(w', w.run),
             w.run \notin overtaken => InOrder(w', flags[w.run], sent'[w.run])
      PROVE  OrderInv'
  <2>1. Open(w.run)' /\ w.run \in Runs  BY <1>m, <1>f DEF Open
  <2> QED BY <1>m, <2>1, <1>r DEF AtPlace
<1>u. ASSUME w' = w, UNCHANGED <<flags, sent, rstatus, overtaken>> PROVE OrderInv'
  BY <1>u, <1>a, <1>r DEF AtPlace, Open
<1>1. CASE Tick
  <2>1. w'.pc = "pick"  BY <1>1, <1>t DEF Tick, Workers
  <2> QED BY <1>1, <2>1, <1>b, <1>o DEF Tick, dbVars, rowVars, lossVars
<1>2. CASE \E p \in Projects : PickProject(p)
  <2>1. PICK p \in Projects : PickProject(p)  BY <1>2
  <2>2. w'.pc = "list"  BY <2>1, <1>t DEF PickProject, Workers
  <2> QED BY <2>1, <2>2, <1>b, <1>o DEF PickProject, rowVars, lossVars
<1>3. CASE NoProject
  <2>1. w'.pc = "pickRun"  BY <1>3, <1>t DEF NoProject, Workers
  <2> QED BY <1>3, <2>1, <1>b, <1>o DEF NoProject, dbVars, rowVars, lossVars
<1>4. CASE \E r \in Runs : PickRun(r)
  <2>1. PICK r \in Runs : PickRun(r)  BY <1>4
  <2>2. w'.run = r /\ w'.pc = "begin" /\ w'.flags = flags[r] /\ w'.sent = sent[r]
        /\ w'.part = 1
    BY <2>1 DEF PickRun, IdleWorker
  <2>3. UNCHANGED <<flags, sent, rstatus, overtaken>>
    BY <2>1 DEF PickRun, dbVars, rowVars, lossVars
  <2>4. Open(r)  BY <2>1 DEF PickRun, NextRuns, Eligible, Open
  <2>5. InOrder(w', flags[r], sent[r])  BY <2>2, <1>c, OrderFacts DEF InOrder
  <2>6. AtPlace'  BY <2>2, <2>3, <2>4, <2>5 DEF AtPlace, AtPiece, Open
  <2> QED BY <2>3, <2>6, <1>r
<1>5. CASE NoRun  BY <1>5, <1>i, <1>o DEF NoRun, dbVars, rowVars, lossVars
<1>6. CASE Discover
  <2>1. CASE ListRuns
    <3>1. w'.pc = "upsert"  BY <2>1, <1>t DEF ListRuns, Workers
    <3> QED BY <2>1, <3>1, <1>b, <1>o DEF ListRuns, dbVars, rowVars, lossVars
  <2>2. CASE ListFails  BY <2>2, <1>i, <1>o DEF ListFails, rowVars, lossVars
  <2>3. CASE Discovered  BY <2>3, <1>i, <1>o DEF Discovered, rowVars, lossVars
  <2>4. CASE \E r \in Runs : UpsertRow(r)
    <3>1. PICK r \in Runs : UpsertRow(r)  BY <2>4
    <3>2. w'.pc = "upsert"  BY <3>1, <1>t DEF UpsertRow, Workers
    <3> QED BY <3>1, <3>2, <1>b, <1>o DEF UpsertRow, rowVars, lossVars
  <2> QED BY <1>6, <2>1, <2>2, <2>3, <2>4 DEF Discover
<1>7. CASE Migrate
  (* A move before or after a part. *)
  <2>g. ASSUME w.pc \in {"begin", "fetch", "after"}, NEW pc \in {"fetch", "part"},
               w' = [w EXCEPT !.pc = pc]
        PROVE  /\ AtPiece(w', w.run)
               /\ w.run \notin overtaken => InOrder(w', flags[w.run], sent[w.run])
    <3>1. w.run \notin overtaken => InOrder(w, flags[w.run], sent[w.run])
      BY <2>g, <1>b, <1>f
    <3>2. w'.pc = pc  BY <2>g, <1>t DEF Workers
    <3>3. AtPiece(w', w.run)  BY <2>g, <3>2, <1>x
    <3> QED BY <2>g, <3>1, <3>3, <1>c, <1>t DEF InOrder, Workers
  <2>e. ASSUME w.pc \in Busy, w' = [w EXCEPT !.pc = "error"],
               UNCHANGED <<flags, rstatus, overtaken>>
        PROVE  OrderInv'
    <3>1. w'.pc = "error" /\ w'.run = w.run  BY <2>e, <1>t DEF Workers
    <3>2. "error" \notin Busy  BY <1>b
    <3>3. Open(w.run)' /\ w.run \in Runs  BY <2>e, <1>f DEF Open
    <3> QED BY <2>e, <3>1, <3>2, <3>3, <1>r DEF AtPlace
  (* The end of a part whose column is set. *)
  <2>n. ASSUME NextPart, w.run \notin overtaken,
               flags'[w.run] = w.flags \cup FirstParts(w.part), w.part = 1 => w.sent = sent[w.run]
        PROVE  InOrder(w', flags'[w.run], sent[w.run])
    BY <2>n, <1>t, InOrderNext DEF NextPart, Advance
  (* The step from a piece to the next. *)
  <2>p. ASSUME w.pc \in {"send", "count"}, w' = NextPiece, w.run \notin overtaken,
               Part = "history" => w.at = sent'[w.run],
               Part # "history" => sent'[w.run] = sent[w.run]
        PROVE  InOrder(w', flags[w.run], sent'[w.run])
    <3>1. InOrder(w, flags[w.run], sent[w.run]) /\ w.run \in Runs
      BY <2>p, <1>b, <1>f
    <3>2. /\ flags[w.run] = w.flags \cup FirstParts(w.part - 1)
          /\ PartSeq[w.part] \notin flags[w.run]
          /\ w.part = 1 => w.sent = sent[w.run]
      BY <2>p, <3>1, <1>c DEF InOrder
    <3>3. w.part = 1 => Part # "history"  BY OrderFacts DEF Part
    <3>4. w.part = 1 => w.sent = sent'[w.run]  BY <2>p, <3>2, <3>3
    <3>5. PICK n \in Nat \ {0} : n = w.at + 1  BY <1>t
    <3>6. PICK pc : pc = PieceOrMark(w.run, PartSeq[w.part], n)  OBVIOUS
    <3>7. w' = [w EXCEPT !.pc = pc, !.at = n]
      BY <2>p, <3>5, <3>6, <1>t DEF NextPiece, Workers, Part
    <3>8. PartSeq[w.part] = "history" => n = sent'[w.run] + 1
      BY <2>p, <3>5 DEF Part
    <3> QED BY <3>1, <3>2, <3>4, <3>6, <3>7, <3>8, <1>t, InOrderAt
  <2>q. ASSUME w.pc \in Busy, w' = NextPiece PROVE AtPiece(w', w.run)
    <3>1. PICK n \in Nat \ {0} : n = w.at + 1  BY <1>t
    <3>2. w' = [w EXCEPT !.pc = PieceOrMark(w.run, PartSeq[w.part], n), !.at = n]
      BY <2>q, <3>1, <1>t DEF NextPiece, Workers, Part
    <3>3. w.run \in Runs  BY <2>q, <1>f
    <3>4. AtPiece([w EXCEPT !.pc = PieceOrMark(w.run, PartSeq[w.part], n), !.at = n], w.run)
      BY <3>3, <1>t, PieceAt
    <3> QED BY <3>2, <3>4
  (* The end of a part is no place before a piece. *)
  <2>y. ASSUME NextPart PROVE AtPiece(w', w.run)
    <3>1. w'.pc \in {"finish", "after", "part"}  BY <2>y, <1>t DEF NextPart, Advance, Workers
    <3> QED BY <3>1, <1>x
  <2>1. CASE BeginRun
    <3>1. w.pc \in Busy /\ w.run \in Runs  BY <2>1, <1>b, <1>f DEF BeginRun
    <3>2. w'.run = w.run  BY <2>1, <1>t DEF BeginRun, Workers
    <3>3. Open(w.run)'  BY <2>1, <3>1 DEF BeginRun, SetRun, Open, TypeOK
    <3>4. UNCHANGED <<flags, sent, overtaken>>  BY <2>1 DEF BeginRun, rowVars, lossVars
    <3>5. AtPlace'  BY <2>1, <3>1, <3>2, <3>3, <3>4, <2>g DEF AtPlace, BeginRun
    <3> QED BY <3>4, <3>5, <1>r
  <2>2. CASE FetchRun
    <3>1. w.pc \in Busy  BY <2>2, <1>b DEF FetchRun
    <3>2. w'.run = w.run  BY <2>2, <1>t DEF FetchRun, Workers
    <3>3. UNCHANGED <<flags, sent, rstatus, overtaken>>
      BY <2>2 DEF FetchRun, dbVars, rowVars, lossVars
    <3> QED BY <2>2, <3>1, <3>2, <3>3, <2>g, <1>m DEF FetchRun
  <2>3. CASE StartFails
    <3>1. w.pc \in Busy  BY <2>3, <1>b DEF StartFails
    <3> QED BY <2>3, <3>1, <2>e DEF StartFails, dbVars, rowVars, lossVars
  <2>4. CASE SkipPart
    <3>1. w.pc \in Busy /\ w.pc = "part"  BY <2>4, <1>b DEF SkipPart
    <3>2. w'.run = w.run  BY <2>4, <1>t DEF SkipPart, NextPart, Advance, Workers
    <3>3. UNCHANGED <<flags, sent, rstatus, overtaken>>
      BY <2>4 DEF SkipPart, dbVars, rowVars, lossVars
    <3>4. ASSUME w.run \notin overtaken
          PROVE  InOrder(w', flags[w.run], sent[w.run])
      <4>1. InOrder(w, flags[w.run], sent[w.run])  BY <3>1, <3>4, <1>f
      <4>2. flags[w.run] = w.flags \cup FirstParts(w.part)
        BY <2>4, <3>1, <4>1, <1>t, OrderFacts DEF InOrder, SkipPart, Part
      <4>3. w.part = 1 => w.sent = sent[w.run]  BY <4>1 DEF InOrder
      <4> QED BY <2>4, <3>3, <3>4, <4>2, <4>3, <2>n DEF SkipPart
    <3>5. AtPiece(w', w.run)  BY <2>4, <2>y DEF SkipPart
    <3> QED BY <3>1, <3>2, <3>3, <3>4, <3>5, <1>m
  <2>5. CASE StartPart
    <3>1. w.pc \in Busy /\ w.pc = "part" /\ w.run \in Runs  BY <2>5, <1>b, <1>f DEF StartPart
    <3>2. w'.run = w.run  BY <2>5, <1>t DEF StartPart, Workers
    <3>3. UNCHANGED <<flags, sent, rstatus, overtaken>>
      BY <2>5 DEF StartPart, dbVars, rowVars, lossVars
    <3>4. ASSUME w.run \notin overtaken
          PROVE  InOrder(w', flags[w.run], sent[w.run])
      <4>1. InOrder(w, flags[w.run], sent[w.run])  BY <3>1, <3>4, <1>f
      <4>2. flags[w.run] = w.flags \cup FirstParts(w.part - 1)  BY <3>1, <4>1 DEF InOrder
      <4>3. Part \notin FirstParts(w.part - 1)
        BY <1>t, OrderFacts DEF FirstParts, Part
      <4>4. PartSeq[w.part] \notin flags[w.run]
        BY <2>5, <4>2, <4>3 DEF StartPart, Part
      <4>5. Part = "history" => w.part = 2  BY <1>t, OrderFacts DEF Part
      <4>6. w.part \in {1, 2} => w.sent = sent[w.run]  BY <3>1, <4>1, <1>c DEF InOrder
      <4>7. FirstPiece \in Nat \ {0}  BY <1>t DEF FirstPiece
      <4>8. PartSeq[w.part] = "history" => FirstPiece = sent[w.run] + 1
        BY <4>5, <4>6 DEF FirstPiece, Part
      <4> QED BY <2>5, <3>1, <4>2, <4>4, <4>6, <4>7, <4>8, <1>t, InOrderAt DEF StartPart, Part
    <3>5. AtPiece(w', w.run)
      <4>1. FirstPiece \in Nat \ {0}  BY <1>t DEF FirstPiece
      <4> QED BY <2>5, <3>1, <4>1, <1>t, PieceAt DEF StartPart, Part
    <3> QED BY <3>1, <3>2, <3>3, <3>4, <3>5, <1>m
  <2>6. CASE SourceHasNothing
    <3>1. w.pc \in Busy /\ w.pc = "part"  BY <2>6, <1>b DEF SourceHasNothing
    <3>2. w'.run = w.run  BY <2>6, <1>t DEF SourceHasNothing, Workers
    <3>3. UNCHANGED <<flags, sent, rstatus, overtaken>>
      BY <2>6 DEF SourceHasNothing, dbVars, rowVars
    <3>4. ASSUME w.run \notin overtaken
          PROVE  InOrder(w', flags[w.run], sent[w.run])
      <4>1. InOrder(w, flags[w.run], sent[w.run])  BY <3>1, <3>4, <1>f
      <4>2. flags[w.run] = w.flags \cup FirstParts(w.part - 1)  BY <3>1, <4>1 DEF InOrder
      <4>3. Part \notin FirstParts(w.part - 1)
        BY <1>t, OrderFacts DEF FirstParts, Part
      <4>4. PartSeq[w.part] \notin flags[w.run]
        BY <2>6, <4>2, <4>3 DEF SourceHasNothing, Part
      <4>5. w.part = 1 => w.sent = sent[w.run]  BY <4>1 DEF InOrder
      <4>6. w'.pc = "mark" /\ w'.part = w.part /\ w'.flags = w.flags /\ w'.sent = w.sent
        BY <2>6, <1>t DEF SourceHasNothing, Workers
      <4>7. w.part # 2  BY <2>6, OrderFacts DEF SourceHasNothing, Forgiving, Part
      <4> QED BY <4>2, <4>4, <4>5, <4>6, <4>7 DEF InOrder
    <3>5. AtPiece(w', w.run)
      <4>1. w'.pc = "mark"  BY <2>6, <1>t DEF SourceHasNothing, Workers
      <4> QED BY <4>1, <1>x
    <3> QED BY <3>1, <3>2, <3>3, <3>4, <3>5, <1>m
  <2>7. CASE PassGate
    <3>1. w.pc \in Busy  BY <2>7, <1>b DEF PassGate
    <3>2. w'.run = w.run  BY <2>7, <1>t DEF PassGate, Workers
    <3>3. UNCHANGED <<flags, sent, rstatus, overtaken>>
      BY <2>7 DEF PassGate, dbVars, rowVars, lossVars
    <3>4. ASSUME w.run \notin overtaken
          PROVE  InOrder(w', flags[w.run], sent[w.run])
      <4>1. InOrder(w, flags[w.run], sent[w.run])  BY <3>1, <3>4, <1>f
      <4>2. w.pc = "gate" => w' = [w EXCEPT !.pc = "send"]  BY <2>7 DEF PassGate
      <4>3. w.pc = "after" => w' = [w EXCEPT !.pc = "part"]  BY <2>7 DEF PassGate
      <4>4. CASE w.pc = "gate"  BY <4>1, <4>2, <4>4, <1>c, <1>t DEF InOrder, Workers
      <4>5. CASE w.pc = "after"  BY <3>4, <4>3, <4>5, <2>g
      <4> QED BY <2>7, <4>4, <4>5 DEF PassGate
    <3>5. AtPiece(w', w.run)
      BY <2>7, <3>1, <1>f, <1>t DEF PassGate, AtPiece, Workers
    <3> QED BY <3>1, <3>2, <3>3, <3>4, <3>5, <1>m
  <2>8. CASE CutShort
    <3>1. w.pc \in Busy  BY <2>8, <1>b DEF CutShort
    <3>2. w'.run = w.run  BY <2>8, <1>t DEF CutShort, Workers
    <3>3. UNCHANGED <<flags, sent, rstatus, overtaken>>
      BY <2>8 DEF CutShort, dbVars, rowVars
    <3>4. ASSUME w.run \notin overtaken
          PROVE  InOrder(w', flags[w.run], sent[w.run])
      <4>1. InOrder(w, flags[w.run], sent[w.run])  BY <3>1, <3>4, <1>f
      <4> QED BY <2>8, <4>1, <1>c, <1>t DEF CutShort, InOrder, Workers
    <3>5. AtPiece(w', w.run)
      <4>1. w'.pc = "mark"  BY <2>8, <1>t DEF CutShort, Workers
      <4> QED BY <4>1, <1>x
    <3> QED BY <3>1, <3>2, <3>3, <3>4, <3>5, <1>m
  <2>9. CASE LeaveRun  BY <2>9, <1>i, <1>o DEF LeaveRun, dbVars, rowVars, lossVars
  <2>10. CASE SendPiece
    <3>1. w.pc \in Busy /\ w.pc = "send"  BY <2>10, <1>b DEF SendPiece
    <3>2. w'.run = w.run  BY <2>10, <1>t DEF SendPiece, NextPiece, Workers
    <3>3. UNCHANGED <<flags, sent, rstatus, overtaken>>
      BY <2>10 DEF SendPiece, dbVars, rowVars, lossVars
    <3>4. ASSUME w.run \notin overtaken
          PROVE  InOrder(w', flags[w.run], sent[w.run])
      <4>1. InOrder(w, flags[w.run], sent[w.run])  BY <3>1, <3>4, <1>f
      <4>2. CASE Part = "history"
        <5>1. w' = [w EXCEPT !.pc = "count"]  BY <2>10, <4>2 DEF SendPiece
        <5> QED BY <3>1, <4>1, <4>2, <5>1, <1>c, <1>t DEF InOrder, Workers, Part
      <4>3. CASE Part # "history"
        <5>1. w' = NextPiece  BY <2>10, <4>3 DEF SendPiece
        <5> QED BY <3>1, <3>3, <3>4, <4>3, <5>1, <2>p
      <4> QED BY <4>2, <4>3
    <3>5. AtPiece(w', w.run)
      <4>1. CASE Part = "history"
        <5>1. w' = [w EXCEPT !.pc = "count"]  BY <2>10, <4>1 DEF SendPiece
        <5> QED BY <3>1, <4>1, <5>1, <1>f, <1>t DEF AtPiece, Workers, Part
      <4>2. CASE Part # "history"
        <5>1. w' = NextPiece  BY <2>10, <4>2 DEF SendPiece
        <5> QED BY <3>1, <5>1, <2>q
      <4> QED BY <4>1, <4>2
    <3> QED BY <3>1, <3>2, <3>3, <3>4, <3>5, <1>m
  <2>11. CASE SendFails
    <3>1. w.pc \in Busy  BY <2>11, <1>b DEF SendFails
    <3> QED BY <2>11, <3>1, <2>e DEF SendFails, dbVars, rowVars, lossVars
  <2>12. CASE FileMissing
    <3>1. w.pc \in Busy /\ w.pc = "send"  BY <2>12, <1>b DEF FileMissing
    <3>2. w'.run = w.run  BY <2>12, <1>t DEF FileMissing, NextPiece, Workers
    <3>3. UNCHANGED <<flags, sent, rstatus, overtaken>>
      BY <2>12 DEF FileMissing, dbVars, rowVars
    <3>4. ASSUME w.run \notin overtaken
          PROVE  InOrder(w', flags[w.run], sent[w.run])
      <4>1. Part # "history" /\ w' = NextPiece  BY <2>12 DEF FileMissing
      <4> QED BY <3>1, <3>3, <3>4, <4>1, <2>p
    <3>5. AtPiece(w', w.run)  BY <2>12, <3>1, <2>q DEF FileMissing
    <3> QED BY <3>1, <3>2, <3>3, <3>4, <3>5, <1>m
  <2>13. CASE CountSent
    <3>1. w.pc \in Busy /\ w.pc = "count" /\ w.run \in Runs  BY <2>13, <1>b, <1>f DEF CountSent
    <3>2. w'.run = w.run  BY <2>13, <1>t DEF CountSent, NextPiece, Workers
    <3>3. UNCHANGED <<flags, rstatus, overtaken>>  BY <2>13 DEF CountSent, lossVars
    <3>4. sent'[w.run] = w.at  BY <2>13, <3>1 DEF CountSent, TypeOK
    <3>5. ASSUME w.run \notin overtaken
          PROVE  InOrder(w', flags[w.run], sent'[w.run])
      <4>1. Part = "history"  BY <3>1, <1>f DEF AtPiece, Part
      <4>2. w' = NextPiece  BY <2>13 DEF CountSent
      <4> QED BY <3>1, <3>4, <3>5, <4>1, <4>2, <2>p
    <3>6. AtPiece(w', w.run)  BY <2>13, <3>1, <2>q DEF CountSent
    <3> QED BY <3>1, <3>2, <3>3, <3>5, <3>6, <1>m
  <2>14. CASE MarkPart
    <3>1. w.pc \in Busy /\ w.pc = "mark" /\ w.run \in Runs  BY <2>14, <1>b, <1>f DEF MarkPart
    <3>2. w'.run = w.run  BY <2>14, <1>t DEF MarkPart, NextPart, Advance, Workers
    <3>3. UNCHANGED <<sent, rstatus, overtaken>>  BY <2>14 DEF MarkPart, lossVars
    <3>4. /\ flags'[w.run] = flags[w.run] \cup {Part}
          /\ \A r \in Runs : r # w.run => flags'[r] = flags[r]
      BY <2>14, <3>1 DEF MarkPart, TypeOK
    <3>5. ASSUME w.run \notin overtaken
          PROVE  /\ flags'[w.run] = w.flags \cup FirstParts(w.part)
                 /\ Prefix(flags'[w.run])
                 /\ w.part = 1 => w.sent = sent[w.run]
      <4>1. InOrder(w, flags[w.run], sent[w.run])  BY <3>1, <3>5, <1>f
      <4>2. /\ flags[w.run] = w.flags \cup FirstParts(w.part - 1)
            /\ PartSeq[w.part] \notin flags[w.run]
            /\ w.part = 1 => w.sent = sent[w.run]
        BY <3>1, <4>1, <1>c DEF InOrder
      <4>3. flags'[w.run] = w.flags \cup FirstParts(w.part)
        BY <3>4, <4>2, <1>t, OrderFacts DEF Part
      <4>4. flags[w.run] = FirstParts(w.part - 1)
        BY <3>1, <3>5, <4>2, <1>t, PrefixAt DEF OrderInv
      <4>5. flags'[w.run] = FirstParts(w.part)
        BY <3>4, <4>4, <1>t, OrderFacts DEF Part
      <4>6. Prefix(flags'[w.run])  BY <4>5, <1>t DEF Prefix
      <4> QED BY <4>2, <4>3, <4>6
    <3>6. ASSUME w.run \notin overtaken
          PROVE  InOrder(w', flags'[w.run], sent'[w.run])
      <4>1. NextPart  BY <2>14 DEF MarkPart
      <4>2. InOrder(w', flags'[w.run], sent[w.run])  BY <3>5, <3>6, <4>1, <2>n
      <4> QED BY <3>3, <4>2
    <3>7. Open(w.run)'  BY <3>1, <3>2, <3>3, <1>f DEF Open
    <3>8. AtPiece(w', w.run)  BY <2>14, <2>y DEF MarkPart
    <3>9. AtPlace'  BY <3>1, <3>2, <3>3, <3>6, <3>7, <3>8 DEF AtPlace
    <3>10. \A r \in Runs \ overtaken' : Prefix(flags'[r])  BY <3>3, <3>4, <3>5 DEF OrderInv
    <3> QED BY <3>9, <3>10 DEF OrderInv
  <2>15. CASE FinishRun
    <3>1. w'.pc = "check"  BY <2>15, <1>t DEF FinishRun, Workers
    <3> QED BY <2>15, <3>1, <1>b, <1>o DEF FinishRun, rowVars, lossVars
  <2>16. CASE RecordError  BY <2>16, <1>i, <1>o DEF RecordError, lossVars
  <2>17. CASE CheckProject
    <3>1. w'.pc \notin Busy \cup {"error"}
      BY <2>17, <1>i, <1>b, <1>t DEF CheckProject, Workers
    <3> QED BY <2>17, <3>1, <1>o DEF CheckProject, dbVars, rowVars, lossVars
  <2>18. CASE CloseProject  BY <2>18, <1>i, <1>o DEF CloseProject, rowVars, lossVars
  <2> QED BY <1>7, <2>1, <2>2, <2>3, <2>4, <2>5, <2>6, <2>7, <2>8, <2>9, <2>10, <2>11, <2>12,
             <2>13, <2>14, <2>15, <2>16, <2>17, <2>18 DEF Migrate
<1>8. CASE Reset
  <2>c. ASSUME NEW R \in SUBSET Runs, ClearRows(R), w' = w PROVE OrderInv'
    <3>1. ASSUME w.pc \in Busy \cup {"error"} PROVE w.run \in Runs /\ Open(w.run)'
      <4>1. w.run \in Runs /\ Open(w.run)  BY <3>1, <1>a DEF AtPlace
      <4> QED BY <2>c, <4>1 DEF ClearRows, Open
    <3>2. ASSUME w.pc \in Busy, w.run \notin overtaken'
          PROVE  InOrder(w, flags'[w.run], sent'[w.run])
      <4>1. w.run \in Runs  BY <3>2, <1>f
      <4>2. w.run \notin R /\ w.run \notin overtaken  BY <2>c, <3>2, <4>1 DEF ClearRows, At
      <4>3. flags'[w.run] = flags[w.run] /\ sent'[w.run] = sent[w.run]
        BY <2>c, <4>1, <4>2 DEF ClearRows
      <4> QED BY <3>2, <4>2, <4>3, <1>f
    <3>3. AtPlace'  BY <2>c, <3>1, <3>2, <1>f DEF AtPlace
    <3>4. ASSUME NEW r \in Runs \ overtaken' PROVE Prefix(flags'[r])
      <4>1. CASE r \in R
        <5>1. flags'[r] = FirstParts(0)  BY <2>c, <4>1, OrderFacts DEF ClearRows
        <5> QED BY <5>1 DEF Prefix
      <4>2. CASE r \notin R
        <5>1. flags'[r] = flags[r] /\ r \notin overtaken  BY <2>c, <3>4, <4>2 DEF ClearRows
        <5> QED BY <3>4, <5>1 DEF OrderInv
      <4> QED BY <4>1, <4>2
    <3> QED BY <3>3, <3>4 DEF OrderInv
  <2>1. CASE \E r \in Runs : ResetRun(r)
    <3>1. PICK r \in Runs : ResetRun(r)  BY <2>1
    <3>2. ClearRows({r}) /\ {r} \in SUBSET Runs /\ w' = w  BY <3>1 DEF ResetRun
    <3> QED BY <3>2, <2>c
  <2>2. CASE \E p \in Projects, force \in BOOLEAN : ResetProject(p, force)
    BY <2>2, <1>u DEF ResetProject, dbVars, rowVars, lossVars
  <2>3. CASE ResetRows
    <3>1. CASE api.force
      <4>1. ClearRows(Rows(api.project)) /\ Rows(api.project) \in SUBSET Runs /\ w' = w
        BY <2>3, <3>1 DEF ResetRows, Rows, RunsOf
      <4> QED BY <4>1, <2>c
    <3>2. CASE ~api.force
      <4>1. w' = w /\ UNCHANGED <<flags, sent, overtaken>>
        BY <2>3, <3>2 DEF ResetRows, lossVars
      <4>2. \A r \in Runs : Open(r) => Open(r)'
        BY <2>3, <3>2 DEF ResetRows, Open
      <4>3. AtPlace'  BY <4>1, <4>2, <1>a DEF AtPlace
      <4> QED BY <4>1, <4>3, <1>r
    <3> QED BY <3>1, <3>2
  <2>4. CASE ResetStatus
    BY <2>4, <1>u DEF ResetStatus, rowVars, lossVars
  <2> QED BY <1>8, <2>1, <2>2, <2>3, <2>4 DEF Reset
<1>9. CASE \E p \in Projects : Schedule(p)
  BY <1>9, <1>u DEF Schedule, rowVars, lossVars
<1>10. CASE Pause \/ Resume \/ Stop
  BY <1>10, <1>u DEF Pause, Resume, Stop, dbVars, rowVars, lossVars
<1>11. CASE Exit \/ Crash
  BY <1>11, <1>i, <1>o DEF Exit, Crash, Gone, dbVars, rowVars, lossVars
<1>12. CASE Start  BY <1>12, <1>u DEF Start, dbVars, rowVars, lossVars
<1>13. CASE UNCHANGED vars
  BY <1>13, <1>u DEF vars, dbVars, rowVars, lossVars
<1> QED BY <1>1, <1>2, <1>3, <1>4, <1>5, <1>6, <1>7, <1>8, <1>9, <1>10, <1>11, <1>12, <1>13
        DEF Next, Work

LEMMA OrderAlways == Spec => []OrderInv
BY OrderInit, OrderStep, TypeCorrect, PTL DEF Spec

(* The part at hand is the next one of Transfer. *)
LEMMA PartAtHand ==
    ASSUME TypeOK, OrderInv, w.pc \in Busy,
           w.pc \in OnPart \/ (w.pc = "part" /\ Part \notin w.flags)
    PROVE  /\ w.run \in Runs /\ Copying!AtPart(w.run, w.part)
           /\ w.part \in 1..7 /\ PartSeq[w.part] = Part /\ Part \in Parts
<1>1. w \in Workers /\ w.part \in 1..7 /\ Part \in Parts  BY PartTypes DEF TypeOK
<1>2. w.run \in Runs  BY DEF OrderInv, AtPlace
<1>3. ASSUME w.run \notin overtaken PROVE flags[w.run] = FirstParts(w.part - 1)
  <2>1. InOrder(w, flags[w.run], sent[w.run])  BY <1>3 DEF OrderInv, AtPlace
  <2>2. w.pc # "finish"  BY DEF OnPart
  <2>3. flags[w.run] = w.flags \cup FirstParts(w.part - 1)  BY <2>1, <2>2 DEF InOrder
  <2>4. Part \notin FirstParts(w.part - 1)  BY <1>1, OrderFacts DEF FirstParts, Part
  <2>5. PartSeq[w.part] \notin flags[w.run]  BY <2>1, <2>3, <2>4 DEF InOrder, Part
  <2>6. Prefix(flags[w.run])  BY <1>2, <1>3 DEF OrderInv
  <2> QED BY <1>1, <2>3, <2>5, <2>6, PrefixAt
<1> QED BY <1>1, <1>2, <1>3 DEF Copying!AtPart, Copying!PartsUpTo, FirstParts, Part

LEMMA StatusFacts ==
    /\ \A r \in Runs : Open(r) => [q \in Runs |-> Settling(rstatus[q])][r] = "open"
    /\ \A st : st \in {"pending", "in_progress"} => Settling(st) = "open"
    /\ Settling("none") = "unlisted" /\ Settling("error") = "failed" /\ Settling("done") = "done"
BY DEF Settling, Open

LEMMA PiecesOfParts ==
    ASSUME NEW r, NEW c, NEW p
    PROVE  UNION {PieceSet(r, q) : q \in c \cup {p}}
             = (UNION {PieceSet(r, q) : q \in c}) \cup PieceSet(r, p)
<1> DEFINE A == {PieceSet(r, q) : q \in c}
           B == {PieceSet(r, q) : q \in c \cup {p}}
           x == PieceSet(r, p)
<1>1. B = A \cup {x}  OBVIOUS
<1>2. UNION (A \cup {x}) = (UNION A) \cup x
  <2> HIDE DEF A, x
  <2> QED OBVIOUS
<1>3. UNION B = (UNION A) \cup x
  <2> HIDE DEF A, B, x
  <2> QED BY <1>1, <1>2
<1> QED BY <1>3

LEMMA CopyingInit == Init => Copying!Init
BY StatusFacts DEF Init, Copying!Init, GivenUp

(* Nothing of what Transfer sees changes. *)
LEMMA CopyingStutters ==
    ASSUME UNCHANGED <<flags, sent, got, missed, cut, overtaken>>,
           \A r \in Runs : Settling(rstatus'[r]) = Settling(rstatus[r])
    PROVE  UNCHANGED Copying!vars
BY DEF Copying!vars, GivenUp

LEMMA CopyingStep == TypeOK /\ OrderInv /\ CopyInv /\ CopyInv' /\ [Next]_vars => [Copying!Next]_Copying!vars
<1> SUFFICES ASSUME TypeOK, OrderInv, CopyInv, CopyInv', [Next]_vars
             PROVE  [Copying!Next]_Copying!vars
  OBVIOUS
<1>t. /\ w \in Workers
      /\ w.part \in 1..7 /\ Part \in Parts /\ w.at \in Nat /\ w.sent \in Nat
  BY PartTypes DEF TypeOK
<1>a. AtPlace  BY DEF OrderInv
<1>b. \A pc : pc \in Busy <=> pc \in {"begin", "fetch", "part", "after", "finish",
                                      "gate", "send", "count", "mark"}
  BY DEF Busy, OnPart
<1>c. \A pc : pc \in OnPart <=> pc \in {"gate", "send", "count", "mark"}
  BY DEF OnPart
<1>l. Len(PartSeq) = 7  BY PartFacts
<1> DEFINE St == [r \in Runs |-> Settling(rstatus[r])]
           Lo == [r \in Runs |-> GivenUp(r)]
<1>f. ASSUME w.pc \in Busy \cup {"error"}
      PROVE  w.run \in Runs /\ Open(w.run) /\ St[w.run] = "open"
  BY <1>f, <1>a, StatusFacts DEF AtPlace
<1>s. ASSUME UNCHANGED <<flags, sent, rstatus, got, missed, cut, overtaken>>
      PROVE  UNCHANGED Copying!vars
  BY <1>s, CopyingStutters
<1>d. ASSUME NEW status, rstatus' = [rstatus EXCEPT ![w.run] = status], w.run \in Runs
      PROVE  St' = [St EXCEPT ![w.run] = Settling(status)]
  BY <1>d DEF TypeOK
(* Pieces of one run are given up. *)
<1>g. ASSUME NEW r \in Runs, NEW S, GivenUp(r)' = GivenUp(r) \cup S,
             \A q \in Runs : q # r => missed'[q] = missed[q] /\ cut'[q] = cut[q]
      PROVE  Lo' = [Lo EXCEPT ![r] = @ \cup S]
  <2>1. \A q \in Runs : q # r => GivenUp(q)' = GivenUp(q)  BY <1>g DEF GivenUp
  <2> QED BY <1>g, <2>1
<1>1. CASE \/ Tick \/ NoProject \/ NoRun
           \/ \E p \in Projects : PickProject(p)
           \/ \E r \in Runs : PickRun(r)
  BY <1>1, <1>s DEF Tick, NoProject, NoRun, PickProject, PickRun, dbVars, rowVars, lossVars
<1>2. CASE Discover
  <2>1. CASE ListRuns \/ ListFails \/ Discovered
    BY <2>1, <1>s DEF ListRuns, ListFails, Discovered, dbVars, rowVars, lossVars
  <2>2. CASE \E r \in Runs : UpsertRow(r)
    <3>1. PICK r \in Runs : UpsertRow(r)  BY <2>2
    <3>2. UNCHANGED <<flags, sent, got, missed, cut, overtaken>>
      BY <3>1 DEF UpsertRow, rowVars, lossVars
    <3>3. CASE rstatus[r] = "none"
      <4>1. rstatus' = [rstatus EXCEPT ![r] = "pending"]  BY <3>1, <3>3 DEF UpsertRow
      <4>2. St[r] = "unlisted" /\ St' = [St EXCEPT ![r] = "open"]
        BY <3>3, <4>1, StatusFacts DEF TypeOK
      <4>3. Copying!List(r)  BY <3>2, <4>2 DEF Copying!List, GivenUp
      <4> QED BY <4>3 DEF Copying!Next
    <3>4. CASE rstatus[r] # "none"
      <4>1. rstatus' = rstatus  BY <3>1, <3>4 DEF UpsertRow, TypeOK
      <4> QED BY <3>2, <4>1, <1>s
    <3> QED BY <3>3, <3>4
  <2> QED BY <1>2, <2>1, <2>2 DEF Discover
<1>3. CASE Migrate
  <2>h. ASSUME w.pc \in OnPart \/ (w.pc = "part" /\ Part \notin w.flags)
        PROVE  /\ w.run \in Runs /\ Copying!AtPart(w.run, w.part)
               /\ PartSeq[w.part] = Part
    BY <2>h, <1>b, <1>c, PartAtHand
  <2>n. ASSUME NEW r \in Runs, Copying!Copy(r) PROVE Copying!Next
    BY <2>n DEF Copying!Next
  (* Pieces of the part at hand are given up. *)
  <2>g. ASSUME w.pc \in OnPart \/ (w.pc = "part" /\ Part \notin w.flags),
               NEW S \in SUBSET PieceSet(w.run, Part),
               Lo' = [Lo EXCEPT ![w.run] = @ \cup S],
               UNCHANGED <<flags, sent, rstatus, got, overtaken>>
        PROVE  Copying!Next
    <3>1. w.run \in Runs /\ Copying!AtPart(w.run, w.part) /\ PartSeq[w.part] = Part
      BY <2>g, <2>h
    <3>2. w.pc \in Busy  BY <2>g, <1>b, <1>c
    <3>3. S \in SUBSET Copying!PiecesOf(w.run, PartSeq[w.part])
      BY <3>1 DEF Copying!PiecesOf, PieceSet
    <3>4. St[w.run] = "open"  BY <3>2, <1>f
    <3>5. Copying!GiveUp(w.run, w.part, S)
      BY <2>g, <3>1, <3>3, <3>4 DEF Copying!GiveUp
    <3>6. Copying!Copy(w.run)  BY <3>3, <3>5, <1>t, <1>l DEF Copying!Copy
    <3> QED BY <3>1, <3>6, <2>n
  (* A piece arrives. *)
  <2>d. ASSUME w.pc = "send", Deliver, UNCHANGED <<flags, sent, rstatus, missed, cut, overtaken>>
        PROVE  [Copying!Next]_Copying!vars
    <3>1. w.run \in Runs /\ Copying!AtPart(w.run, w.part) /\ PartSeq[w.part] = Part
      BY <2>d, <1>c, <2>h
    <3>2. St[w.run] = "open"  BY <2>d, <1>b, <1>f
    <3>3. UNCHANGED Lo /\ UNCHANGED St  BY <2>d DEF GivenUp
    <3>4. w.at \in 1..Pieces[w.run][Part]
      BY <2>d, <1>b, <1>a DEF AtPlace, AtPiece, Part
    <3>5. w.run \notin overtaken /\ Part = "history" => w.at = sent[w.run] + 1
      BY <2>d, <1>b, <1>a DEF AtPlace, InOrder, Part
    <3>6. <<Part, w.at>> \in Copying!PiecesOf(w.run, Part)  BY <3>4 DEF Copying!PiecesOf
    <3>7. Copying!Arrive(w.run, w.part, w.at)
      BY <2>d, <3>1, <3>2, <3>3, <3>5, <3>6 DEF Copying!Arrive, Deliver
    <3>8. Copying!Copy(w.run)  BY <3>1, <3>4, <3>7, <1>t, <1>l DEF Copying!Copy
    <3> QED BY <3>1, <3>8, <2>n
  <2>1. CASE \/ BeginRun \/ FetchRun \/ StartFails \/ SkipPart \/ StartPart \/ PassGate
             \/ LeaveRun \/ CheckProject \/ CloseProject
    <3>1. UNCHANGED <<flags, sent, got, missed, cut, overtaken>>
      BY <2>1
      DEF BeginRun, FetchRun, StartFails, SkipPart, StartPart, PassGate, LeaveRun,
          CheckProject, CloseProject, dbVars, rowVars, lossVars
    <3>2. CASE BeginRun
      <4>1. w.run \in Runs /\ Open(w.run)  BY <3>2, <1>b, <1>f DEF BeginRun
      <4>2. \A r \in Runs : rstatus'[r] # rstatus[r] => Open(r) /\ rstatus'[r] = "in_progress"
        BY <3>2, <4>1 DEF BeginRun, SetRun, Open, TypeOK
      <4>3. \A r \in Runs : Settling(rstatus'[r]) = Settling(rstatus[r])
        BY <4>2, StatusFacts DEF Open
      <4> QED BY <3>1, <4>3, CopyingStutters
    <3>3. CASE ~BeginRun
      <4>1. rstatus' = rstatus
        BY <2>1, <3>3
        DEF FetchRun, StartFails, SkipPart, StartPart, PassGate, LeaveRun,
            CheckProject, CloseProject, dbVars
      <4> QED BY <3>1, <4>1, <1>s
    <3> QED BY <3>2, <3>3
  <2>2. CASE SourceHasNothing
    <3>1. UNCHANGED <<flags, sent, rstatus, got, cut, overtaken>>
      BY <2>2 DEF SourceHasNothing, dbVars, rowVars
    <3>2. w.run \in Runs  BY <2>2, <1>b, <1>f DEF SourceHasNothing
    <3>3. PICK r \in Runs : r = w.run  BY <3>2
    <3>4. /\ missed'[r] = missed[r] \cup PieceSet(r, Part) /\ cut'[r] = cut[r]
          /\ \A q \in Runs : q # r => missed'[q] = missed[q] /\ cut'[q] = cut[q]
      BY <2>2, <3>1, <3>3 DEF SourceHasNothing, TypeOK
    <3>5. GivenUp(r)' = GivenUp(r) \cup PieceSet(r, Part)  BY <3>4 DEF GivenUp
    <3>6. Lo' = [Lo EXCEPT ![w.run] = @ \cup PieceSet(w.run, Part)]
      BY <3>3, <3>4, <3>5, <1>g
    <3> QED BY <2>2, <3>1, <3>6, <2>g DEF SourceHasNothing
  <2>3. CASE CutShort
    <3>1. UNCHANGED <<flags, sent, rstatus, got, missed, overtaken>>
      BY <2>3 DEF CutShort, dbVars, rowVars
    <3>2. w.run \in Runs  BY <2>3, <1>b, <1>f DEF CutShort
    <3>3. PICK r \in Runs : r = w.run  BY <3>2
    <3>4. /\ cut'[r] = cut[r] \cup {Part} /\ missed'[r] = missed[r]
          /\ \A q \in Runs : q # r => missed'[q] = missed[q] /\ cut'[q] = cut[q]
      BY <2>3, <3>1, <3>3 DEF CutShort, TypeOK
    <3>5. GivenUp(r)' = GivenUp(r) \cup PieceSet(r, Part)
      BY <3>4, PiecesOfParts DEF GivenUp
    <3>6. Lo' = [Lo EXCEPT ![w.run] = @ \cup PieceSet(w.run, Part)]
      BY <3>3, <3>4, <3>5, <1>g
    <3>7. w.pc \in OnPart  BY <2>3, <1>c DEF CutShort
    <3> QED BY <3>1, <3>6, <3>7, <2>g
  <2>4. CASE SendPiece
    BY <2>4, <2>d DEF SendPiece, dbVars, rowVars, lossVars
  <2>5. CASE SendFails
    <3>1. w.pc = "send" /\ UNCHANGED <<flags, sent, rstatus, missed, cut, overtaken>>
      BY <2>5 DEF SendFails, dbVars, rowVars, lossVars
    <3>2. Deliver \/ got' = got  BY <2>5 DEF SendFails
    <3> QED BY <3>1, <3>2, <2>d, <1>s
  <2>6. CASE FileMissing
    <3>1. UNCHANGED <<flags, sent, rstatus, got, cut, overtaken>> /\ w.pc = "send"
      BY <2>6 DEF FileMissing, dbVars, rowVars
    <3>2. w.run \in Runs /\ AtPiece(w, w.run)  BY <3>1, <1>b, <1>a DEF AtPlace
    <3>3. Lo' = [Lo EXCEPT ![w.run] = @ \cup {<<Part, w.at>>}]
      <4>1. PICK r \in Runs : r = w.run  BY <3>2
      <4>2. /\ missed'[r] = missed[r] \cup {<<Part, w.at>>} /\ cut'[r] = cut[r]
            /\ \A q \in Runs : q # r => missed'[q] = missed[q] /\ cut'[q] = cut[q]
        BY <2>6, <3>1, <4>1 DEF FileMissing, TypeOK
      <4>3. GivenUp(r)' = GivenUp(r) \cup {<<Part, w.at>>}  BY <4>2 DEF GivenUp
      <4> QED BY <4>1, <4>2, <4>3, <1>g
    <3>4. {<<Part, w.at>>} \in SUBSET PieceSet(w.run, Part)
      BY <3>1, <3>2 DEF AtPiece, PieceSet, Part
    <3>5. w.pc \in OnPart  BY <3>1, <1>c
    <3> QED BY <3>1, <3>3, <3>4, <3>5, <2>g
  <2>7. CASE CountSent
    <3>1. /\ UNCHANGED <<flags, rstatus, got, missed, cut, overtaken>>
          /\ w.pc = "count" /\ sent' = [sent EXCEPT ![w.run] = w.at]
      BY <2>7 DEF CountSent, lossVars
    <3>2. w.run \in Runs /\ St[w.run] = "open" /\ AtPiece(w, w.run)
      BY <3>1, <1>b, <1>f, <1>a DEF AtPlace
    <3>3. w.at \in 1..Pieces[w.run]["history"] /\ Part = "history"
      BY <3>1, <3>2 DEF AtPiece, Part
    <3>4. ASSUME w.run \notin overtaken
          PROVE  w.at = sent[w.run] + 1 /\ <<"history", w.at>> \in got[w.run]
      <4>1. InOrder(w, flags[w.run], sent[w.run])  BY <3>1, <3>4, <1>b, <1>a DEF AtPlace
      <4>2. w.at = sent[w.run] + 1  BY <3>1, <3>3, <4>1 DEF InOrder, Part
      <4>3. Facts(w, w.run, got[w.run], missed[w.run], cut[w.run])
        BY <3>1, <3>4, <1>b DEF CopyInv, Hands
      <4> QED BY <3>1, <4>2, <4>3 DEF Facts
    <3>5. UNCHANGED Lo /\ UNCHANGED St  BY <3>1 DEF GivenUp
    <3>6. Copying!Count(w.run, w.at)
      BY <3>1, <3>2, <3>4, <3>5 DEF Copying!Count
    <3>7. Copying!Copy(w.run)  BY <3>3, <3>6 DEF Copying!Copy
    <3> QED BY <3>2, <3>7, <2>n
  <2>8. CASE MarkPart
    <3>1. /\ UNCHANGED <<sent, rstatus, got, missed, cut, overtaken>>
          /\ w.pc = "mark" /\ flags' = [flags EXCEPT ![w.run] = @ \cup {Part}]
      BY <2>8 DEF MarkPart, lossVars
    <3>2. w.run \in Runs /\ St[w.run] = "open"  BY <3>1, <1>b, <1>f
    <3>3. Copying!AtPart(w.run, w.part) /\ PartSeq[w.part] = Part  BY <3>1, <1>c, <2>h
    <3>4. ASSUME w.run \notin overtaken
          PROVE  Copying!PiecesOf(w.run, Part) \subseteq got[w.run] \cup Lo[w.run]
      <4>1. Full(w.run, Part, got[w.run], missed[w.run], cut[w.run])
        BY <3>1, <3>4, <1>b DEF CopyInv, Hands, Facts, Part
      <4>2. Part \in cut[w.run] => PieceSet(w.run, Part) \subseteq GivenUp(w.run)  BY DEF GivenUp
      <4>3. PieceSet(w.run, Part) \subseteq got[w.run] \cup GivenUp(w.run)
        BY <4>1, <4>2 DEF Full, GivenUp
      <4> QED BY <3>2, <4>3 DEF Copying!PiecesOf, PieceSet
    <3>5. UNCHANGED Lo /\ UNCHANGED St  BY <3>1 DEF GivenUp
    <3>6. Copying!Note(w.run, w.part)
      BY <3>1, <3>2, <3>3, <3>4, <3>5 DEF Copying!Note
    <3>7. Copying!Copy(w.run)  BY <3>6, <1>t, <1>l DEF Copying!Copy
    <3> QED BY <3>2, <3>7, <2>n
  <2>9. CASE FinishRun
    <3>1. UNCHANGED <<flags, sent, got, missed, cut, overtaken>> /\ w.pc = "finish"
      BY <2>9 DEF FinishRun, rowVars, lossVars
    <3>2. w.run \in Runs /\ St[w.run] = "open"  BY <3>1, <1>b, <1>f
    <3>3. St' = [St EXCEPT ![w.run] = "done"]
      <4>1. rstatus' = [rstatus EXCEPT ![w.run] = "done"]  BY <2>9 DEF FinishRun, SetRun
      <4>2. St' = [St EXCEPT ![w.run] = Settling("done")]  BY <3>2, <4>1, <1>d
      <4> QED BY <4>2, StatusFacts
    <3>4. w.run \notin overtaken => flags[w.run] = Copying!AllParts
      BY <3>1, <1>b, <1>a, <1>l, OrderFacts
      DEF AtPlace, InOrder, Copying!AllParts, Copying!PartsUpTo, FirstParts
    <3>5. UNCHANGED Lo  BY <3>1 DEF GivenUp
    <3>6. Copying!Finish(w.run)  BY <3>1, <3>2, <3>3, <3>4, <3>5 DEF Copying!Finish
    <3> QED BY <3>2, <3>6 DEF Copying!Next
  <2>10. CASE RecordError
    <3>1. UNCHANGED <<flags, sent, got, missed, cut, overtaken>> /\ w.pc = "error"
      BY <2>10 DEF RecordError, lossVars
    <3>2. w.run \in Runs /\ St[w.run] = "open"  BY <3>1, <1>f
    <3>3. St' = [St EXCEPT ![w.run] = "failed"]
      <4>1. rstatus' = [rstatus EXCEPT ![w.run] = "error"]  BY <2>10 DEF RecordError, SetRun
      <4>2. St' = [St EXCEPT ![w.run] = Settling("error")]  BY <3>2, <4>1, <1>d
      <4> QED BY <4>2, StatusFacts
    <3>4. UNCHANGED Lo  BY <3>1 DEF GivenUp
    <3>5. Copying!Fail(w.run)  BY <3>1, <3>2, <3>3, <3>4 DEF Copying!Fail
    <3> QED BY <3>2, <3>5 DEF Copying!Next
  <2> QED BY <1>3, <2>1, <2>2, <2>3, <2>4, <2>5, <2>6, <2>7, <2>8, <2>9, <2>10 DEF Migrate
<1>4. CASE Reset
  <2>c. ASSUME NEW R \in SUBSET Runs, ClearRows(R), \A r \in R : rstatus[r] # "none"
        PROVE  Copying!Next
    <3> DEFINE B == {r \in R : At(r)}
    <3>1. \A r \in R : St[r] # "unlisted"  BY <2>c DEF Settling, TypeOK, RunStatus
    <3>2. St' = [r \in Runs |-> IF r \in R THEN "open" ELSE St[r]]
      BY <2>c, StatusFacts DEF ClearRows
    <3>3. Lo' = [r \in Runs |-> IF r \in R THEN {} ELSE Lo[r]]
      BY <2>c DEF ClearRows, GivenUp
    <3>4. Copying!Reset(R, B)  BY <2>c, <3>1, <3>2, <3>3 DEF ClearRows, Copying!Reset
    <3> QED BY <3>4 DEF Copying!Next
  <2>1. CASE \E r \in Runs : ResetRun(r)
    <3>1. PICK r \in Runs : ResetRun(r)  BY <2>1
    <3>2. ClearRows({r}) /\ {r} \in SUBSET Runs /\ rstatus[r] # "none"  BY <3>1 DEF ResetRun
    <3> QED BY <3>2, <2>c
  <2>2. CASE \/ \E p \in Projects, force \in BOOLEAN : ResetProject(p, force)
             \/ ResetStatus
    BY <2>2, <1>s DEF ResetProject, ResetStatus, dbVars, rowVars, lossVars
  <2>3. CASE ResetRows
    <3>1. CASE api.force
      <4>1. /\ ClearRows(Rows(api.project)) /\ Rows(api.project) \in SUBSET Runs
            /\ \A r \in Rows(api.project) : rstatus[r] # "none"
        BY <2>3, <3>1 DEF ResetRows, Rows, RunsOf
      <4> QED BY <4>1, <2>c
    <3>2. CASE ~api.force
      <4> DEFINE R == {r \in Rows(api.project) : rstatus[r] = "error"}
      <4>1. /\ UNCHANGED <<flags, sent, got, missed, cut, overtaken>>
            /\ rstatus' = [r \in Runs |-> IF r \in R THEN "pending" ELSE rstatus[r]]
        BY <2>3, <3>2 DEF ResetRows, lossVars
      <4>2. R \in SUBSET Runs /\ \A r \in R : St[r] = "failed"
        BY StatusFacts DEF Rows, RunsOf
      <4>3. St' = [r \in Runs |-> IF r \in R THEN "open" ELSE St[r]]
        BY <4>1, StatusFacts
      <4>4. UNCHANGED Lo  BY <4>1 DEF GivenUp
      <4>5. Copying!Retry(R)  BY <4>1, <4>2, <4>3, <4>4 DEF Copying!Retry
      <4> QED BY <4>2, <4>5 DEF Copying!Next
    <3> QED BY <3>1, <3>2
  <2> QED BY <1>4, <2>1, <2>2, <2>3 DEF Reset
<1>5. CASE \/ \E p \in Projects : Schedule(p)
           \/ Pause \/ Resume \/ Stop \/ Exit \/ Crash \/ Start
           \/ UNCHANGED vars
  BY <1>5, <1>s
  DEF Schedule, Pause, Resume, Stop, Exit, Crash, Start, vars, dbVars, rowVars, lossVars
<1> QED BY <1>1, <1>2, <1>3, <1>4, <1>5 DEF Next, Work

(* However often the service fails, is stopped, paused or started again, a run is
   copied as Transfer says, for every source and every bound: parts in order, each
   noted once and only when it is there or given up, history without a gap, and
   nothing after the run is done (migration_server.py:246-353, 396-430). *)
THEOREM MigrationIsTransfer == Spec => ImplementsTransfer
<1>1. TypeOK /\ OrderInv /\ CopyInv /\ CopyInv' /\ [Next]_vars => [Copying!Next]_Copying!vars
  BY CopyingStep
<1> QED BY <1>1, CopyingInit, OrderAlways, CopyAlways, TypeCorrect, PTL
        DEF Spec, ImplementsTransfer, Copying!Spec

=============================================================================
