-------------------------- MODULE LifecycleProofs --------------------------
(***************************************************************************)
(* Theorems about Lifecycle, for any sets of ids, handlers and bounds.     *)
(***************************************************************************)
EXTENDS Lifecycle, TLAPS

(* What the type of the flusher's transactions rests on. *)
LEMMA Groups ==
    /\ \A k \in Kinds : GroupTxs[k] \in Seq(SUBSET Tables)
    /\ \A txs \in ForkTxs : txs \in Seq(SUBSET Tables)
<1>1. ASSUME NEW k \in Kinds PROVE GroupTxs[k] \in Seq(SUBSET Tables)
  <2>1. k \in {"scalars", "histograms", "events", "logs"}  BY KindsAssumption
  <2>2. CASE k = "scalars"     BY <2>2 DEF GroupTxs, Tables
  <2>3. CASE k = "histograms"  BY <2>3 DEF GroupTxs, Tables
  <2>4. CASE k = "events"      BY <2>4 DEF GroupTxs, Tables
  <2>5. CASE k = "logs"        BY <2>5 DEF GroupTxs, Tables
  <2> QED BY <2>1, <2>2, <2>3, <2>4, <2>5
<1>2. ASSUME NEW txs \in ForkTxs PROVE txs \in Seq(SUBSET Tables)
  <2> DEFINE S == {"history_scalars", "run_steps"}
             H == {"history_histograms"}
             K == {"run_keys"}
  <2>1. S \in SUBSET Tables /\ H \in SUBSET Tables /\ K \in SUBSET Tables  BY DEF Tables
  <2>2. txs = <<S, K, H, K>> \/ txs = <<S, K, K>> \/ txs = <<H, K>> \/ txs = <<K>>
    BY DEF ForkTxs
  <2> HIDE DEF S, H, K
  <2>3. CASE txs = <<S, K, H, K>>  BY <2>1, <2>3
  <2>4. CASE txs = <<S, K, K>>     BY <2>1, <2>4
  <2>5. CASE txs = <<H, K>>        BY <2>1, <2>5
  <2>6. CASE txs = <<K>>           BY <2>1, <2>6
  <2> QED BY <2>2, <2>3, <2>4, <2>5, <2>6
<1> QED BY <1>1, <1>2

LEMMA Order == Len(PurgeOrder) = 8 /\ \A i \in 1..8 : PurgeOrder[i] \in Tables
BY DEF PurgeOrder, Tables

(* What the ways in which a step changes its handler's request preserve. *)
LEMMA Finishing ==
    ASSUME req \in [Handlers -> Requests], NEW h
    PROVE  [req EXCEPT ![h] = IdleReq] \in [Handlers -> Requests]
<1>1. IdleReq \in Requests  BY DEF IdleReq, Requests, ReqPCs
<1> QED BY <1>1

LEMMA Going ==
    ASSUME req \in [Handlers -> Requests], NEW h \in Handlers, NEW pc \in ReqPCs
    PROVE  [req EXCEPT ![h].pc = pc] \in [Handlers -> Requests]
<1>1. [req[h] EXCEPT !.pc = pc] \in Requests  BY DEF Requests
<1> QED BY <1>1

LEMMA GoingInProject ==
    ASSUME req \in [Handlers -> Requests], NEW h \in Handlers, NEW pc \in ReqPCs,
           NEW p \in ProjectIds
    PROVE  [req EXCEPT ![h].proj = p, ![h].pc = pc] \in [Handlers -> Requests]
<1>1. [req[h] EXCEPT !.proj = p, !.pc = pc] \in Requests  BY DEF Requests
<1> QED BY <1>1

LEMMA GoingWithRun ==
    ASSUME req \in [Handlers -> Requests], NEW h \in Handlers, NEW pc \in ReqPCs,
           NEW r \in RunIds
    PROVE  [req EXCEPT ![h].run = r, ![h].pc = pc] \in [Handlers -> Requests]
<1>1. [req[h] EXCEPT !.run = r, !.pc = pc] \in Requests  BY DEF Requests
<1> QED BY <1>1

LEMMA Beginning ==
    ASSUME req \in [Handlers -> Requests], NEW h \in Handlers, NEW pc \in ReqPCs,
           NEW r \in RunIds \cup {None}, NEW p \in ProjectIds \cup {None},
           NEW n \in Names \cup {None}
    PROVE  [req EXCEPT ![h] = [pc |-> pc, run |-> r, proj |-> p, name |-> n]]
              \in [Handlers -> Requests]
<1>1. [pc |-> pc, run |-> r, proj |-> p, name |-> n] \in Requests  BY DEF Requests
<1> QED BY <1>1

LEMMA AfterProjectType == \A pc : AfterProject(pc) \in ReqPCs
BY DEF AfterProject, ReqPCs

LEMMA TypeInit == Init => TypeOK
<1> SUFFICES ASSUME Init PROVE TypeOK  OBVIOUS
<1>1. IdleFlush \in [run : RunIds \cup {None}, txs : Seq(SUBSET Tables)]
  BY DEF IdleFlush
<1>2. IdlePurge \in [pc : PurgePCs, run : RunIds \cup {None}, table : 1..Len(PurgeOrder),
                     proj : ProjectIds \cup {None}]
  BY Order DEF IdlePurge, PurgePCs
<1>3. IdleReq \in Requests
  BY DEF IdleReq, Requests, ReqPCs
<1> QED BY <1>1, <1>2, <1>3, LimitsAssumption DEF Init, TypeOK, States

LEMMA TypeStep == TypeOK /\ [Next]_vars => TypeOK'
<1> SUFFICES ASSUME TypeOK, [Next]_vars PROVE TypeOK'  OBVIOUS
<1> USE DEF TypeOK
<1>0. IdleReq \in Requests /\ IdleFlush \in [run : RunIds \cup {None}, txs : Seq(SUBSET Tables)]
      /\ IdlePurge \in [pc : PurgePCs, run : RunIds \cup {None}, table : 1..Len(PurgeOrder),
                        proj : ProjectIds \cup {None}]
  BY Order DEF IdleReq, Requests, ReqPCs, IdleFlush, IdlePurge, PurgePCs
<1>1. ASSUME NEW h \in Handlers, Request(h) PROVE TypeOK'
  <2> DEFINE Typed == req' \in [Handlers -> Requests]
  <2>0. ASSUME Typed, UNCHANGED <<db, fl, purge, creates, writes>> PROVE TypeOK'
    BY <2>0 DEF db
  <2>1. ASSUME NEW r \in RunIds, NEW n \in Names, BeginUpsert(h, r, n) PROVE TypeOK'
    <3>1. Typed  BY <2>1, Beginning DEF BeginUpsert, ReqPCs
    <3> QED BY <2>1, <3>1, <2>0 DEF BeginUpsert
  <2>2. ASSUME NEW r \in RunIds, NEW u \in Uuids, BeginFork(h, r, u) PROVE TypeOK'
    <3>1. u \in RunIds /\ rproj[r] \in ProjectIds \cup {None}  BY DEF RunIds
    <3>2. Typed  BY <2>2, <3>1, Beginning DEF BeginFork, ReqPCs
    <3> QED BY <2>2, <3>2, <2>0 DEF BeginFork
  <2>3. ASSUME NEW n \in Names, BeginUpload(h, n) PROVE TypeOK'
    <3>1. Typed  BY <2>3, Beginning DEF BeginUpload, ReqPCs
    <3> QED BY <2>3, <3>1, <2>0 DEF BeginUpload
  <2>4. CASE LookupLive(h)
    <3>1. Typed  BY <2>4, Finishing DEF LookupLive, Finish
    <3> QED BY <2>4, <3>1, <2>0 DEF LookupLive
  <2>5. CASE LookupNone(h)
    <3>1. (IF req[h].run \in ClientIds THEN "project2" ELSE "project") \in ReqPCs
      BY DEF ReqPCs
    <3>2. Typed  BY <2>5, <3>1, Going DEF LookupNone, Goto
    <3> QED BY <2>5, <3>2, <2>0 DEF LookupNone
  <2>6. CASE FindProject(h)
    <3>1. PICK p \in ProjectIds :
             req' = [req EXCEPT ![h].proj = p, ![h].pc = AfterProject(req[h].pc)]
      BY <2>6 DEF FindProject
    <3>2. Typed  BY <3>1, AfterProjectType, GoingInProject
    <3> QED BY <2>6, <3>2, <2>0 DEF FindProject
  <2>7. CASE FindNoProject(h)
    <3>1. (CASE req[h].pc = "project"  -> "addProject"
             [] req[h].pc = "project2" -> "addProject2"
             [] OTHER                  -> "addProject3") \in ReqPCs
      BY DEF ReqPCs
    <3>2. Typed  BY <2>7, <3>1, Going DEF FindNoProject, Goto
    <3> QED BY <2>7, <3>2, <2>0 DEF FindNoProject
  <2>8. ASSUME NEW p \in ProjectIds, AddProject(h, p) PROVE TypeOK'
    <3>1. req' = [req EXCEPT ![h].proj = p, ![h].pc = AfterProject(req[h].pc)]
      BY <2>8 DEF AddProject
    <3>2. Typed  BY <3>1, AfterProjectType, GoingInProject
    <3>3. req[h].name \in Names \cup {None}  BY DEF Requests
    <3>4. pstate' \in [ProjectIds -> States] /\ pname' \in [ProjectIds -> Names \cup {None}]
      BY <2>8, <3>3 DEF AddProject, States
    <3> QED BY <2>8, <3>2, <3>4 DEF AddProject
  <2>9. CASE ByName(h)
    <3>1. ASSUME Finish(h) PROVE Typed  BY <3>1, Finishing DEF Finish
    <3>2. ASSUME Goto(h, "project2") PROVE Typed  BY <3>2, Going DEF Goto, ReqPCs
    <3>3. Typed  BY <2>9, <3>1, <3>2 DEF ByName
    <3> QED BY <2>9, <3>3, <2>0 DEF ByName
  <2>10. CASE InsertRun(h)
    <3>0. req[h].run \in RunIds \cup {None} /\ req[h].proj \in ProjectIds \cup {None}
      BY DEF Requests
    <3>1. rstate' \in [RunIds -> States] /\ rproj' \in [RunIds -> ProjectIds \cup {None}]
      BY <2>10, <3>0 DEF InsertRun, States
    <3>2. Typed  BY <2>10, Finishing DEF InsertRun, Finish
    <3>3. creates' \in 0..MaxCreates  BY <2>10, LimitsAssumption DEF InsertRun
    <3> QED BY <2>10, <3>1, <3>2, <3>3 DEF InsertRun
  <2>11. CASE FindRun(h)
    <3>1. CASE Finish(h)
      <4>1. Typed  BY <3>1, Finishing DEF Finish
      <4> QED BY <2>11, <4>1, <2>0 DEF FindRun
    <3>2. CASE ~Finish(h)
      <4>1. PICK r \in RunIds : req' = [req EXCEPT ![h].run = r, ![h].pc = "upload"]
        BY <2>11, <3>2 DEF FindRun
      <4>2. Typed  BY <4>1, GoingWithRun DEF ReqPCs
      <4> QED BY <2>11, <4>2, <2>0 DEF FindRun
    <3> QED BY <3>1, <3>2
  <2>12. ASSUME NEW t \in Tables, Upload(h, t) PROVE TypeOK'
    <3>1. rows' \in [RunIds -> [Tables -> Nat]]
      <4>1. rows' = [rows EXCEPT ![req[h].run][t] = @ + 1]  BY <2>12 DEF Upload
      <4>2. CASE req[h].run \in RunIds  BY <4>1, <4>2
      <4>3. CASE req[h].run \notin RunIds  BY <4>1, <4>3
      <4> QED BY <4>2, <4>3
    <3>2. writes' \in 0..MaxWrites  BY <2>12, LimitsAssumption DEF Upload
    <3> QED BY <2>12, <3>1, <3>2 DEF Upload
  <2>13. CASE UploadEnds(h)
    <3>1. Typed  BY <2>13, Finishing DEF UploadEnds, Finish
    <3> QED BY <2>13, <3>1, <2>0 DEF UploadEnds
  <2>14. CASE StatementFails(h)
    <3>1. ASSUME Finish(h) PROVE Typed  BY <3>1, Finishing DEF Finish
    <3>2. ASSUME Goto(h, "project2") PROVE Typed  BY <3>2, Going DEF Goto, ReqPCs
    <3>3. Typed  BY <2>14, <3>1, <3>2 DEF StatementFails
    <3> QED BY <2>14, <3>3, <2>0 DEF StatementFails
  <2> QED BY <1>1, <2>1, <2>2, <2>3, <2>4, <2>5, <2>6, <2>7, <2>8, <2>9, <2>10,
             <2>11, <2>12, <2>13, <2>14 DEF Request
<1>2. CASE Deletion
  <2>1. ASSUME NEW r \in RunIds, DeleteRun(r) PROVE TypeOK'
    BY <2>1 DEF DeleteRun, States
  <2>2. ASSUME NEW p \in ProjectIds, DeleteProject(p) PROVE TypeOK'
    BY <2>2 DEF DeleteProject, States
  <2> QED BY <1>2, <2>1, <2>2 DEF Deletion
<1>3. CASE Flusher
  <2>1. ASSUME NEW r \in RunIds, NEW k \in Kinds, FlushActive(r, k) \/ FlushUnchecked(r, k)
        PROVE TypeOK'
    BY <2>1, Groups, LimitsAssumption DEF FlushActive, FlushUnchecked, db
  <2>2. ASSUME NEW r \in RunIds, FlushFork(r) PROVE TypeOK'
    BY <2>2, Groups, LimitsAssumption DEF FlushFork, db
  <2>3. CASE FlushTx
    <3>1. rows' \in [RunIds -> [Tables -> Nat]]
      <4> DEFINE T == Head(fl.txs)
      <4>1. rows' = [rows EXCEPT ![fl.run] =
                       [t \in Tables |-> @[t] + IF t \in T THEN 1 ELSE 0]]
        BY <2>3 DEF FlushTx
      <4> HIDE DEF T
      <4>2. CASE fl.run \in RunIds
        <5>1. [t \in Tables |-> rows[fl.run][t] + IF t \in T THEN 1 ELSE 0] \in [Tables -> Nat]
          BY <4>2
        <5> QED BY <4>1, <4>2, <5>1
      <4>3. CASE fl.run \notin RunIds  BY <4>1, <4>3
      <4> QED BY <4>2, <4>3
    <3>2. [fl EXCEPT !.txs = Tail(fl.txs)] \in [run : RunIds \cup {None},
                                                  txs : Seq(SUBSET Tables)]
      <4>1. fl.txs \in Seq(SUBSET Tables) /\ fl.txs # << >>  BY <2>3 DEF FlushTx
      <4>2. Tail(fl.txs) \in Seq(SUBSET Tables)  BY <4>1
      <4> QED BY <4>2
    <3>3. fl' \in [run : RunIds \cup {None}, txs : Seq(SUBSET Tables)]
      BY <2>3, <1>0, <3>2 DEF FlushTx
    <3> QED BY <2>3, <3>1, <3>3 DEF FlushTx
  <2>4. CASE FlushFails  BY <2>4, <1>0 DEF FlushFails, db
  <2> QED BY <1>3, <2>1, <2>2, <2>3, <2>4 DEF Flusher
<1>4. CASE Cleanup
  <2>1. ASSUME NEW r \in RunIds, PickRun(r) PROVE TypeOK'
    <3>1. [purge EXCEPT !.pc = "batch", !.run = r, !.table = 1]
            \in [pc : PurgePCs, run : RunIds \cup {None}, table : 1..Len(PurgeOrder),
                 proj : ProjectIds \cup {None}]
      <4>1. "batch" \in PurgePCs /\ 1 \in 1..Len(PurgeOrder)  BY Order DEF PurgePCs
      <4> HIDE DEF TypeOK
      <4>2. purge \in [pc : PurgePCs, run : RunIds \cup {None}, table : 1..Len(PurgeOrder),
                       proj : ProjectIds \cup {None}]
        BY DEF TypeOK
      <4> QED BY <4>1, <4>2
    <3> QED BY <2>1, <3>1 DEF PickRun, db
  <2>2. CASE PickNoRun  BY <2>2 DEF PickNoRun, PurgePCs, db
  <2>3. CASE DeleteBatch
    <3>1. rows' \in [RunIds -> [Tables -> Nat]]
      <4> DEFINE r == purge.run
                 t == PurgeOrder[purge.table]
      <4>1. rows[r][t] > 0 /\ rows' = [rows EXCEPT ![r][t] = @ - 1]
        BY <2>3 DEF DeleteBatch
      <4>2. t \in Tables  BY Order
      <4> HIDE DEF r, t
      <4>3. CASE r \in RunIds  BY <4>1, <4>2, <4>3
      <4>4. CASE r \notin RunIds  BY <4>1, <4>2, <4>4
      <4> QED BY <4>3, <4>4
    <3> QED BY <2>3, <3>1, <1>0 DEF DeleteBatch
  <2>4. CASE BatchEmpty
    <3>1. purge' \in [pc : PurgePCs, run : RunIds \cup {None}, table : 1..Len(PurgeOrder),
                      proj : ProjectIds \cup {None}]
      <4>1. CASE purge.table = Len(PurgeOrder)  BY <2>4, <4>1 DEF BatchEmpty, PurgePCs
      <4>2. CASE purge.table # Len(PurgeOrder)
        <5>1. purge.table + 1 \in 1..Len(PurgeOrder)  BY <4>2, Order
        <5> QED BY <2>4, <4>2, <5>1 DEF BatchEmpty
      <4> QED BY <4>1, <4>2
    <3> QED BY <2>4, <3>1 DEF BatchEmpty, db
  <2>5. CASE DeleteRunRow  BY <2>5, <1>0 DEF DeleteRunRow, States
  <2>6. ASSUME NEW p \in ProjectIds, PickProject(p) PROVE TypeOK'
    BY <2>6 DEF PickProject, PurgePCs, db
  <2>7. CASE PickNoProject  BY <2>7, <1>0 DEF PickNoProject, db
  <2>8. CASE DeleteProjectRow  BY <2>8, <1>0 DEF DeleteProjectRow, States
  <2> QED BY <1>4, <2>1, <2>2, <2>3, <2>4, <2>5, <2>6, <2>7, <2>8 DEF Cleanup
<1>5. CASE UNCHANGED vars  BY <1>5 DEF vars, db
<1> QED BY <1>1, <1>2, <1>3, <1>4, <1>5 DEF Next

(* The type invariant of projects, runs, requests, flusher and cleanup. *)
THEOREM LifecycleTypes == Spec => []TypeOK
BY TypeInit, TypeStep, PTL DEF Spec

-----------------------------------------------------------------------------
(* No orphans.  What a request carries when it reaches a statement that uses
   it: an INSERT INTO runs always names a project, found, added or inherited
   from the parent of a fork. *)
RequestInv ==
    \A h \in Handlers :
        /\ req[h].pc \notin {"idle", "project3", "addProject3", "findRun"}
              => req[h].run \in RunIds
        /\ req[h].pc = "insertRun" => req[h].proj \in ProjectIds

LEMMA RequestStep == TypeOK /\ NoOrphans /\ RequestInv /\ [Next]_vars => RequestInv'
<1> SUFFICES ASSUME TypeOK, NoOrphans, RequestInv, [Next]_vars PROVE RequestInv'
  OBVIOUS
<1> DEFINE Fits(q) == /\ q.pc \notin {"idle", "project3", "addProject3", "findRun"}
                            => q.run \in RunIds
                      /\ q.pc = "insertRun" => q.proj \in ProjectIds
<1>0. req \in [Handlers -> Requests] /\ \A h \in Handlers : Fits(req[h])
  BY DEF TypeOK, RequestInv
<1>1. ASSUME NEW h \in Handlers, NEW q, Fits(q), req' = [req EXCEPT ![h] = q]
      PROVE  RequestInv'
  BY <1>0, <1>1 DEF RequestInv
<1>2. ASSUME NEW h \in Handlers, Finish(h) PROVE RequestInv'
  BY <1>1, <1>2 DEF Finish, IdleReq
<1>3. ASSUME NEW h \in Handlers, Request(h) PROVE RequestInv'
  <2> DEFINE q == req[h]
  <2>0. q \in Requests /\ Fits(q)  BY <1>0
  <2>1. ASSUME NEW r \in RunIds, NEW n \in Names, BeginUpsert(h, r, n) PROVE RequestInv'
    BY <2>1, <1>1 DEF BeginUpsert
  <2>2. ASSUME NEW r \in RunIds, NEW u \in Uuids, BeginFork(h, r, u) PROVE RequestInv'
    <3>1. u \in RunIds /\ rproj[r] \in ProjectIds
      BY <2>2 DEF RunIds, NoOrphans, BeginFork, HasRow
    <3> QED BY <2>2, <3>1, <1>1 DEF BeginFork
  <2>3. ASSUME NEW n \in Names, BeginUpload(h, n) PROVE RequestInv'
    BY <2>3, <1>1 DEF BeginUpload
  <2>4. CASE LookupLive(h)  BY <2>4, <1>2 DEF LookupLive
  <2>5. CASE LookupNone(h)
    <3>1. Fits([q EXCEPT !.pc = IF q.run \in ClientIds THEN "project2" ELSE "project"])
      BY <2>0, <2>5 DEF LookupNone, Requests
    <3> QED BY <2>5, <3>1, <1>1, <1>0 DEF LookupNone, Goto
  <2>6. CASE FindProject(h)
    <3>1. PICK p \in ProjectIds :
             req' = [req EXCEPT ![h] = [q EXCEPT !.proj = p, !.pc = AfterProject(q.pc)]]
      BY <2>6, <1>0 DEF FindProject
    <3>2. Fits([q EXCEPT !.proj = p, !.pc = AfterProject(q.pc)])
      BY <2>0, <2>6 DEF FindProject, Requests, AfterProject
    <3> QED BY <3>1, <3>2, <1>1
  <2>7. CASE FindNoProject(h)
    <3>1. Fits([q EXCEPT !.pc = CASE q.pc = "project"  -> "addProject"
                                  [] q.pc = "project2" -> "addProject2"
                                  [] OTHER             -> "addProject3"])
      BY <2>0, <2>7 DEF FindNoProject, Requests
    <3> QED BY <2>7, <3>1, <1>1, <1>0 DEF FindNoProject, Goto
  <2>8. ASSUME NEW p \in ProjectIds, AddProject(h, p) PROVE RequestInv'
    <3>1. req' = [req EXCEPT ![h] = [q EXCEPT !.proj = p, !.pc = AfterProject(q.pc)]]
      BY <2>8, <1>0 DEF AddProject
    <3>2. Fits([q EXCEPT !.proj = p, !.pc = AfterProject(q.pc)])
      BY <2>0, <2>8 DEF AddProject, Requests, AfterProject
    <3> QED BY <3>1, <3>2, <1>1
  <2>9. ASSUME q.pc \in {"project", "addProject", "byName"}, Goto(h, "project2")
        PROVE  RequestInv'
    <3>1. Fits([q EXCEPT !.pc = "project2"])  BY <2>0, <2>9 DEF Requests
    <3> QED BY <2>9, <3>1, <1>1, <1>0 DEF Goto
  <2>10. CASE ByName(h)  BY <2>10, <2>9, <1>2 DEF ByName
  <2>11. CASE InsertRun(h)  BY <2>11, <1>2 DEF InsertRun
  <2>12. CASE FindRun(h)
    <3>1. CASE Finish(h)  BY <3>1, <1>2
    <3>2. CASE ~Finish(h)
      <4>1. PICK r \in RunIds : req' = [req EXCEPT ![h] = [q EXCEPT !.run = r, !.pc = "upload"]]
        BY <2>12, <3>2, <1>0 DEF FindRun
      <4>2. Fits([q EXCEPT !.run = r, !.pc = "upload"])  BY <2>0 DEF Requests
      <4> QED BY <4>1, <4>2, <1>1
    <3> QED BY <3>1, <3>2
  <2>13. ASSUME NEW t \in Tables, Upload(h, t) PROVE RequestInv'
    BY <2>13 DEF Upload, RequestInv
  <2>14. CASE UploadEnds(h)  BY <2>14, <1>2 DEF UploadEnds
  <2>15. CASE StatementFails(h)  BY <2>15, <2>9, <1>2 DEF StatementFails
  <2> QED BY <1>3, <2>1, <2>2, <2>3, <2>4, <2>5, <2>6, <2>7, <2>8, <2>10, <2>11,
             <2>12, <2>13, <2>14, <2>15 DEF Request
<1>4. CASE Deletion \/ Flusher \/ Cleanup \/ UNCHANGED vars
  <2>1. UNCHANGED req
    BY <1>4 DEF Deletion, Flusher, Cleanup, vars, db, DeleteRun, DeleteProject,
       FlushActive, FlushUnchecked, FlushFork, FlushTx, FlushFails, PickRun, PickNoRun,
       DeleteBatch, BatchEmpty, DeleteRunRow, PickProject, PickNoProject, DeleteProjectRow
  <2> QED BY <2>1 DEF RequestInv
<1> QED BY <1>3, <1>4 DEF Next

(* The steps that touch neither runs, projects nor data. *)
LEMMA OrphansUnmoved == NoOrphans /\ UNCHANGED db => NoOrphans'
BY DEF NoOrphans, NoData, db

LEMMA OrphansInit == Init => NoOrphans /\ RequestInv
BY DEF Init, NoOrphans, NoData, HasRow, RequestInv, IdleReq

LEMMA OrphansStep == TypeOK /\ RequestInv /\ NoOrphans /\ [Next]_vars => NoOrphans'
<1> SUFFICES ASSUME TypeOK, RequestInv, NoOrphans, [Next]_vars PROVE NoOrphans'
  OBVIOUS
<1>1. ASSUME NEW h \in Handlers, Request(h) PROVE NoOrphans'
  <2>1. ASSUME NEW p \in ProjectIds, AddProject(h, p) PROVE NoOrphans'
    <3>1. \A o \in ProjectIds : HasRow(pstate[o]) => HasRow(pstate'[o])
      BY <2>1 DEF AddProject, TypeOK, HasRow
    <3> QED BY <2>1, <3>1 DEF AddProject, NoOrphans, NoData
  <2>2. CASE InsertRun(h)
    <3> DEFINE r == req[h].run
               p == req[h].proj
    <3>1. r \in RunIds /\ p \in ProjectIds
      BY <2>2 DEF InsertRun, RequestInv
    <3>2. /\ rstate' = [rstate EXCEPT ![r] = "live"]
          /\ rproj' = [rproj EXCEPT ![r] = p]
          /\ HasRow(pstate[p])
          /\ UNCHANGED <<pstate, rows>>
      BY <2>2 DEF InsertRun, ForeignKey
    <3> HIDE DEF r, p
    <3>3. /\ rproj'[r] = p
          /\ \A s \in RunIds \ {r} : rstate'[s] = rstate[s] /\ rproj'[s] = rproj[s]
          /\ HasRow(rstate'[r])
      BY <3>1, <3>2 DEF TypeOK, HasRow
    <3> QED BY <3>1, <3>2, <3>3 DEF NoOrphans, NoData
  <2>3. ASSUME NEW t \in Tables, Upload(h, t) PROVE NoOrphans'
    <3> DEFINE r == req[h].run
    <3>1. /\ HasRow(rstate[r])
          /\ rows' = [rows EXCEPT ![r][t] = @ + 1]
          /\ UNCHANGED <<pstate, rstate, rproj>>
      BY <2>3 DEF Upload, ForeignKey
    <3>2. \A s \in RunIds : s # r => rows'[s] = rows[s]
      BY <3>1 DEF TypeOK
    <3> QED BY <3>1, <3>2 DEF NoOrphans, NoData
  <2>4. ASSUME UNCHANGED db PROVE NoOrphans'
    BY <2>4, OrphansUnmoved
  <2> QED
    BY <1>1, <2>1, <2>2, <2>3, <2>4
    DEF Request, BeginUpsert, BeginFork, BeginUpload, LookupLive, LookupNone, FindProject,
        FindNoProject, ByName, FindRun, UploadEnds, StatementFails
<1>2. ASSUME NEW r \in RunIds, DeleteRun(r) PROVE NoOrphans'
  <2>1. \A s \in RunIds : HasRow(rstate'[s]) <=> HasRow(rstate[s])
    BY <1>2 DEF DeleteRun, TypeOK, HasRow
  <2> QED BY <1>2, <2>1 DEF DeleteRun, NoOrphans, NoData
<1>3. ASSUME NEW p \in ProjectIds, DeleteProject(p) PROVE NoOrphans'
  <2>1. \A s \in RunIds : HasRow(rstate'[s]) <=> HasRow(rstate[s])
    BY <1>3 DEF DeleteProject, LiveRunOf, HasRow
  <2>2. \A o \in ProjectIds : HasRow(pstate'[o]) <=> HasRow(pstate[o])
    BY <1>3 DEF DeleteProject, TypeOK, HasRow
  <2> QED BY <1>3, <2>1, <2>2 DEF DeleteProject, NoOrphans, NoData
<1>4. CASE Flusher
  <2>1. CASE FlushTx
    <3> DEFINE r == fl.run
    <3>1. /\ HasRow(rstate[r])
          /\ \A s \in RunIds : s # r => rows'[s] = rows[s]
          /\ UNCHANGED <<pstate, rstate, rproj>>
      BY <2>1 DEF FlushTx, ForeignKey, TypeOK
    <3> QED BY <3>1 DEF NoOrphans, NoData
  <2> QED
    BY <1>4, <2>1, OrphansUnmoved DEF Flusher, FlushActive, FlushUnchecked, FlushFork, FlushFails
<1>5. CASE Cleanup
  <2>1. CASE DeleteBatch
    <3> DEFINE r == purge.run
               t == PurgeOrder[purge.table]
    <3>1. /\ rows[r][t] > 0
          /\ rows' = [rows EXCEPT ![r][t] = @ - 1]
          /\ UNCHANGED <<pstate, rstate, rproj>>
      BY <2>1 DEF DeleteBatch
    <3>2. t \in Tables  BY Order DEF TypeOK
    <3> HIDE DEF r, t
    <3>3. \A s \in RunIds : ~HasRow(rstate[s]) => s # r
      BY <3>1, <3>2 DEF NoOrphans, NoData
    <3>4. \A s \in RunIds : s # r => rows'[s] = rows[s]
      BY <3>1 DEF TypeOK
    <3> QED BY <3>1, <3>3, <3>4 DEF NoOrphans, NoData
  <2>2. CASE DeleteRunRow
    <3> DEFINE r == purge.run
    <3>1. /\ UNCHANGED <<pstate, rproj, rows>>
          /\ rstate' = IF NoData(r) THEN [rstate EXCEPT ![r] = "purged"] ELSE rstate
      BY <2>2 DEF DeleteRunRow, ForeignKey
    <3> HIDE DEF r
    <3>2. \A s \in RunIds : \/ rstate'[s] = rstate[s]
                            \/ ~HasRow(rstate'[s]) /\ NoData(s)
      BY <3>1 DEF TypeOK, HasRow
    <3> QED BY <3>1, <3>2 DEF NoOrphans, NoData
  <2>3. CASE DeleteProjectRow
    <3> DEFINE p == purge.proj
    <3>1. /\ UNCHANGED <<rstate, rproj, rows>>
          /\ pstate' = IF NoRuns(p) THEN [pstate EXCEPT ![p] = "purged"] ELSE pstate
      BY <2>3 DEF DeleteProjectRow, ForeignKey
    <3> HIDE DEF p
    <3>2. \A o \in ProjectIds : pstate'[o] = pstate[o] \/ NoRuns(o)
      BY <3>1 DEF TypeOK
    <3> QED BY <3>1, <3>2 DEF NoOrphans, NoData, NoRuns
  <2> QED
    BY <1>5, <2>1, <2>2, <2>3, OrphansUnmoved
    DEF Cleanup, PickRun, PickNoRun, BatchEmpty, PickProject, PickNoProject
<1>6. CASE UNCHANGED vars
  BY <1>6, OrphansUnmoved DEF vars
<1> QED BY <1>1, <1>2, <1>3, <1>4, <1>5, <1>6 DEF Next, Deletion

LEMMA OrphansHold == Spec => [](RequestInv /\ NoOrphans)
BY TypeInit, TypeStep, OrphansInit, OrphansStep, RequestStep, PTL DEF Spec

(* Wherever a purge, a late group, an upload, a deletion and the creation of a
   run meet, no row is left whose run or project is gone. *)
THEOREM NothingOrphaned == Spec => []NoOrphans
BY OrphansHold, PTL

-----------------------------------------------------------------------------
(* The promise of RunRegistry.  A purge that has chosen a run keeps working on
   a run that is still soft-deleted: no handler brings its row back. *)
PurgeInv == purge.pc \in {"batch", "row"} =>
                purge.run \in RunIds /\ rstate[purge.run] = "deleted"

LEMMA PurgeStep == TypeOK /\ RequestInv /\ PurgeInv /\ [Next]_vars => PurgeInv'
<1> SUFFICES ASSUME TypeOK, RequestInv, PurgeInv, [Next]_vars PROVE PurgeInv'
  OBVIOUS
<1>0. purge \in [pc : PurgePCs, run : RunIds \cup {None}, table : 1..Len(PurgeOrder),
                 proj : ProjectIds \cup {None}]
  BY DEF TypeOK
<1>1. ASSUME UNCHANGED purge,
             \A r \in RunIds : rstate[r] = "deleted" => rstate'[r] = "deleted"
      PROVE  PurgeInv'
  BY <1>1 DEF PurgeInv
<1>2. ASSUME NEW h \in Handlers, Request(h) PROVE PurgeInv'
  <2>1. CASE InsertRun(h)
    <3>1. \A r \in RunIds : rstate[r] = "deleted" => rstate'[r] = "deleted"
      BY <2>1 DEF InsertRun, TypeOK, HasRow
    <3> QED BY <2>1, <3>1, <1>1 DEF InsertRun
  <2> QED
    BY <1>2, <2>1, <1>1
    DEF Request, BeginUpsert, BeginFork, BeginUpload, LookupLive, LookupNone, FindProject,
        FindNoProject, AddProject, ByName, FindRun, Upload, UploadEnds, StatementFails, db
<1>3. CASE Deletion
  <2>1. \A r \in RunIds : rstate[r] = "deleted" => rstate'[r] = "deleted"
    BY <1>3 DEF Deletion, DeleteRun, DeleteProject, TypeOK
  <2> QED BY <1>3, <2>1, <1>1 DEF Deletion, DeleteRun, DeleteProject
<1>4. CASE Flusher
  BY <1>4, <1>1 DEF Flusher, FlushActive, FlushUnchecked, FlushFork, FlushTx, FlushFails, db
<1>5. CASE Cleanup
  <2>1. ASSUME NEW r \in RunIds, PickRun(r) PROVE PurgeInv'
    <3>1. purge'.run = r  BY <2>1, <1>0 DEF PickRun
    <3> QED BY <2>1, <3>1 DEF PickRun, PurgeInv, db
  <2>2. CASE BatchEmpty
    <3>1. purge'.run = purge.run /\ purge.pc = "batch"  BY <2>2, <1>0 DEF BatchEmpty
    <3> QED BY <2>2, <3>1 DEF BatchEmpty, PurgeInv, db
  <2>3. CASE PickNoRun \/ (\E p \in ProjectIds : PickProject(p))
    <3>1. purge'.pc \in {"projects", "project"}
      BY <2>3, <1>0 DEF PickNoRun, PickProject
    <3> QED BY <3>1 DEF PurgeInv
  <2>4. CASE DeleteBatch \/ DeleteRunRow \/ PickNoProject \/ DeleteProjectRow
    <3>1. purge'.pc = "idle"
      BY <2>4 DEF DeleteBatch, DeleteRunRow, PickNoProject, DeleteProjectRow, IdlePurge
    <3> QED BY <3>1 DEF PurgeInv
  <2> QED BY <1>5, <2>1, <2>2, <2>3, <2>4 DEF Cleanup
<1>6. CASE UNCHANGED vars  BY <1>6, <1>1 DEF vars, db
<1> QED BY <1>2, <1>3, <1>4, <1>5, <1>6 DEF Next

LEMMA RegistryInit == Init => Registry!Init
BY DEF Init, Registry!Init, Registry!Empty

LEMMA RegistryActions ==
    /\ \A x \in RunIds : Registry!Create(x) \/ Registry!Forget(x) => Registry!Next
    /\ \A X \in SUBSET RunIds : Registry!Hide(X) => Registry!Next
BY DEF Registry!Next

(* What a user sees depends on the state and the rows of the runs alone. *)
LEMMA RegistryUnmoved == UNCHANGED <<rstate, rows>> => UNCHANGED Registry!regVars
BY DEF Registry!regVars

(* A write to one run: seen if the run is live, invisible if it is deleted. *)
LEMMA RegistryGrows ==
    ASSUME TypeOK, NEW r \in RunIds, NEW f \in [Tables -> Nat],
           \A t \in Tables : rows[r][t] <= f[t],
           rows' = [rows EXCEPT ![r] = f], UNCHANGED rstate
    PROVE  [Registry!Next]_Registry!regVars
<1>1. CASE rstate[r] = "live"
  <2>1. Registry!Grow(r)
    BY <1>1 DEF Registry!Grow, TypeOK
  <2> QED BY <2>1 DEF Registry!Next
<1>2. CASE rstate[r] # "live"
  <2>1. \A s \in RunIds : rstate[s] = "live" => rows'[s] = rows[s]
    BY <1>2 DEF TypeOK
  <2> QED BY <2>1 DEF Registry!regVars
<1> QED BY <1>1, <1>2

LEMMA RegistryStep ==
    ASSUME TypeOK, RequestInv, NoOrphans, PurgeInv, [Next]_vars
    PROVE  [Registry!Next]_Registry!regVars
<1> DEFINE Goal == [Registry!Next]_Registry!regVars
<1>0. ASSUME UNCHANGED <<rstate, rows>> PROVE Goal
  BY <1>0, RegistryUnmoved
<1>1. ASSUME NEW h \in Handlers, Request(h) PROVE Goal
  <2>1. CASE InsertRun(h)
    <3>1. PICK r \in RunIds : /\ ~HasRow(rstate[r])
                              /\ rstate' = [rstate EXCEPT ![r] = "live"]
                              /\ UNCHANGED rows
      BY <2>1 DEF InsertRun, RequestInv
    <3>2. rows[r] = [t \in Tables |-> 0]
      BY <3>1 DEF NoOrphans, NoData, TypeOK
    <3>3. Registry!Create(r)
      BY <3>1, <3>2 DEF Registry!Create, HasRow, TypeOK, States
    <3> QED BY <3>1, <3>3, RegistryActions
  <2>2. ASSUME NEW t \in Tables, Upload(h, t) PROVE Goal
    <3> DEFINE r == req[h].run
               f == [rows[r] EXCEPT ![t] = @ + 1]
    <3>1. r \in RunIds /\ rows' = [rows EXCEPT ![r] = f] /\ UNCHANGED rstate
      BY <2>2 DEF Upload, RequestInv
    <3>2. rows[r] \in [Tables -> Nat]
      BY <3>1 DEF TypeOK
    <3>3. f \in [Tables -> Nat] /\ \A u \in Tables : rows[r][u] <= f[u]
      BY <3>2
    <3> HIDE DEF r, f
    <3> QED BY <3>1, <3>3, RegistryGrows
  <2> QED
    BY <1>1, <2>1, <2>2, <1>0
    DEF Request, BeginUpsert, BeginFork, BeginUpload, LookupLive, LookupNone, FindProject,
        FindNoProject, AddProject, ByName, FindRun, UploadEnds, StatementFails, db
<1>2. ASSUME NEW r \in RunIds, DeleteRun(r) PROVE Goal
  <2>1. Registry!Hide({r})
    BY <1>2 DEF DeleteRun, TypeOK, Registry!Hide, Registry!Empty
  <2> QED BY <2>1 DEF Registry!Next
<1>3. ASSUME NEW p \in ProjectIds, DeleteProject(p) PROVE Goal
  <2>1. PICK S \in SUBSET RunIds : S = {r \in RunIds : LiveRunOf(r, p)}
    OBVIOUS
  <2>2. Registry!Hide(S)
    BY <1>3, <2>1 DEF DeleteProject, LiveRunOf, TypeOK, Registry!Hide, Registry!Empty
  <2> QED BY <2>1, <2>2, RegistryActions
<1>4. CASE Flusher
  <2>1. CASE FlushTx
    <3> DEFINE r == fl.run
               T == Head(fl.txs)
               f == [t \in Tables |-> rows[r][t] + IF t \in T THEN 1 ELSE 0]
    <3>1. rows' = [rows EXCEPT ![r] = f] /\ UNCHANGED rstate
      BY <2>1 DEF FlushTx
    <3>2. CASE r \in RunIds
      <4>1. rows[r] \in [Tables -> Nat]
        BY <3>2 DEF TypeOK
      <4> HIDE DEF T, r
      <4>2. f \in [Tables -> Nat] /\ \A t \in Tables : rows[r][t] <= f[t]
        BY <4>1
      <4> HIDE DEF f
      <4> QED BY <3>1, <3>2, <4>2, RegistryGrows
    <3>3. CASE r \notin RunIds
      <4> HIDE DEF f, r
      <4> QED BY <3>1, <3>3, <1>0 DEF TypeOK
    <3> QED BY <3>2, <3>3
  <2> QED
    BY <1>4, <2>1, <1>0 DEF Flusher, FlushActive, FlushUnchecked, FlushFork, FlushFails, db
<1>5. CASE Cleanup
  <2>1. CASE DeleteBatch
    <3>1. rstate[purge.run] = "deleted" /\ UNCHANGED rstate
      BY <2>1 DEF DeleteBatch, PurgeInv
    <3>2. \A s \in RunIds : s # purge.run => rows'[s] = rows[s]
      BY <2>1 DEF DeleteBatch, TypeOK
    <3> QED BY <3>1, <3>2 DEF Registry!regVars
  <2>2. CASE DeleteRunRow
    <3>1. PICK r \in RunIds : r = purge.run /\ rstate[r] = "deleted" /\ UNCHANGED rows
      BY <2>2 DEF DeleteRunRow, PurgeInv
    <3>2. CASE rstate' = [rstate EXCEPT ![r] = "purged"]
      <4>1. Registry!Forget(r)
        BY <3>1, <3>2 DEF Registry!Forget, TypeOK
      <4> QED BY <3>1, <4>1, RegistryActions
    <3>3. CASE rstate' = rstate
      BY <3>1, <3>3, <1>0
    <3> QED BY <2>2, <3>1, <3>2, <3>3 DEF DeleteRunRow
  <2> QED
    BY <1>5, <2>1, <2>2, <1>0
    DEF Cleanup, PickRun, PickNoRun, BatchEmpty, PickProject, PickNoProject,
        DeleteProjectRow, db
<1>6. CASE UNCHANGED vars  BY <1>6, <1>0 DEF vars, db
<1> QED BY <1>1, <1>2, <1>3, <1>4, <1>5, <1>6 DEF Next, Deletion

LEMMA PurgeInit == Init => PurgeInv
BY DEF Init, PurgeInv, IdlePurge

(* For any handlers, ids and tables: what a user sees of a run starts empty,
   only grows, disappears as a whole when the run is deleted, and is not reached
   by the purge of anything else. *)
THEOREM LifecycleIsRegistry == Spec => ImplementsRegistry
<1>1. Spec => []PurgeInv
  BY TypeInit, TypeStep, OrphansHold, PurgeInit, PurgeStep, PTL DEF Spec
<1>2. TypeOK /\ RequestInv /\ NoOrphans /\ PurgeInv /\ [Next]_vars
         => [Registry!Next]_Registry!regVars
  BY RegistryStep
<1> QED
  BY <1>1, <1>2, RegistryInit, LifecycleTypes, OrphansHold, PTL
  DEF Spec, ImplementsRegistry, Registry!Spec
=============================================================================
