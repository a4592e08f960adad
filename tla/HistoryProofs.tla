--------------------------- MODULE HistoryProofs ---------------------------
(***************************************************************************)
(* Theorems about History, for every set of runs and keys, every payload,  *)
(* chunk size, fault and bound.                                            *)
(***************************************************************************)
EXTENDS History, FiniteSetTheorems, WellFoundedInduction, TLAPS

-----------------------------------------------------------------------------
(* Facts about the helpers. *)

LEMMA HasMinimum ==
    ASSUME NEW S \in SUBSET Nat, S # {}
    PROVE  \E i \in S : \A j \in S : i <= j
<1> DEFINE R == {p \in Nat \X Nat : p[1] < p[2]}
<1>1. IsWellFoundedOn(R, Nat)
    BY NatLessThanWellFounded DEF OpToRel
<1>2. \A i, j \in Nat : i < j => <<i, j>> \in R
    OBVIOUS
<1> HIDE DEF R
<1>3. PICK i \in S : \A j \in S : ~ (<<j, i>> \in R)
    BY <1>1, WFMin
<1>4. \A j \in S : ~ (j < i)
    BY <1>2, <1>3
<1> QED
    BY <1>4

(* The first of several lines is one of them. *)
LEMMA EarliestIsFirst ==
    ASSUME NEW S \in SUBSET Nat, S # {}
    PROVE  Earliest(S) \in S /\ \A j \in S : Earliest(S) <= j
BY HasMinimum DEF Earliest

LEMMA CountOfSteps ==
    ASSUME NEW S \in SUBSET Steps
    PROVE  IsFiniteSet(S) /\ Cardinality(S) \in 0..MaxStep + 1
<1>1. IsFiniteSet(Steps) /\ Cardinality(Steps) = MaxStep + 1
    BY FS_Interval, BoundsAssumption DEF Steps
<1>2. IsFiniteSet(S) /\ Cardinality(S) <= Cardinality(Steps)
    BY <1>1, FS_Subset
<1>3. Cardinality(S) \in Nat
    BY <1>2, FS_CardinalityType
<1> QED
    BY <1>1, <1>2, <1>3, BoundsAssumption

-----------------------------------------------------------------------------
(* Types. *)

CopyPCs == {"copyScalars", "copyKeys", "copyRest", "forkCount", "setForkCount"}
ForkPCs == {"forks"} \cup CopyPCs
RunPCs  == {"keys", "setCount"} \cup CopyPCs

(* Where the flusher is in a batch, and what of a fork it has still to copy. *)
FlusherInv ==
    /\ fl.pc \in RunPCs => fl.run \in Runs
    /\ fl.pc \in ForkPCs => fl.todo \subseteq ForkLines
    /\ fl.pc \in CopyPCs => /\ fl.todo # {}
                            /\ fl.run = log[ForkLine].run
                            /\ fl.left \subseteq {c \in Cells : c[1] <= log[ForkLine].step}

(* A request and a browser at work know their runs. *)
LocalsInv ==
    /\ rq.pc # "idle" => rq.run \in Runs /\ rq.parent \in Runs
    /\ view.pc # "idle" => view.run \in Runs

TypeInv == TypeOK /\ FlusherInv /\ LocalsInv

LEMMA CellsArePairs == \A c \in Cells : c[1] \in Steps /\ c[2] \in Keys
BY DEF Cells

LEMMA LineTypes ==
    ASSUME TypeOK, NEW i \in 1..Len(log)
    PROVE  /\ log[i] \in Rows \cup Forks
           /\ log[i].run \in Runs
           /\ log[i].step \in Steps
           /\ log[i].scalars \subseteq Keys
           /\ log[i].histograms \subseteq Keys
           /\ IsFork(i) => log[i].parent \in Runs /\ log[i].scalars = {} /\ log[i].histograms = {}
           /\ ~IsFork(i) => log[i].parent = None
<1>1. log[i] \in Rows \cup Forks
    BY DEF TypeOK
<1> QED
    BY <1>1, RunsAssumption DEF Rows, Forks, IsFork

LEMMA BatchLines == ASSUME TypeOK PROVE batch \subseteq 1..Len(log) /\ batch \in SUBSET Nat
BY DEF TypeOK

(* The fork the flusher works on. *)
LEMMA ForkAtHand ==
    ASSUME TypeInv, fl.pc \in ForkPCs, fl.todo # {}
    PROVE  /\ ForkLine \in fl.todo
           /\ ForkLine \in batch
           /\ ForkLine \in 1..MaxLines
           /\ ForkLine \in 1..Len(log)
           /\ IsFork(ForkLine)
           /\ Parent \in Runs
           /\ log[ForkLine].run \in Runs
           /\ log[ForkLine].step \in Steps
           /\ \A j \in fl.todo : ForkLine <= j
<1>1. fl.todo \subseteq batch /\ fl.todo \subseteq Nat
    BY BatchLines DEF TypeInv, FlusherInv, ForkLines
<1>2. ForkLine \in fl.todo /\ \A j \in fl.todo : ForkLine <= j
    BY <1>1, EarliestIsFirst DEF ForkLine
<1>3. ForkLine \in 1..Len(log) /\ ForkLine \in 1..MaxLines
    BY <1>1, <1>2, BatchLines, BoundsAssumption DEF TypeInv, TypeOK
<1>4. IsFork(ForkLine)
    BY <1>2 DEF TypeInv, FlusherInv, ForkLines
<1> QED
    BY <1>1, <1>2, <1>3, <1>4, LineTypes DEF TypeInv, Parent

FlRecords   == [pc : FlPCs, todo : SUBSET (Runs \cup 1..MaxLines), run : Runs \cup {None},
                keys : SUBSET Keys, left : SUBSET Cells, n : 0..MaxStep + 1]
RqRecords   == [pc : RqPCs, run : Runs \cup {None}, parent : Runs \cup {None}, upto : Steps]
ViewRecords == [pc : ViewPCs, run : Runs \cup {None}, count : 0..MaxStep + 1 \cup {None},
                names : SUBSET Keys, keys : SUBSET Keys, n : 0..MaxStep + 1,
                cells : SUBSET Cells, range : SUBSET Steps, broken : BOOLEAN]

LEMMA IdleTypes ==
    /\ IdleFl \in FlRecords /\ IdleFl.pc = "idle"
    /\ IdleRq \in RqRecords /\ IdleRq.pc = "idle"
    /\ IdleView \in ViewRecords /\ IdleView.pc = "idle"
BY BoundsAssumption
DEF IdleFl, IdleRq, IdleView, FlRecords, RqRecords, ViewRecords, FlPCs, RqPCs, ViewPCs, Steps

LEMMA TypeInvInit == Init => TypeInv
<1> SUFFICES ASSUME Init PROVE TypeInv
    OBVIOUS
<1>1. /\ log \in Seq(Rows \cup Forks) /\ Len(log) = 0
      /\ saved = 0 /\ pos = 0 /\ batch = {}
    BY DEF Init
<1>2. /\ points \in [Runs -> [Cells -> Positions]]
      /\ histos \in [Runs -> [Cells -> Positions]]
    BY BoundsAssumption DEF Init, Positions
<1>3. /\ fl \in FlRecords /\ rq \in RqRecords /\ view \in ViewRecords
      /\ fl.pc = "idle" /\ rq.pc = "idle" /\ view.pc = "idle"
    BY IdleTypes DEF Init
<1>4. TypeOK
    BY <1>1, <1>2, <1>3, BoundsAssumption
    DEF Init, TypeOK, Outcomes, FlRecords, RqRecords, ViewRecords
<1> QED
    BY <1>3, <1>4 DEF TypeInv, FlusherInv, LocalsInv, ForkPCs, CopyPCs, RunPCs

(* The log only grows at its end, so whoever knows a line of it knows it still. *)
LEMMA FlusherInvStays ==
    ASSUME TypeInv, UNCHANGED <<batch, fl>>,
           \A i \in 1..Len(log) : log'[i] = log[i]
    PROVE  FlusherInv'
<1>1. ForkLines' = ForkLines
    BY BatchLines DEF TypeInv, ForkLines, IsFork
<1>2. ASSUME fl.pc \in CopyPCs
      PROVE  ForkLine' = ForkLine /\ log'[ForkLine] = log[ForkLine]
    BY <1>2, ForkAtHand DEF TypeInv, FlusherInv, ForkPCs, ForkLine
<1> QED
    BY <1>1, <1>2 DEF TypeInv, FlusherInv

LEMMA AppendKeepsLines ==
    ASSUME TypeOK, NEW l \in Rows \cup Forks, log' = Append(log, l)
    PROVE  /\ log' \in Seq(Rows \cup Forks)
           /\ Len(log') = Len(log) + 1
           /\ log'[Len(log) + 1] = l
           /\ \A i \in 1..Len(log) : log'[i] = log[i]
BY DEF TypeOK

(* The counters of the model. *)
LEMMA FaultTypes == ASSUME TypeOK, NEW kind, Fault(kind) PROVE faults' \in 0..MaxFaults
<1>1. faults \in Nat /\ faults < MaxFaults /\ faults' = faults + 1 /\ MaxFaults \in Nat
    BY BoundsAssumption DEF TypeOK, Fault
<1> QED
    BY <1>1

LEMMA OpenedTypes ==
    ASSUME TypeOK, opened < MaxViews, opened' = opened + 1
    PROVE  opened' \in 0..MaxViews
<1>1. opened \in Nat /\ MaxViews \in Nat
    BY BoundsAssumption DEF TypeOK
<1> QED
    BY <1>1

LEMMA ClientKeepsTypes == ASSUME TypeInv, Client PROVE TypeInv'
<1> USE DEF logVars, dbVars, ghosts, bounds
<1>1. ASSUME NEW l \in Payloads, LogLine(l) PROVE TypeInv'
  <2>1. /\ log' \in Seq(Rows \cup Forks) /\ Len(log') = Len(log) + 1
        /\ \A i \in 1..Len(log) : log'[i] = log[i]
      BY <1>1, PayloadsAssumption, AppendKeepsLines DEF LogLine, TypeInv
  <2>2. FlusherInv'
      BY <1>1, <2>1, FlusherInvStays DEF LogLine
  <2>3. Len(log') <= MaxLines /\ saved' \in 0..Len(log') /\ pos' \in 0..Len(log')
    <3>1. Len(log) < MaxLines /\ UNCHANGED <<saved, pos>>
        BY <1>1 DEF LogLine
    <3> QED
        BY <2>1, <3>1, BoundsAssumption DEF TypeInv, TypeOK
  <2>4. batch' \subseteq 1..pos'
      BY <1>1 DEF LogLine, TypeInv, TypeOK
  <2>5. UNCHANGED <<dbVars, fl, rq, view, cache, ghosts, bounds>>
      BY <1>1 DEF LogLine
  <2>6. TypeOK'
      BY <2>1, <2>3, <2>4, <2>5 DEF TypeInv, TypeOK
  <2> QED
      BY <2>2, <2>5, <2>6 DEF TypeInv, LocalsInv
<1>2. ASSUME NEW r \in Runs, NEW parent \in Runs, NEW s \in Steps, BeginFork(r, parent, s)
      PROVE  TypeInv'
  <2>1. FlusherInv'
      BY <1>2, FlusherInvStays DEF BeginFork
  <2>2. rq' = [pc |-> "row", run |-> r, parent |-> parent, upto |-> s] /\ rq' \in RqRecords
      BY <1>2 DEF BeginFork, RqRecords, RqPCs
  <2>3. asked' \in 0..MaxForks
      BY <1>2, BoundsAssumption DEF BeginFork, TypeInv, TypeOK
  <2>4. UNCHANGED <<logVars, dbVars, fl, view, cache, ghosts, opened, faults>>
      BY <1>2 DEF BeginFork
  <2>5. TypeOK'
      BY <2>2, <2>3, <2>4 DEF TypeInv, TypeOK, RqRecords
  <2> QED
      BY <2>1, <2>2, <2>3, <2>4, <2>5 DEF TypeInv, LocalsInv, RqRecords
<1>3. CASE ForkRow
  <2>1. FlusherInv'
      BY <1>3, FlusherInvStays DEF ForkRow
  <2> QED
      BY <1>3, <2>1 DEF ForkRow, TypeInv, TypeOK, LocalsInv, RqPCs
<1>4. CASE ForkClaim
  <2>1. FlusherInv'
      BY <1>4, FlusherInvStays DEF ForkClaim
  <2>2. rq.upto + 1 \in 0..MaxStep + 1
      BY BoundsAssumption DEF TypeInv, TypeOK, Steps
  <2> QED
      BY <1>4, <2>1, <2>2 DEF ForkClaim, TypeInv, TypeOK, LocalsInv, RqPCs
<1>5. CASE ForkAppend
  <2> DEFINE l == [run |-> rq.run, step |-> rq.upto, scalars |-> {},
                   histograms |-> {}, parent |-> rq.parent]
  <2>1. l \in Forks
      BY <1>5 DEF ForkAppend, TypeInv, TypeOK, LocalsInv, Forks
  <2>2. log' = Append(log, l)
      BY <1>5 DEF ForkAppend
  <2> HIDE DEF l
  <2>3. /\ log' \in Seq(Rows \cup Forks) /\ Len(log') = Len(log) + 1
        /\ \A i \in 1..Len(log) : log'[i] = log[i]
      BY <2>1, <2>2, AppendKeepsLines DEF TypeInv
  <2>4. FlusherInv'
      BY <1>5, <2>3, FlusherInvStays DEF ForkAppend
  <2>5. rq' = IdleRq /\ Len(log) < MaxLines
        /\ UNCHANGED <<saved, pos, batch, dbVars, fl, view, cache, ghosts, bounds>>
      BY <1>5 DEF ForkAppend
  <2>6. rq' \in RqRecords /\ rq'.pc = "idle"
      BY <2>5, IdleTypes
  <2>7. /\ Len(log') <= MaxLines
        /\ saved' \in 0..Len(log') /\ pos' \in 0..Len(log')
    <3>1. saved \in 0..Len(log) /\ pos \in 0..Len(log) /\ Len(log) \in Nat /\ MaxLines \in Nat
        BY BoundsAssumption DEF TypeInv, TypeOK
    <3> QED
        BY <2>3, <2>5, <3>1
  <2>8. TypeOK'
      BY <2>3, <2>5, <2>6, <2>7 DEF TypeInv, TypeOK, RqRecords
  <2> QED
      BY <2>4, <2>5, <2>6, <2>8 DEF TypeInv, LocalsInv
<1>6. CASE ForkRefused
  <2>1. FlusherInv'
      BY <1>6, FlusherInvStays DEF ForkRefused
  <2>2. rq' \in RqRecords /\ rq'.pc = "idle"
      BY <1>6, IdleTypes DEF ForkRefused
  <2>3. hurtCount' \subseteq Runs /\ faults' \in 0..MaxFaults
    <3>1. hurtCount' \subseteq Runs
        BY <1>6 DEF ForkRefused, TypeInv, TypeOK, LocalsInv
    <3> QED
        BY <1>6, <3>1, FaultTypes DEF ForkRefused, TypeInv
  <2> QED
      BY <1>6, <2>1, <2>2, <2>3 DEF ForkRefused, TypeInv, TypeOK, LocalsInv, RqRecords
<1>7. ASSUME NEW r \in Deletable, DeleteRun(r) PROVE TypeInv'
  <2>1. FlusherInv'
      BY <1>7, FlusherInvStays DEF DeleteRun
  <2> QED
      BY <1>7, <2>1, RunsAssumption DEF DeleteRun, TypeInv, TypeOK, LocalsInv
<1> QED
    BY <1>1, <1>2, <1>3, <1>4, <1>5, <1>6, <1>7 DEF Client

(* What a step of the flusher leaves to the others. *)
LEMMA LocalsInvStays == ASSUME LocalsInv, UNCHANGED <<rq, view>> PROVE LocalsInv'
BY DEF LocalsInv

LEMMA UnlistedTypes == ASSUME NEW r \in Runs PROVE Unlisted(r) \subseteq Runs \X Keys
BY CellsArePairs DEF Unlisted, Stored

LEMMA InsertedTypes ==
    ASSUME TypeOK, NEW old \in Positions, NEW S \in SUBSET batch
    PROVE  InsertOrIgnore(old, S) \in Positions
<1>1. S # {} => Earliest(S) \in batch
    BY EarliestIsFirst, BatchLines
<1>2. batch \subseteq Positions
    BY BoundsAssumption DEF TypeOK, Positions
<1> QED
    BY <1>1, <1>2 DEF InsertOrIgnore

LEMMA BatchKeepsTypes == ASSUME TypeInv, Batch \/ SavePos PROVE TypeInv'
<1> USE DEF logVars, dbVars, ghosts, bounds
<1>1. CASE ReadLine
  <2>1. FlusherInv'
      BY <1>1 DEF ReadLine, TypeInv, FlusherInv, RunPCs, ForkPCs, CopyPCs
  <2>2. pos' \in 0..Len(log') /\ batch' \subseteq 1..pos'
    <3>1. /\ pos \in Nat /\ Len(log) \in Nat /\ pos < Len(log) /\ pos' = pos + 1 /\ log' = log
          /\ batch \subseteq 1..pos /\ batch' = batch \cup {pos + 1}
        BY <1>1 DEF ReadLine, TypeInv, TypeOK
    <3> QED
        BY <3>1
  <2> QED
      BY <1>1, <2>1, <2>2 DEF ReadLine, TypeInv, TypeOK, LocalsInv
<1>2. CASE StartFlush
  <2>1. fl' = [IdleFl EXCEPT !.pc = "scalars", !.todo = Active(ScalarRuns)]
      BY <1>2 DEF StartFlush
  <2>2. Active(ScalarRuns) \subseteq Runs
      BY BatchLines, LineTypes DEF Active, ScalarRuns, TypeInv
  <2>3. fl' \in FlRecords /\ fl'.pc = "scalars"
      BY <2>1, <2>2, IdleTypes DEF FlRecords, FlPCs
  <2>4. FlusherInv'
      BY <2>3 DEF FlusherInv, RunPCs, ForkPCs, CopyPCs
  <2> QED
      BY <1>2, <2>3, <2>4 DEF StartFlush, TypeInv, TypeOK, LocalsInv, FlRecords
<1>3. CASE SavePos
  <2>1. FlusherInv'
      BY <1>3, FlusherInvStays DEF SavePos
  <2> QED
      BY <1>3, <2>1 DEF SavePos, TypeInv, TypeOK, LocalsInv
<1> QED
    BY <1>1, <1>2, <1>3 DEF Batch

(* Before the forks, only the run at hand matters. *)
LEMMA EarlyFlusher ==
    ASSUME NEW q \in FlRecords, q.pc \notin ForkPCs, q.pc \in RunPCs => q.run \in Runs,
           fl' = q
    PROVE  FlusherInv'
BY DEF FlusherInv, ForkPCs

LEMMA GroupsKeepTypes == ASSUME TypeInv, Groups PROVE TypeInv'
<1> USE DEF logVars, dbVars, ghosts, bounds
<1> USE DEF RunPCs, ForkPCs, CopyPCs, FlPCs
<1>0. fl \in FlRecords
    BY DEF TypeInv, TypeOK, FlRecords
<1>1. ASSUME NEW r \in Runs, FlushScalars(r) PROVE TypeInv'
  <2>1. points' \in [Runs -> [Cells -> Positions]]
    <3>1. \A c \in Cells : InsertOrIgnore(points[r][c], ScalarLines(r, c)) \in Positions
      <4>1. \A c \in Cells : points[r][c] \in Positions
          BY DEF TypeInv, TypeOK
      <4>2. \A c \in Cells : ScalarLines(r, c) \subseteq batch
          BY DEF ScalarLines
      <4> QED
          BY <4>1, <4>2, InsertedTypes DEF TypeInv
    <3> QED
        BY <1>1, <3>1 DEF FlushScalars, AddScalars, TypeInv, TypeOK
  <2>2. StepsOf(r) \subseteq Steps /\ KeysOf(r) \subseteq Keys
      BY BatchLines, LineTypes DEF StepsOf, KeysOf, TypeInv
  <2>3. fl' = [fl EXCEPT !.pc = "keys", !.todo = @ \ {r}, !.run = r, !.keys = KeysOf(r)]
      BY <1>1 DEF FlushScalars
  <2>4. fl' \in FlRecords /\ fl'.pc = "keys" /\ fl'.run = r
      BY <2>2, <2>3, <1>0 DEF FlRecords
  <2>5. FlusherInv'
      BY <2>4, EarlyFlusher
  <2>6. steps' \in [Runs -> SUBSET Steps]
      BY <1>1, <2>2 DEF FlushScalars, TypeInv, TypeOK
  <2> QED
      BY <1>1, <2>1, <2>4, <2>5, <2>6 DEF FlushScalars, TypeInv, TypeOK, LocalsInv, FlRecords
<1>2. ASSUME NEW r \in Runs, FlushHistograms(r) PROVE TypeInv'
  <2>1. histos' \in [Runs -> [Cells -> Positions]]
    <3>1. \A c \in Cells : InsertOrIgnore(histos[r][c], HistogramLines(r, c)) \in Positions
      <4>1. \A c \in Cells : histos[r][c] \in Positions
          BY DEF TypeInv, TypeOK
      <4>2. \A c \in Cells : HistogramLines(r, c) \subseteq batch
          BY DEF HistogramLines
      <4> QED
          BY <4>1, <4>2, InsertedTypes DEF TypeInv
    <3> QED
        BY <1>2, <3>1 DEF FlushHistograms, TypeInv, TypeOK
  <2>2. fl' \in FlRecords /\ fl'.pc = "histograms"
      BY <1>2, <1>0 DEF FlushHistograms, FlRecords
  <2>3. FlusherInv'
      BY <2>2, EarlyFlusher
  <2> QED
      BY <1>2, <2>1, <2>2, <2>3 DEF FlushHistograms, TypeInv, TypeOK, LocalsInv, FlRecords
<1>3. ASSUME NEW r \in Runs, CountSteps(r) PROVE TypeInv'
  <2>1. Cardinality(steps[r]) \in 0..MaxStep + 1
      BY CountOfSteps DEF TypeInv, TypeOK
  <2>2. fl' \in FlRecords /\ fl'.pc = "setCount" /\ fl'.run = r
      BY <1>3, <1>0, <2>1 DEF CountSteps, FlRecords
  <2>3. FlusherInv'
      BY <2>2, EarlyFlusher
  <2> QED
      BY <1>3, <2>2, <2>3 DEF CountSteps, TypeInv, TypeOK, LocalsInv, FlRecords
<1>4. CASE FlushKeys
  <2>1. fl' \in FlRecords /\ fl'.pc = "scalars"
      BY <1>4, <1>0 DEF FlushKeys, FlRecords
  <2>2. FlusherInv'
      BY <2>1, EarlyFlusher
  <2>3. keys' \in [Runs -> SUBSET Keys]
      BY <1>4, <1>0 DEF FlushKeys, TypeInv, TypeOK, FlRecords
  <2> QED
      BY <1>4, <2>1, <2>2, <2>3 DEF FlushKeys, TypeInv, TypeOK, LocalsInv, FlRecords
<1>5. CASE ScalarsDone
  <2>1. Active(HistogramRuns) \subseteq Runs
      BY BatchLines, LineTypes DEF Active, HistogramRuns, TypeInv
  <2>2. fl' \in FlRecords /\ fl'.pc = "histograms"
      BY <1>5, <1>0, <2>1 DEF ScalarsDone, FlRecords
  <2>3. FlusherInv'
      BY <2>2, EarlyFlusher
  <2> QED
      BY <1>5, <2>2, <2>3 DEF ScalarsDone, TypeInv, TypeOK, LocalsInv, FlRecords
<1>6. CASE HistogramsDone
  <2>1. Active(CounterRuns) \subseteq Runs
      BY BatchLines, LineTypes DEF Active, CounterRuns, TypeInv
  <2>2. fl' \in FlRecords /\ fl'.pc = "counters"
      BY <1>6, <1>0, <2>1 DEF HistogramsDone, FlRecords
  <2>3. FlusherInv'
      BY <2>2, EarlyFlusher
  <2> QED
      BY <1>6, <2>2, <2>3 DEF HistogramsDone, TypeInv, TypeOK, LocalsInv, FlRecords
<1>7. CASE SetCount
  <2>1. /\ fl' = [fl EXCEPT !.pc = "counters", !.run = None, !.n = 0]
        /\ hcount' = [hcount EXCEPT ![fl.run] = fl.n]
        /\ hurtCount' = hurtCount \ {fl.run}
        /\ viewed' = viewed \ {fl.run}
        /\ UNCHANGED <<logVars, row, deleted, points, histos, steps, keys, rq, view, cache,
                       outcome, hurtKeys, bounds>>
      BY <1>7 DEF SetCount, StoreCount, NewCount
  <2>2. 0 \in 0..MaxStep + 1
      BY BoundsAssumption
  <2>3. fl' \in FlRecords /\ fl'.pc = "counters"
      BY <1>0, <2>1, <2>2 DEF FlRecords
  <2>4. FlusherInv'
      BY <2>3, EarlyFlusher
  <2>5. hcount' \in [Runs -> 0..MaxStep + 1]
      BY <2>1, <1>0 DEF TypeInv, TypeOK, FlRecords
  <2>6. hurtCount' \subseteq Runs /\ viewed' \subseteq Runs
      BY <2>1 DEF TypeInv, TypeOK
  <2>7. LocalsInv'
      BY <2>1, LocalsInvStays DEF TypeInv
  <2>8. TypeOK'
      BY <2>1, <2>3, <2>5, <2>6 DEF TypeInv, TypeOK, FlRecords
  <2> QED
      BY <2>4, <2>7, <2>8 DEF TypeInv
<1>8. CASE CountersDone
  <2>1. ForkLines \subseteq 1..MaxLines
    <3>1. batch \subseteq 1..Len(log) /\ Len(log) \in Nat /\ Len(log) <= MaxLines
        BY BatchLines DEF TypeInv, TypeOK
    <3>2. ForkLines \subseteq batch
        BY DEF ForkLines
    <3>3. 1..Len(log) \subseteq 1..MaxLines
        BY <3>1, BoundsAssumption
    <3> QED
        BY <3>1, <3>2, <3>3
  <2>2. fl' \in FlRecords /\ fl'.pc = "forks" /\ fl'.todo = ForkLines
      BY <1>8, <1>0, <2>1 DEF CountersDone, FlRecords
  <2>3. ForkLines' = ForkLines
      BY <1>8 DEF CountersDone, ForkLines, IsFork
  <2>4. FlusherInv'
      BY <2>2, <2>3 DEF FlusherInv
  <2> QED
      BY <1>8, <2>2, <2>4 DEF CountersDone, TypeInv, TypeOK, LocalsInv, FlRecords
<1> QED
    BY <1>1, <1>2, <1>3, <1>4, <1>5, <1>6, <1>7, <1>8 DEF Groups

LEMMA NextForkTypes ==
    ASSUME TypeInv, fl.pc \in ForkPCs, fl' = NextFork, UNCHANGED <<log, batch>>
    PROVE  /\ fl' \in FlRecords
           /\ fl'.pc = "forks"
           /\ fl'.todo = fl.todo \ {ForkLine}
           /\ FlusherInv'
<1>1. fl.todo \subseteq ForkLines /\ fl.todo \subseteq Runs \cup 1..MaxLines
    BY DEF TypeInv, TypeOK, FlusherInv
<1>2. /\ fl' \in FlRecords
      /\ fl'.pc = "forks"
      /\ fl'.todo = fl.todo \ {ForkLine}
    BY <1>1, IdleTypes DEF NextFork, FlRecords, FlPCs
<1>3. ForkLines' = ForkLines
    BY DEF ForkLines, IsFork
<1> QED
    BY <1>1, <1>2, <1>3 DEF FlusherInv, RunPCs, CopyPCs

LEMMA CopyMoves ==
    ASSUME TypeInv, fl.pc \in ForkPCs, fl.todo # {}, UNCHANGED <<log, batch>>,
           fl'.pc \in CopyPCs, fl'.todo = fl.todo, fl'.run = log[ForkLine].run,
           fl'.left \subseteq {c \in Cells : c[1] <= log[ForkLine].step}
    PROVE  FlusherInv'
<1>1. fl.todo \subseteq ForkLines
    BY DEF TypeInv, FlusherInv
<1>2. ForkLines' = ForkLines /\ ForkLine' = ForkLine
    BY DEF ForkLines, IsFork, ForkLine
<1>3. log[ForkLine].run \in Runs
    BY ForkAtHand
<1> QED
    BY <1>1, <1>2, <1>3 DEF FlusherInv

LEMMA CopyKeepsTypes == ASSUME TypeInv, Copy PROVE TypeInv'
<1> USE DEF logVars, dbVars, ghosts, bounds
<1>0. fl \in FlRecords
    BY DEF TypeInv, TypeOK, FlRecords
<1>1. CASE ForkCheck
  <2>1. fl.pc \in ForkPCs /\ fl.todo # {}
      BY <1>1 DEF ForkCheck, ForkPCs
  <2>2. fl' = [fl EXCEPT !.pc = "copyScalars", !.run = log[ForkLine].run,
                         !.left = Inheritable(points)]
      BY <1>1 DEF ForkCheck
  <2>3. Inheritable(points) \subseteq {c \in Cells : c[1] <= log[ForkLine].step}
      BY DEF Inheritable
  <2>4. fl' \in FlRecords
      BY <1>0, <2>1, <2>2, <2>3, ForkAtHand DEF FlRecords, FlPCs
  <2>5. /\ fl'.pc \in CopyPCs /\ fl'.todo = fl.todo /\ fl'.run = log[ForkLine].run
        /\ fl'.left = Inheritable(points)
      BY <1>0, <2>2 DEF FlRecords, CopyPCs
  <2>6. FlusherInv'
      BY <1>1, <2>1, <2>3, <2>5, CopyMoves DEF ForkCheck
  <2> QED
      BY <1>1, <2>4, <2>6 DEF ForkCheck, TypeInv, TypeOK, LocalsInv, FlRecords
<1>2. CASE ForkInvalid
  <2>1. fl.pc \in ForkPCs /\ fl.todo # {}
      BY <1>2 DEF ForkInvalid, ForkPCs
  <2>2. fl' \in FlRecords /\ FlusherInv'
      BY <1>2, <2>1, NextForkTypes DEF ForkInvalid
  <2>3. /\ row' \in [Runs -> {"none", "running", "failed"}]
        /\ outcome' \in [1..MaxLines -> Outcomes]
        /\ hurtCount' \subseteq Runs
        /\ hurtKeys' \subseteq Runs \X Keys
      BY <1>2, <2>1, ForkAtHand, UnlistedTypes DEF ForkInvalid, TypeInv, TypeOK, Outcomes
  <2> QED
      BY <1>2, <2>2, <2>3 DEF ForkInvalid, TypeInv, TypeOK, LocalsInv, FlRecords
<1>3. ASSUME NEW C \in Chunks(fl.left), CopyScalars(C) PROVE TypeInv'
  <2>1. fl.pc \in ForkPCs /\ fl.pc \in CopyPCs
      BY <1>3 DEF CopyScalars, ForkPCs, CopyPCs
  <2>2. /\ fl.todo # {} /\ fl.run = log[ForkLine].run /\ fl.run \in Runs
        /\ fl.left \subseteq {c \in Cells : c[1] <= log[ForkLine].step}
      BY <2>1, ForkAtHand DEF TypeInv, FlusherInv
  <2>3. C \subseteq Cells
      BY <2>2 DEF Chunks
  <2>4. fl' = [fl EXCEPT !.pc = "copyKeys", !.keys = {c[2] : c \in C}, !.left = @ \ C]
      BY <1>3 DEF CopyScalars
  <2>5. {c[1] : c \in C} \subseteq Steps /\ {c[2] : c \in C} \subseteq Keys
      BY <2>3, CellsArePairs
  <2>6. /\ fl' \in FlRecords /\ fl'.pc \in CopyPCs /\ fl'.todo = fl.todo
        /\ fl'.run = log[ForkLine].run /\ fl'.left \subseteq fl.left
      BY <1>0, <2>2, <2>4, <2>5 DEF FlRecords, FlPCs, CopyPCs
  <2>7. FlusherInv'
      BY <1>3, <2>1, <2>2, <2>6, CopyMoves DEF CopyScalars
  <2>8. points' \in [Runs -> [Cells -> Positions]]
    <3>1. Parent \in Runs /\ points \in [Runs -> [Cells -> Positions]]
        BY <2>1, <2>2, ForkAtHand DEF TypeInv, TypeOK
    <3>2. points' = [points EXCEPT ![fl.run] =
                        [c \in Cells |-> IF @[c] = 0 /\ c \in C THEN points[Parent][c] ELSE @[c]]]
        BY <1>3 DEF CopyScalars
    <3> QED
        BY <2>2, <3>1, <3>2
  <2>9. steps' \in [Runs -> SUBSET Steps]
      BY <1>3, <2>5 DEF CopyScalars, TypeInv, TypeOK
  <2> QED
      BY <1>3, <2>6, <2>7, <2>8, <2>9 DEF CopyScalars, TypeInv, TypeOK, LocalsInv, FlRecords
<1>4. CASE CopyKeys
  <2>1. fl.pc \in ForkPCs /\ fl.pc \in CopyPCs
      BY <1>4 DEF CopyKeys, ForkPCs, CopyPCs
  <2>2. /\ fl.todo # {} /\ fl.run = log[ForkLine].run
        /\ fl.left \subseteq {c \in Cells : c[1] <= log[ForkLine].step}
      BY <2>1 DEF TypeInv, FlusherInv
  <2>3. /\ fl' \in FlRecords /\ fl'.pc \in CopyPCs /\ fl'.todo = fl.todo
        /\ fl'.run = fl.run /\ fl'.left = fl.left
      BY <1>4, <1>0 DEF CopyKeys, FlRecords, FlPCs, CopyPCs
  <2>4. FlusherInv'
      BY <1>4, <2>1, <2>2, <2>3, CopyMoves DEF CopyKeys
  <2>5. keys' \in [Runs -> SUBSET Keys]
      BY <1>4, <1>0 DEF CopyKeys, TypeInv, TypeOK, FlRecords
  <2> QED
      BY <1>4, <2>3, <2>4, <2>5 DEF CopyKeys, TypeInv, TypeOK, LocalsInv, FlRecords
<1>5. CASE CopyHistograms
  <2>1. fl.pc \in ForkPCs /\ fl.pc \in CopyPCs
      BY <1>5 DEF CopyHistograms, ForkPCs, CopyPCs
  <2>2. /\ fl.todo # {} /\ fl.run = log[ForkLine].run /\ fl.run \in Runs
        /\ fl.left \subseteq {c \in Cells : c[1] <= log[ForkLine].step}
      BY <2>1, ForkAtHand DEF TypeInv, FlusherInv
  <2>3. /\ fl' \in FlRecords /\ fl'.pc \in CopyPCs /\ fl'.todo = fl.todo
        /\ fl'.run = fl.run /\ fl'.left = fl.left
      BY <1>5, <1>0 DEF CopyHistograms, FlRecords, FlPCs, CopyPCs
  <2>4. FlusherInv'
      BY <1>5, <2>1, <2>2, <2>3, CopyMoves DEF CopyHistograms
  <2>5. histos' \in [Runs -> [Cells -> Positions]]
    <3>1. Parent \in Runs /\ histos \in [Runs -> [Cells -> Positions]]
        BY <2>1, <2>2, ForkAtHand DEF TypeInv, TypeOK
    <3>2. histos' = [histos EXCEPT ![fl.run] =
                        [c \in Cells |-> IF @[c] = 0 /\ c \in Inheritable(histos)
                                         THEN histos[Parent][c] ELSE @[c]]]
        BY <1>5 DEF CopyHistograms
    <3> QED
        BY <2>2, <3>1, <3>2
  <2> QED
      BY <1>5, <2>3, <2>4, <2>5 DEF CopyHistograms, TypeInv, TypeOK, LocalsInv, FlRecords
<1>6. CASE CopyRunKeys
  <2>1. fl.pc \in ForkPCs /\ fl.pc \in CopyPCs
      BY <1>6 DEF CopyRunKeys, ForkPCs, CopyPCs
  <2>2. /\ fl.todo # {} /\ fl.run = log[ForkLine].run /\ fl.run \in Runs
        /\ fl.left \subseteq {c \in Cells : c[1] <= log[ForkLine].step}
      BY <2>1, ForkAtHand DEF TypeInv, FlusherInv
  <2>3. /\ fl' \in FlRecords /\ fl'.pc \in CopyPCs /\ fl'.todo = fl.todo
        /\ fl'.run = fl.run /\ fl'.left = fl.left
      BY <1>6, <1>0 DEF CopyRunKeys, FlRecords, FlPCs, CopyPCs
  <2>4. FlusherInv'
      BY <1>6, <2>1, <2>2, <2>3, CopyMoves DEF CopyRunKeys
  <2>5. keys' \in [Runs -> SUBSET Keys]
      BY <1>6, <2>1, <2>2, ForkAtHand DEF CopyRunKeys, TypeInv, TypeOK
  <2> QED
      BY <1>6, <2>3, <2>4, <2>5 DEF CopyRunKeys, TypeInv, TypeOK, LocalsInv, FlRecords
<1>7. CASE ForkCount
  <2>1. fl.pc \in ForkPCs /\ fl.pc \in CopyPCs
      BY <1>7 DEF ForkCount, ForkPCs, CopyPCs
  <2>2. /\ fl.todo # {} /\ fl.run = log[ForkLine].run /\ fl.run \in Runs
        /\ fl.left \subseteq {c \in Cells : c[1] <= log[ForkLine].step}
      BY <2>1, ForkAtHand DEF TypeInv, FlusherInv
  <2>3. Cardinality(steps[fl.run]) \in 0..MaxStep + 1
      BY <2>2, CountOfSteps DEF TypeInv, TypeOK
  <2>4. /\ fl' \in FlRecords /\ fl'.pc \in CopyPCs /\ fl'.todo = fl.todo
        /\ fl'.run = fl.run /\ fl'.left = fl.left
      BY <1>7, <1>0, <2>3 DEF ForkCount, FlRecords, FlPCs, CopyPCs
  <2>5. FlusherInv'
      BY <1>7, <2>1, <2>2, <2>4, CopyMoves DEF ForkCount
  <2> QED
      BY <1>7, <2>4, <2>5 DEF ForkCount, TypeInv, TypeOK, LocalsInv, FlRecords
<1>8. CASE SetForkCount
  <2>1. fl.pc \in ForkPCs /\ fl.pc \in CopyPCs
      BY <1>8 DEF SetForkCount, ForkPCs, CopyPCs
  <2>2. fl.todo # {}
      BY <2>1 DEF TypeInv, FlusherInv
  <2>3. fl' \in FlRecords /\ FlusherInv'
      BY <1>8, <2>1, NextForkTypes DEF SetForkCount
  <2>4. hcount' \in [Runs -> 0..MaxStep + 1]
      BY <1>8, <1>0 DEF SetForkCount, TypeInv, TypeOK, FlRecords
  <2>5. /\ outcome' \in [1..MaxLines -> Outcomes]
        /\ hurtCount' \subseteq Runs /\ viewed' \subseteq Runs
      BY <1>8 DEF SetForkCount, TypeInv, TypeOK, Outcomes
  <2> QED
      BY <1>8, <2>3, <2>4, <2>5 DEF SetForkCount, TypeInv, TypeOK, LocalsInv, FlRecords
<1>9. CASE ForksDone
  <2>1. fl' \in FlRecords /\ fl'.pc = "idle"
      BY <1>9, IdleTypes DEF ForksDone
  <2>2. FlusherInv'
      BY <2>1 DEF FlusherInv, RunPCs, ForkPCs, CopyPCs
  <2> QED
      BY <1>9, <2>1, <2>2 DEF ForksDone, TypeInv, TypeOK, LocalsInv, FlRecords
<1> QED
    BY <1>1, <1>2, <1>3, <1>4, <1>5, <1>6, <1>7, <1>8, <1>9 DEF Copy

LEMMA ErrorsKeepTypes == ASSUME TypeInv, Errors PROVE TypeInv'
<1> USE DEF logVars, dbVars, ghosts, bounds
<1>0. fl \in FlRecords /\ 0 \in 0..MaxStep + 1
    BY BoundsAssumption DEF TypeInv, TypeOK, FlRecords
<1>1. ASSUME NEW r \in Runs, FlushScalarsFails(r) PROVE TypeInv'
  <2>1. fl' \in FlRecords /\ fl'.pc = "scalars"
      BY <1>0, <1>1 DEF FlushScalarsFails, FlRecords
  <2>2. FlusherInv'
      BY <2>1, EarlyFlusher DEF RunPCs, ForkPCs, CopyPCs
  <2>3. hurtKeys' \subseteq Runs \X Keys /\ faults' \in 0..MaxFaults
    <3>1. hurtKeys' = hurtKeys \cup Unlisted(r) /\ Unlisted(r) \subseteq Runs \X Keys
        BY <1>1, UnlistedTypes DEF FlushScalarsFails
    <3>2. faults' \in 0..MaxFaults
        BY <1>1, FaultTypes DEF FlushScalarsFails, TypeInv
    <3> QED
        BY <3>1, <3>2 DEF TypeInv, TypeOK
  <2> QED
      BY <1>1, <2>1, <2>2, <2>3 DEF FlushScalarsFails, TypeInv, TypeOK, LocalsInv, FlRecords
<1>2. ASSUME NEW r \in Runs, FlushHistogramsFails(r) PROVE TypeInv'
  <2>1. fl' \in FlRecords /\ fl'.pc = "histograms"
      BY <1>0, <1>2 DEF FlushHistogramsFails, FlRecords
  <2>2. FlusherInv'
      BY <2>1, EarlyFlusher DEF RunPCs, ForkPCs, CopyPCs
  <2>3. faults' \in 0..MaxFaults
      BY <1>2, FaultTypes DEF FlushHistogramsFails, TypeInv
  <2> QED
      BY <1>2, <2>1, <2>2, <2>3 DEF FlushHistogramsFails, TypeInv, TypeOK, LocalsInv, FlRecords
<1>3. CASE FlushKeysFails
  <2>1. fl' \in FlRecords /\ fl'.pc = "scalars"
      BY <1>0, <1>3 DEF FlushKeysFails, FlRecords, FlPCs
  <2>2. FlusherInv'
      BY <2>1, EarlyFlusher DEF RunPCs, ForkPCs, CopyPCs
  <2>3. fl.run \in Runs
      BY <1>3 DEF FlushKeysFails, TypeInv, FlusherInv, RunPCs
  <2>4. hurtKeys' \subseteq Runs \X Keys /\ faults' \in 0..MaxFaults
    <3>1. /\ hurtKeys' = hurtKeys \cup Unlisted(fl.run)
          /\ Unlisted(fl.run) \subseteq Runs \X Keys
        BY <1>3, <2>3, UnlistedTypes DEF FlushKeysFails
    <3>2. faults' \in 0..MaxFaults
        BY <1>3, FaultTypes DEF FlushKeysFails, TypeInv
    <3> QED
        BY <3>1, <3>2 DEF TypeInv, TypeOK
  <2> QED
      BY <1>3, <2>1, <2>2, <2>4 DEF FlushKeysFails, TypeInv, TypeOK, LocalsInv, FlRecords
<1>4. CASE SetCountFails
  <2>1. fl' \in FlRecords /\ fl'.pc = "counters"
      BY <1>0, <1>4 DEF SetCountFails, FlRecords, FlPCs
  <2>2. FlusherInv'
      BY <2>1, EarlyFlusher DEF RunPCs, ForkPCs, CopyPCs
  <2>3. fl.run \in Runs
      BY <1>4 DEF SetCountFails, TypeInv, FlusherInv, RunPCs
  <2>4. hurtCount' \subseteq Runs /\ faults' \in 0..MaxFaults
    <3>1. hurtCount' \subseteq Runs
        BY <1>4, <2>3 DEF SetCountFails, TypeInv, TypeOK
    <3> QED
        BY <1>4, <3>1, FaultTypes DEF SetCountFails, TypeInv
  <2> QED
      BY <1>4, <2>1, <2>2, <2>4 DEF SetCountFails, TypeInv, TypeOK, LocalsInv, FlRecords
<1>5. CASE ForkFails
  <2>1. fl.pc \in ForkPCs /\ fl.todo # {}
      BY <1>5 DEF ForkFails, ForkPCs, CopyPCs
  <2>2. fl' \in FlRecords /\ FlusherInv'
      BY <1>5, <2>1, NextForkTypes DEF ForkFails
  <2>3. /\ outcome' \in [1..MaxLines -> Outcomes]
        /\ hurtCount' \subseteq Runs
        /\ hurtKeys' \subseteq Runs \X Keys
        /\ faults' \in 0..MaxFaults
    <3>1. faults' \in 0..MaxFaults
        BY <1>5, FaultTypes DEF ForkFails, TypeInv
    <3> QED
        BY <1>5, <2>1, <3>1, ForkAtHand, UnlistedTypes DEF ForkFails, TypeInv, TypeOK, Outcomes
  <2> QED
      BY <1>5, <2>2, <2>3 DEF ForkFails, TypeInv, TypeOK, LocalsInv, FlRecords
<1> QED
    BY <1>1, <1>2, <1>3, <1>4, <1>5 DEF Errors

CacheRecords == {None} \cup [count : 0..MaxStep + 1, cells : SUBSET Cells,
                             within : SUBSET Steps]

(* A page keeps what it has under the count it has. *)
LEMMA KeepTypes ==
    ASSUME TypeInv, view.run \in Runs, view.count # None,
           NEW S, NEW W, S \subseteq Cells, W \subseteq Steps, Keep(S, W)
    PROVE  cache' \in [Runs -> CacheRecords]
<1>1. view.count \in 0..MaxStep + 1
    BY DEF TypeInv, TypeOK
<1> QED
    BY <1>1 DEF Keep, CacheRecords, TypeInv, TypeOK

LEMMA AskAgainTypes ==
    ASSUME TypeInv, NEW R, R \subseteq Steps
    PROVE  /\ AskAgain(R) \in ViewRecords /\ AskAgain(R).pc = "claim"
           /\ AskAgain(R).run = view.run
<1>1. view \in ViewRecords /\ 0 \in 0..MaxStep + 1
    BY BoundsAssumption DEF TypeInv, TypeOK, ViewRecords
<1> QED
    BY <1>1 DEF AskAgain, ViewRecords, ViewPCs

LEMMA BrowserKeepsTypes == ASSUME TypeInv, Browser PROVE TypeInv'
<1> USE DEF logVars, dbVars, ghosts, bounds
<1>0. /\ view \in ViewRecords /\ 0 \in 0..MaxStep + 1
      /\ view.pc # "idle" => view.run \in Runs
    BY BoundsAssumption DEF TypeInv, TypeOK, LocalsInv, ViewRecords
<1>1. FlusherInv'
  <2>1. UNCHANGED <<log, batch, fl>>
      BY DEF Browser, OpenPage, OpenProject, GetHistoryKeys, ReadClaim, ReadSteps, Backfill,
             BackfillBusy, Recount, StoreRecount, StreamKey, KeepHistory, ShowHistory,
             Zoom, KeysFail, RequestFails, AnswerBreaks
  <2> QED
      BY <2>1, FlusherInvStays
<1>2. ASSUME NEW r \in Viewed, OpenPage(r) PROVE TypeInv'
  <2>1. r \in Runs /\ hcount[r] \in 0..MaxStep + 1
      BY RunsAssumption DEF TypeInv, TypeOK
  <2>2. view' \in ViewRecords /\ view'.run \in Runs
      BY <1>2, <2>1, IdleTypes DEF OpenPage, ViewRecords, ViewPCs
  <2>3. opened' \in 0..MaxViews
      BY <1>2, OpenedTypes DEF OpenPage, TypeInv
  <2> QED
      BY <1>1, <1>2, <2>2, <2>3 DEF OpenPage, TypeInv, TypeOK, LocalsInv, ViewRecords
<1>3. ASSUME NEW r \in Compared, OpenProject(r) PROVE TypeInv'
  <2>1. r \in Runs
      BY RunsAssumption
  <2>2. UNION {keys[q] : q \in Runs \ deleted} \subseteq Keys
      BY DEF TypeInv, TypeOK
  <2>3. view' \in ViewRecords /\ view'.run \in Runs
      BY <1>3, <2>1, <2>2, IdleTypes DEF OpenProject, ViewRecords, ViewPCs
  <2>4. opened' \in 0..MaxViews
      BY <1>3, OpenedTypes DEF OpenProject, TypeInv
  <2> QED
      BY <1>1, <1>3, <2>3, <2>4 DEF OpenProject, TypeInv, TypeOK, LocalsInv, ViewRecords
<1>4. CASE GetHistoryKeys
  <2>1. view' \in ViewRecords /\ (view'.pc # "idle" => view'.run \in Runs)
    <3>1. CASE keys[view.run] = {}
        BY <1>4, <3>1, IdleTypes DEF GetHistoryKeys
    <3>2. CASE keys[view.run] # {}
      <4>1. view' = [view EXCEPT !.pc = "claim", !.names = keys[view.run],
                                 !.keys = keys[view.run]]
          BY <1>4, <3>2 DEF GetHistoryKeys
      <4>2. view.run \in Runs /\ keys[view.run] \subseteq Keys
          BY <1>0, <1>4 DEF GetHistoryKeys, TypeInv, TypeOK
      <4> QED
          BY <1>0, <4>1, <4>2 DEF ViewRecords, ViewPCs
    <3> QED
        BY <3>1, <3>2
  <2> QED
      BY <1>1, <1>4, <2>1 DEF GetHistoryKeys, TypeInv, TypeOK, LocalsInv, ViewRecords
<1>5. CASE ReadClaim
  <2>1. view' \in ViewRecords /\ view'.run \in Runs
    <3>1. hcount[view.run] \in 0..MaxStep + 1 /\ view.run \in Runs
        BY <1>0, <1>5 DEF ReadClaim, TypeInv, TypeOK
    <3> QED
        BY <1>0, <1>5, <3>1 DEF ReadClaim, ViewRecords, ViewPCs
  <2> QED
      BY <1>1, <1>5, <2>1 DEF ReadClaim, TypeInv, TypeOK, LocalsInv, ViewRecords
<1>6. CASE ReadSteps
  <2>1. view' \in ViewRecords /\ view'.run \in Runs
    <3>1. view.run \in Runs
        BY <1>0, <1>6 DEF ReadSteps
    <3> QED
        BY <1>0, <1>6, <3>1 DEF ReadSteps, ViewRecords, ViewPCs
  <2> QED
      BY <1>1, <1>6, <2>1 DEF ReadSteps, TypeInv, TypeOK, LocalsInv, ViewRecords
<1>7. CASE Backfill
  <2>1. view.run \in Runs
      BY <1>0, <1>7 DEF Backfill
  <2>2. view' \in ViewRecords /\ view'.run \in Runs
      BY <1>0, <1>7, <2>1 DEF Backfill, ViewRecords, ViewPCs
  <2>3. steps' \in [Runs -> SUBSET Steps]
    <3>1. ScalarSteps(view.run) \subseteq Steps
        BY CellsArePairs DEF ScalarSteps, Stored
    <3> QED
        BY <1>7, <3>1 DEF Backfill, TypeInv, TypeOK
  <2> QED
      BY <1>1, <1>7, <2>2, <2>3 DEF Backfill, TypeInv, TypeOK, LocalsInv, ViewRecords
<1>8. CASE BackfillBusy
  <2>1. view' \in ViewRecords /\ view'.run \in Runs
      BY <1>0, <1>8 DEF BackfillBusy, ViewRecords, ViewPCs
  <2> QED
      BY <1>1, <1>8, <2>1 DEF BackfillBusy, TypeInv, TypeOK, LocalsInv, ViewRecords
<1>9. CASE Recount
  <2>1. view.run \in Runs /\ Cardinality(steps[view.run]) \in 0..MaxStep + 1
      BY <1>0, <1>9, CountOfSteps DEF Recount, TypeInv, TypeOK
  <2>2. view' \in ViewRecords /\ view'.run \in Runs
      BY <1>0, <1>9, <2>1 DEF Recount, ViewRecords, ViewPCs
  <2> QED
      BY <1>1, <1>9, <2>2 DEF Recount, TypeInv, TypeOK, LocalsInv, ViewRecords
<1>10. CASE StoreRecount
  <2>1. view.run \in Runs
      BY <1>0, <1>10 DEF StoreRecount
  <2>2. view' \in ViewRecords /\ view'.run \in Runs
      BY <1>0, <1>10, <2>1 DEF StoreRecount, ViewRecords, ViewPCs
  <2>3. hcount' \in [Runs -> 0..MaxStep + 1] /\ viewed' \subseteq Runs
      BY <1>0, <1>10, <2>1 DEF StoreRecount, TypeInv, TypeOK, ViewRecords
  <2> QED
      BY <1>1, <1>10, <2>2, <2>3 DEF StoreRecount, TypeInv, TypeOK, LocalsInv, ViewRecords
<1>11. ASSUME NEW k \in Keys, StreamKey(k) PROVE TypeInv'
  <2>1. view' \in ViewRecords /\ view'.run \in Runs
      BY <1>0, <1>11 DEF StreamKey, Selected, Stored, ViewRecords
  <2> QED
      BY <1>1, <1>11, <2>1 DEF StreamKey, TypeInv, TypeOK, LocalsInv, ViewRecords
<1>12. CASE KeepHistory
  <2>1. view.run \in Runs /\ view.cells \subseteq Cells /\ view.range \subseteq Steps
      BY <1>0, <1>12 DEF KeepHistory, ViewRecords
  <2>2. cache' \in [Runs -> CacheRecords]
      BY <1>12, <2>1, KeepTypes DEF KeepHistory
  <2>3. view' \in ViewRecords /\ view'.run \in Runs
      BY <1>0, <1>12, <2>1 DEF KeepHistory, ViewRecords, ViewPCs
  <2> QED
      BY <1>1, <1>12, <2>2, <2>3
      DEF KeepHistory, TypeInv, TypeOK, LocalsInv, ViewRecords, CacheRecords
<1>13. CASE ShowHistory
  <2>1. view' \in ViewRecords /\ view'.pc = "idle"
      BY <1>13, IdleTypes DEF ShowHistory
  <2> QED
      BY <1>1, <1>13, <2>1 DEF ShowHistory, TypeInv, TypeOK, LocalsInv, ViewRecords
<1>14. ASSUME NEW R \in Ranges, Zoom(R) PROVE TypeInv'
  <2>1. view.run \in Runs /\ R \subseteq Steps
      BY <1>0, <1>14, RangesAssumption DEF Zoom
  <2>2. view' \in ViewRecords /\ view'.run \in Runs
      BY <1>14, <2>1, AskAgainTypes DEF Zoom
  <2> QED
      BY <1>1, <1>14, <2>2 DEF Zoom, TypeInv, TypeOK, LocalsInv, ViewRecords
<1>15. CASE KeysFail
  <2>1. view.run \in Runs
      BY <1>0, <1>15 DEF KeysFail
  <2>2. cache' \in [Runs -> CacheRecords]
      BY <1>15, <2>1, KeepTypes DEF KeysFail
  <2>3. view' \in ViewRecords /\ view'.pc = "idle"
      BY <1>15, IdleTypes DEF KeysFail
  <2>4. faults' \in 0..MaxFaults
      BY <1>15, FaultTypes DEF KeysFail, TypeInv
  <2> QED
      BY <1>1, <1>15, <2>2, <2>3, <2>4
      DEF KeysFail, TypeInv, TypeOK, LocalsInv, ViewRecords, CacheRecords
<1>16. CASE RequestFails
  <2>1. view.run \in Runs /\ view.range \subseteq Steps
      BY <1>0, <1>16 DEF RequestFails, ViewRecords
  <2>2. view' \in ViewRecords /\ view'.run \in Runs
      BY <1>16, <2>1, AskAgainTypes DEF RequestFails
  <2>3. faults' \in 0..MaxFaults
      BY <1>16, FaultTypes DEF RequestFails, TypeInv
  <2> QED
      BY <1>1, <1>16, <2>2, <2>3 DEF RequestFails, TypeInv, TypeOK, LocalsInv, ViewRecords
<1>17. ASSUME NEW k \in Keys, NEW D \in SUBSET Cells, AnswerBreaks(k, D) PROVE TypeInv'
  <2>1. view' \in ViewRecords /\ view'.run \in Runs
      BY <1>0, <1>17 DEF AnswerBreaks, ViewRecords
  <2>2. faults' \in 0..MaxFaults
      BY <1>17, FaultTypes DEF AnswerBreaks, TypeInv
  <2> QED
      BY <1>1, <1>17, <2>1, <2>2 DEF AnswerBreaks, TypeInv, TypeOK, LocalsInv, ViewRecords
<1> QED
    BY <1>2, <1>3, <1>4, <1>5, <1>6, <1>7, <1>8, <1>9, <1>10, <1>11, <1>12, <1>13, <1>14,
       <1>15, <1>16, <1>17 DEF Browser

LEMMA CrashKeepsTypes == ASSUME TypeInv, Crash PROVE TypeInv'
<1> USE DEF logVars, dbVars, ghosts, bounds
<1>0. PICK s \in 0..saved : CrashAt(s)
    BY DEF Crash
<1>1. /\ fl' \in FlRecords /\ fl'.pc = "idle"
      /\ rq' \in RqRecords /\ rq'.pc = "idle"
      /\ view' \in ViewRecords /\ view'.pc = "idle"
    BY <1>0, IdleTypes DEF CrashAt
<1>2. FlusherInv' /\ LocalsInv'
    BY <1>1 DEF FlusherInv, LocalsInv, RunPCs, ForkPCs, CopyPCs
<1>3. outcome' \in [1..MaxLines -> Outcomes]
    BY <1>0 DEF CrashAt, TypeInv, TypeOK, Outcomes
<1>4. hurtKeys' \subseteq Runs \X Keys
    BY <1>0, UnlistedTypes DEF CrashAt, TypeInv, TypeOK
<1>5. hurtCount' \subseteq Runs
  <2>1. {log[i].run : i \in {j \in batch : j <= s}} \subseteq Runs
      BY BatchLines, LineTypes DEF TypeInv
  <2>2. rq.pc = "append" => rq.run \in Runs
      BY DEF TypeInv, LocalsInv
  <2> QED
      BY <1>0, <2>1, <2>2 DEF CrashAt, TypeInv, TypeOK
<1>6. /\ saved' \in 0..Len(log') /\ pos' \in 0..Len(log') /\ batch' \subseteq 1..pos'
      /\ faults' \in 0..MaxFaults
    BY <1>0, BoundsAssumption DEF CrashAt, Fault, TypeInv, TypeOK
<1> QED
    BY <1>0, <1>1, <1>2, <1>3, <1>4, <1>5, <1>6
    DEF CrashAt, TypeInv, TypeOK, FlRecords, RqRecords, ViewRecords

LEMMA TypeInvStep == TypeInv /\ [Next]_vars => TypeInv'
<1> SUFFICES ASSUME TypeInv, [Next]_vars PROVE TypeInv'
    OBVIOUS
<1>1. CASE UNCHANGED vars
  <2> USE <1>1 DEF vars, logVars, dbVars, ghosts, bounds
  <2>1. TypeOK'
      BY DEF TypeInv, TypeOK
  <2>2. FlusherInv' /\ LocalsInv'
      BY FlusherInvStays, LocalsInvStays DEF TypeInv
  <2> QED
      BY <2>1, <2>2 DEF TypeInv
<1> QED
    BY <1>1, ClientKeepsTypes, BatchKeepsTypes, GroupsKeepTypes, CopyKeepsTypes,
       ErrorsKeepTypes, BrowserKeepsTypes, CrashKeepsTypes DEF Next, Flusher

LEMMA TypeInvHolds == Spec => []TypeInv
BY TypeInvInit, TypeInvStep, PTL DEF Spec

(* The variables have their types, whatever faults, requests and readers come. *)
THEOREM HistoryTypes == Spec => []TypeOK
<1>1. TypeInv => TypeOK
    BY DEF TypeInv
<1> QED
    BY <1>1, TypeInvHolds, PTL

-----------------------------------------------------------------------------
(* The points and the histograms implement PointStore.  Steps other than an
   append, the insertion of a group and a chunk of a copy change neither the
   log nor the store. *)

Appends(l) == l \in Rows \cup Forks /\ log' = Append(log, l)

AppendsLine == \E l \in Rows \cup Forks : Appends(l)

LEMMA WhoAppends ==
    ASSUME [Next]_vars
    PROVE  \/ UNCHANGED log
           \/ \E l \in Payloads : LogLine(l)
           \/ ForkAppend
<1> USE DEF logVars, dbVars, ghosts, bounds
<1>1. CASE UNCHANGED vars
    BY <1>1 DEF vars
<1>2. CASE SavePos \/ Crash
    BY <1>2 DEF SavePos, Crash, CrashAt
<1>3. CASE Browser
    BY <1>3 DEF Browser, OpenPage, OpenProject, GetHistoryKeys, ReadClaim, ReadSteps, Backfill,
        BackfillBusy, Recount, StoreRecount, StreamKey, KeepHistory, ShowHistory,
        Zoom, KeysFail, RequestFails, AnswerBreaks
<1>4. CASE Batch \/ Errors
    BY <1>4 DEF Batch, ReadLine, StartFlush, Errors, FlushScalarsFails, FlushHistogramsFails,
        FlushKeysFails, SetCountFails, ForkFails
<1>5. CASE Groups
    BY <1>5 DEF Groups, FlushScalars, FlushHistograms, CountSteps, FlushKeys, ScalarsDone,
        HistogramsDone, SetCount, CountersDone
<1>6. CASE Copy
    BY <1>6 DEF Copy, ForkCheck, ForkInvalid, CopyScalars, CopyKeys, CopyHistograms,
        CopyRunKeys, ForkCount, SetForkCount, ForksDone
<1>7. CASE ForkRow \/ ForkClaim \/ ForkRefused
    BY <1>7 DEF ForkRow, ForkClaim, ForkRefused
<1>8. ASSUME NEW r \in Runs, NEW parent \in Runs, NEW s \in Steps, BeginFork(r, parent, s)
       PROVE  UNCHANGED log
    BY <1>8 DEF BeginFork
<1>9. ASSUME NEW r \in Deletable, DeleteRun(r) PROVE UNCHANGED log
    BY <1>9 DEF DeleteRun
<1> QED
    BY <1>1, <1>2, <1>3, <1>4, <1>5, <1>6, <1>7, <1>8, <1>9 DEF Next, Client, Flusher

LEMMA WhatIsAppended ==
    ASSUME TypeInv, [Next]_vars
    PROVE  \/ UNCHANGED log
           \/ AppendsLine /\ UNCHANGED <<dbVars, fl, batch>>
<1>1. ASSUME NEW l \in Payloads, LogLine(l)
      PROVE  AppendsLine /\ UNCHANGED <<dbVars, fl, batch>>
    BY <1>1, PayloadsAssumption DEF LogLine, AppendsLine, Appends
<1>2. CASE ForkAppend
  <2> DEFINE l == [run |-> rq.run, step |-> rq.upto, scalars |-> {},
                   histograms |-> {}, parent |-> rq.parent]
  <2>1. l \in Forks
      BY <1>2 DEF ForkAppend, TypeInv, TypeOK, LocalsInv, Forks
  <2>2. log' = Append(log, l) /\ UNCHANGED <<dbVars, fl, batch>>
      BY <1>2 DEF ForkAppend
  <2> HIDE DEF l
  <2> QED
      BY <2>1, <2>2 DEF AppendsLine, Appends
<1> QED
    BY <1>1, <1>2, WhoAppends

LEMMA WhoWrites ==
    ASSUME [Next]_vars
    PROVE  \/ UNCHANGED <<points, histos>>
           \/ \E r \in Runs : FlushScalars(r) \/ FlushHistograms(r)
           \/ \E C \in Chunks(fl.left) : CopyScalars(C)
           \/ CopyHistograms
<1> USE DEF logVars, dbVars, ghosts, bounds
<1>1. CASE UNCHANGED vars
    BY <1>1 DEF vars
<1>2. CASE SavePos \/ Crash
    BY <1>2 DEF SavePos, Crash, CrashAt
<1>3. CASE Browser
    BY <1>3 DEF Browser, OpenPage, OpenProject, GetHistoryKeys, ReadClaim, ReadSteps, Backfill,
        BackfillBusy, Recount, StoreRecount, StreamKey, KeepHistory, ShowHistory,
        Zoom, KeysFail, RequestFails, AnswerBreaks
<1>4. CASE Batch \/ Errors
    BY <1>4 DEF Batch, ReadLine, StartFlush, Errors, FlushScalarsFails, FlushHistogramsFails,
        FlushKeysFails, SetCountFails, ForkFails
<1>5. CASE Groups
    BY <1>5 DEF Groups, CountSteps, FlushKeys, ScalarsDone, HistogramsDone, SetCount,
        StoreCount, CountersDone
<1>6. CASE Copy
    BY <1>6 DEF Copy, ForkCheck, ForkInvalid, CopyKeys, CopyRunKeys, ForkCount, SetForkCount,
        ForksDone
<1>7. CASE Client
    BY <1>7 DEF Client, LogLine, BeginFork, ForkRow, ForkClaim, ForkAppend, ForkRefused, DeleteRun
<1> QED
    BY <1>1, <1>2, <1>3, <1>4, <1>5, <1>6, <1>7 DEF Next, Flusher

Kinds == {"scalars", "histograms"}

LineOf(l, kind) == [run |-> l.run, step |-> l.step, keys |-> l[kind], parent |-> l.parent]

LEMMA LinesWithType ==
    ASSUME TypeOK, NEW kind \in Kinds
    PROVE  /\ LinesWith(kind) \in Seq({LineOf(l, kind) : l \in Rows \cup Forks})
           /\ DOMAIN LinesWith(kind) = 1..Len(log)
           /\ Len(LinesWith(kind)) = Len(log)
           /\ \A i \in 1..Len(log) : /\ LinesWith(kind)[i].run = log[i].run
                                     /\ LinesWith(kind)[i].step = log[i].step
                                     /\ LinesWith(kind)[i].keys = log[i][kind]
                                     /\ LinesWith(kind)[i].parent = log[i].parent
<1>1. \A i \in 1..Len(log) : log[i] \in Rows \cup Forks
    BY DEF TypeOK
<1>2. LinesWith(kind) = [i \in 1..Len(log) |-> LineOf(log[i], kind)]
    BY DEF LinesWith, LineOf
<1>3. Len(log) \in Nat
    BY DEF TypeOK
<1>4. \A i \in 1..Len(log) : LinesWith(kind)[i] = LineOf(log[i], kind)
    BY <1>2
<1>5. DOMAIN LinesWith(kind) = 1..Len(log)
    BY <1>2
<1>6. LinesWith(kind) \in Seq({LineOf(l, kind) : l \in Rows \cup Forks})
    BY <1>1, <1>2, <1>3
<1> QED
    BY <1>3, <1>4, <1>5, <1>6 DEF LineOf

LEMMA AppendIsFunction ==
    ASSUME NEW T, NEW seq \in Seq(T), NEW e \in T
    PROVE  Append(seq, e) = [i \in 1..Len(seq) + 1 |-> Append(seq, e)[i]]
<1> DEFINE f == Append(seq, e)
<1>1. f \in Seq(T) /\ Len(f) = Len(seq) + 1
    OBVIOUS
<1> HIDE DEF f
<1>2. f \in [1..Len(seq) + 1 -> T]
    BY <1>1
<1>3. f = [i \in 1..Len(seq) + 1 |-> f[i]]
    BY <1>2
<1> QED
    BY <1>3 DEF f

LEMMA LinesGrow ==
    ASSUME TypeOK, NEW l, Appends(l), NEW kind \in Kinds
    PROVE  LinesWith(kind)' = Append(LinesWith(kind), LineOf(l, kind))
<1>1. /\ log \in Seq(Rows \cup Forks) /\ l \in Rows \cup Forks
      /\ log' = Append(log, l)
    BY DEF TypeOK, Appends
<1>2. /\ Len(log') = Len(log) + 1 /\ log'[Len(log) + 1] = l
      /\ \A i \in 1..Len(log) : log'[i] = log[i]
    BY <1>1
<1>3. LinesWith(kind)' = [i \in 1..Len(log) + 1 |-> LineOf(log'[i], kind)]
    BY <1>2 DEF LinesWith, LineOf
<1>4. /\ LinesWith(kind) \in Seq({LineOf(k, kind) : k \in Rows \cup Forks})
      /\ Len(LinesWith(kind)) = Len(log)
      /\ \A i \in 1..Len(log) : LinesWith(kind)[i] = LineOf(log[i], kind)
    BY LinesWithType DEF LinesWith, LineOf
<1>5. \A i \in 1..Len(log) + 1 :
          LineOf(log'[i], kind) = Append(LinesWith(kind), LineOf(l, kind))[i]
    BY <1>1, <1>2, <1>4
<1>6. Append(LinesWith(kind), LineOf(l, kind))
          = [i \in 1..Len(log) + 1 |-> Append(LinesWith(kind), LineOf(l, kind))[i]]
  <2> DEFINE T == {LineOf(k, kind) : k \in Rows \cup Forks}
  <2>1. /\ LinesWith(kind) \in Seq(T) /\ Len(LinesWith(kind)) = Len(log)
        /\ LineOf(l, kind) \in T
      BY <1>1, <1>4
  <2> HIDE DEF T
  <2> QED
      BY <2>1, AppendIsFunction
<1> QED
    BY <1>3, <1>5, <1>6

LEMMA EmptyLines == ASSUME log = << >>, NEW kind \in Kinds PROVE LinesWith(kind) = << >>
BY DEF LinesWith

LEMMA ScalarsInit == Init => Scalars!Init
BY EmptyLines DEF Init, Scalars!Init, Kinds, Cells, Scalars!Cells

LEMMA HistogramsInit == Init => Histograms!Init
BY EmptyLines DEF Init, Histograms!Init, Kinds, Cells, Histograms!Cells

LEMMA AcceptScalars ==
    ASSUME TypeOK, AppendsLine, UNCHANGED points
    PROVE  Scalars!Accept
<1>1. PICK l \in Rows \cup Forks : Appends(l)
    BY DEF AppendsLine
<1>2. LinesWith("scalars")' = Append(LinesWith("scalars"), LineOf(l, "scalars"))
    BY <1>1, LinesGrow DEF Kinds
<1>3. LineOf(l, "scalars") \in Scalars!Rows \cup Scalars!Forks
    BY DEF LineOf, Rows, Forks, Scalars!Rows, Scalars!Forks
<1> QED
    BY <1>2, <1>3 DEF Scalars!Accept

LEMMA AcceptHistograms ==
    ASSUME TypeOK, AppendsLine, UNCHANGED histos
    PROVE  Histograms!Accept
<1>1. PICK l \in Rows \cup Forks : Appends(l)
    BY DEF AppendsLine
<1>2. LinesWith("histograms")' = Append(LinesWith("histograms"), LineOf(l, "histograms"))
    BY <1>1, LinesGrow DEF Kinds
<1>3. LineOf(l, "histograms") \in Histograms!Rows \cup Histograms!Forks
    BY DEF LineOf, Rows, Forks, Histograms!Rows, Histograms!Forks
<1> QED
    BY <1>2, <1>3 DEF Histograms!Accept

(* An inserted value names a line of the batch that has it. *)
LEMMA InsertedIsLogged ==
    ASSUME TypeOK, NEW r \in Runs, NEW c \in Cells, NEW old
    PROVE  \/ InsertOrIgnore(old, ScalarLines(r, c)) = old
           \/ /\ old = 0
              /\ Scalars!Logged(r, c, InsertOrIgnore(old, ScalarLines(r, c)))
<1> DEFINE v == Earliest(ScalarLines(r, c))
<1> SUFFICES ASSUME old = 0, ScalarLines(r, c) # {}
             PROVE  Scalars!Logged(r, c, v)
    BY DEF InsertOrIgnore
<1>1. ScalarLines(r, c) \subseteq batch
    BY DEF ScalarLines
<1>2. v \in ScalarLines(r, c)
    BY <1>1, BatchLines, EarliestIsFirst
<1>3. /\ v \in 1..Len(log) /\ log[v].run = r /\ log[v].step = c[1]
      /\ c[2] \in log[v].scalars
    BY <1>2, BatchLines DEF ScalarLines
<1>4. log[v].parent = None
    BY <1>3, LineTypes
<1> HIDE DEF v
<1> QED
    BY <1>3, <1>4, LinesWithType DEF Scalars!Logged, Kinds

LEMMA InsertedHistogramIsLogged ==
    ASSUME TypeOK, NEW r \in Runs, NEW c \in Cells, NEW old
    PROVE  \/ InsertOrIgnore(old, HistogramLines(r, c)) = old
           \/ /\ old = 0
              /\ Histograms!Logged(r, c, InsertOrIgnore(old, HistogramLines(r, c)))
<1> DEFINE v == Earliest(HistogramLines(r, c))
<1> SUFFICES ASSUME old = 0, HistogramLines(r, c) # {}
             PROVE  Histograms!Logged(r, c, v)
    BY DEF InsertOrIgnore
<1>1. HistogramLines(r, c) \subseteq batch
    BY DEF HistogramLines
<1>2. v \in HistogramLines(r, c)
    BY <1>1, BatchLines, EarliestIsFirst
<1>3. /\ v \in 1..Len(log) /\ log[v].run = r /\ log[v].step = c[1]
      /\ c[2] \in log[v].histograms
    BY <1>2, BatchLines DEF HistogramLines
<1>4. log[v].parent = None
    BY <1>3, LineTypes
<1> HIDE DEF v
<1> QED
    BY <1>3, <1>4, LinesWithType DEF Histograms!Logged, Kinds

(* A copied value is the parent's, below the fork step. *)
LEMMA CopiedIsInherited ==
    ASSUME TypeInv, fl.pc \in ForkPCs, fl.todo # {}, NEW c \in Cells,
           c[1] <= log[ForkLine].step
    PROVE  /\ Scalars!Inherited(log[ForkLine].run, c, points[Parent][c])
           /\ Histograms!Inherited(log[ForkLine].run, c, histos[Parent][c])
<1>1. ForkLine \in 1..Len(log) /\ log[ForkLine].parent # None /\ Parent = log[ForkLine].parent
    BY ForkAtHand DEF IsFork, Parent
<1>2. Scalars!Inherited(log[ForkLine].run, c, points[Parent][c])
    BY <1>1, LinesWithType DEF Scalars!Inherited, Kinds, TypeInv
<1>3. Histograms!Inherited(log[ForkLine].run, c, histos[Parent][c])
    BY <1>1, LinesWithType DEF Histograms!Inherited, Kinds, TypeInv
<1> QED
    BY <1>2, <1>3

LEMMA LinesStay ==
    ASSUME UNCHANGED log, NEW kind \in Kinds
    PROVE  LinesWith(kind)' = LinesWith(kind)
BY DEF LinesWith

LEMMA RecordScalars ==
    ASSUME TypeInv, TypeInv', [Next]_vars, UNCHANGED log,
           points' # points
    PROVE  Scalars!Record
<1>1. points' \in [Runs -> [Cells -> Nat]]
  <2>1. points' \in [Runs -> [Cells -> Positions]]
      BY DEF TypeInv, TypeOK
  <2>2. Positions \subseteq Nat
      BY BoundsAssumption DEF Positions
  <2> QED
      BY <2>1, <2>2
<1>2. LinesWith("scalars")' = LinesWith("scalars")
    BY LinesStay DEF Kinds
<1> DEFINE Kept == \A r \in Runs, c \in Cells :
                       \/ points'[r][c] = points[r][c]
                       \/ /\ points[r][c] = 0
                          /\ \/ Scalars!Logged(r, c, points'[r][c])
                             \/ Scalars!Inherited(r, c, points'[r][c])
<1>3. Kept
  <2>1. ASSUME NEW q \in Runs, FlushScalars(q)
        PROVE  Kept
    <3> SUFFICES ASSUME NEW r \in Runs, NEW c \in Cells
                 PROVE  \/ points'[r][c] = points[r][c]
                        \/ /\ points[r][c] = 0
                           /\ Scalars!Logged(r, c, points'[r][c])
        OBVIOUS
    <3>1. CASE r # q
        BY <2>1, <3>1 DEF FlushScalars, AddScalars, TypeInv, TypeOK
    <3>2. CASE r = q
      <4>1. points'[r][c] = InsertOrIgnore(points[r][c], ScalarLines(r, c))
          BY <2>1, <3>2 DEF FlushScalars, AddScalars, TypeInv, TypeOK
      <4> QED
          BY <4>1, InsertedIsLogged DEF TypeInv
    <3> QED
        BY <3>1, <3>2
  <2>2. ASSUME NEW C \in Chunks(fl.left), CopyScalars(C)
        PROVE  Kept
    <3> SUFFICES ASSUME NEW r \in Runs, NEW c \in Cells
                 PROVE  \/ points'[r][c] = points[r][c]
                        \/ /\ points[r][c] = 0
                           /\ Scalars!Inherited(r, c, points'[r][c])
        OBVIOUS
    <3>1. /\ fl.pc \in ForkPCs /\ fl.todo # {} /\ fl.run = log[ForkLine].run
          /\ \A d \in fl.left : d[1] <= log[ForkLine].step
        BY <2>2 DEF CopyScalars, TypeInv, FlusherInv, ForkPCs, CopyPCs
    <3>2. C \subseteq fl.left
        BY DEF Chunks
    <3>3. points'[r][c] = IF r = fl.run /\ points[r][c] = 0 /\ c \in C THEN points[Parent][c]
                          ELSE points[r][c]
        BY <2>2 DEF CopyScalars, TypeInv, TypeOK
    <3> QED
        BY <3>1, <3>2, <3>3, CopiedIsInherited
  <2>3. CASE \/ \E r \in Runs : FlushHistograms(r)
             \/ CopyHistograms
      BY <2>3 DEF FlushHistograms, CopyHistograms
  <2> QED
      BY <2>1, <2>2, <2>3, WhoWrites
<1> QED
    BY <1>1, <1>2, <1>3 DEF Scalars!Record, Scalars!Cells, Cells

LEMMA RecordHistograms ==
    ASSUME TypeInv, TypeInv', [Next]_vars, UNCHANGED log,
           histos' # histos
    PROVE  Histograms!Record
<1>1. histos' \in [Runs -> [Cells -> Nat]]
  <2>1. histos' \in [Runs -> [Cells -> Positions]]
      BY DEF TypeInv, TypeOK
  <2>2. Positions \subseteq Nat
      BY BoundsAssumption DEF Positions
  <2> QED
      BY <2>1, <2>2
<1>2. LinesWith("histograms")' = LinesWith("histograms")
    BY LinesStay DEF Kinds
<1> DEFINE Kept == \A r \in Runs, c \in Cells :
                       \/ histos'[r][c] = histos[r][c]
                       \/ /\ histos[r][c] = 0
                          /\ \/ Histograms!Logged(r, c, histos'[r][c])
                             \/ Histograms!Inherited(r, c, histos'[r][c])
<1>3. Kept
  <2>1. ASSUME NEW q \in Runs, FlushHistograms(q)
        PROVE  Kept
    <3> SUFFICES ASSUME NEW r \in Runs, NEW c \in Cells
                 PROVE  \/ histos'[r][c] = histos[r][c]
                        \/ /\ histos[r][c] = 0
                           /\ Histograms!Logged(r, c, histos'[r][c])
        OBVIOUS
    <3>1. CASE r # q
        BY <2>1, <3>1 DEF FlushHistograms, TypeInv, TypeOK
    <3>2. CASE r = q
      <4>1. histos'[r][c] = InsertOrIgnore(histos[r][c], HistogramLines(r, c))
          BY <2>1, <3>2 DEF FlushHistograms, TypeInv, TypeOK
      <4> QED
          BY <4>1, InsertedHistogramIsLogged DEF TypeInv
    <3> QED
        BY <3>1, <3>2
  <2>2. ASSUME CopyHistograms
        PROVE  Kept
    <3> SUFFICES ASSUME NEW r \in Runs, NEW c \in Cells
                 PROVE  \/ histos'[r][c] = histos[r][c]
                        \/ /\ histos[r][c] = 0
                           /\ Histograms!Inherited(r, c, histos'[r][c])
        OBVIOUS
    <3>1. /\ fl.pc \in ForkPCs /\ fl.todo # {} /\ fl.run = log[ForkLine].run
        BY <2>2 DEF CopyHistograms, TypeInv, FlusherInv, ForkPCs, CopyPCs
    <3>2. histos'[r][c] = IF r = fl.run /\ histos[r][c] = 0 /\ c \in Inheritable(histos)
                          THEN histos[Parent][c] ELSE histos[r][c]
        BY <2>2 DEF CopyHistograms, TypeInv, TypeOK
    <3>3. c \in Inheritable(histos) => c[1] <= log[ForkLine].step
        BY DEF Inheritable
    <3> QED
        BY <3>1, <3>2, <3>3, CopiedIsInherited
  <2>3. CASE \/ \E r \in Runs : FlushScalars(r)
             \/ \E C \in Chunks(fl.left) : CopyScalars(C)
      BY <2>3 DEF FlushScalars, CopyScalars
  <2> QED
      BY <2>1, <2>2, <2>3, WhoWrites
<1> QED
    BY <1>1, <1>2, <1>3 DEF Histograms!Record, Histograms!Cells, Cells

LEMMA StoresStep ==
    ASSUME TypeInv, TypeInv', [Next]_vars
    PROVE  [Scalars!Next]_(Scalars!vars) /\ [Histograms!Next]_(Histograms!vars)
<1>1. CASE AppendsLine /\ UNCHANGED <<dbVars, fl, batch>>
    BY <1>1, AcceptScalars, AcceptHistograms
    DEF dbVars, TypeInv, Scalars!Next, Histograms!Next
<1>2. CASE UNCHANGED log
  <2>1. points' = points \/ Scalars!Record
      BY <1>2, RecordScalars
  <2>2. histos' = histos \/ Histograms!Record
      BY <1>2, RecordHistograms
  <2>3. /\ LinesWith("scalars")' = LinesWith("scalars")
        /\ LinesWith("histograms")' = LinesWith("histograms")
      BY <1>2, LinesStay DEF Kinds
  <2> QED
      BY <2>1, <2>2, <2>3
      DEF Scalars!Next, Histograms!Next, Scalars!vars, Histograms!vars
<1> QED
    BY <1>1, <1>2, WhatIsAppended

(* Flusher, copies of forks, replays and failures together keep the promise of
   PointStore: a point is written once, from a line of its run or, below the
   fork step, from a parent (history.go:116, buffer.go:180-216). *)
THEOREM PointsAreKept == Spec => ScalarsAreKept
<1>1. Init => Scalars!Init
    BY ScalarsInit
<1>2. TypeInv /\ TypeInv' /\ [Next]_vars => [Scalars!Next]_(Scalars!vars)
    BY StoresStep
<1> QED
    BY <1>1, <1>2, TypeInvHolds, PTL DEF Spec, ScalarsAreKept, Scalars!Spec

(* And so they do for histograms (history.go:196, buffer.go:218-254). *)
THEOREM HistogramsStay == Spec => HistogramsAreKept
<1>1. Init => Histograms!Init
    BY HistogramsInit
<1>2. TypeInv /\ TypeInv' /\ [Next]_vars => [Histograms!Next]_(Histograms!vars)
    BY StoresStep
<1> QED
    BY <1>1, <1>2, TypeInvHolds, PTL DEF Spec, HistogramsAreKept, Histograms!Spec

-----------------------------------------------------------------------------
(* Counts.  The steps of a run include those of its points, so the repair by a
   reader adds nothing. *)

StepsInv == \A r \in Runs : ScalarSteps(r) \subseteq steps[r]

LEMMA StoredTypes ==
    ASSUME TypeOK, NEW r \in Runs
    PROVE  Stored(r) = {c \in Cells : points[r][c] # 0} /\ Stored(r) \subseteq Cells
BY DEF Stored

LEMMA StepsInvInit == Init => StepsInv
BY DEF Init, StepsInv, ScalarSteps, Stored

LEMMA StepsGrow ==
    ASSUME TypeInv, [Next]_vars, NEW r \in Runs
    PROVE  steps[r] \subseteq steps'[r]
<1> USE DEF logVars, dbVars, ghosts, bounds
<1>1. CASE UNCHANGED steps
    BY <1>1
<1>2. ASSUME NEW q \in Runs, FlushScalars(q) PROVE steps[r] \subseteq steps'[r]
    BY <1>2 DEF FlushScalars, TypeInv, TypeOK
<1>3. ASSUME NEW C \in Chunks(fl.left), CopyScalars(C) PROVE steps[r] \subseteq steps'[r]
    BY <1>3 DEF CopyScalars, TypeInv, TypeOK
<1>4. CASE Backfill
    BY <1>4 DEF Backfill, TypeInv, TypeOK
<1>5. CASE UNCHANGED vars
    BY <1>5 DEF vars
<1>6. CASE SavePos \/ Crash
    BY <1>6 DEF SavePos, Crash, CrashAt
<1>7. CASE Browser
    BY <1>4, <1>7 DEF Browser, OpenPage, OpenProject, GetHistoryKeys, ReadClaim, ReadSteps,
        BackfillBusy, Recount, StoreRecount, StreamKey, KeepHistory, ShowHistory,
        Zoom, KeysFail, RequestFails, AnswerBreaks
<1>8. CASE Batch \/ Errors
    BY <1>8 DEF Batch, ReadLine, StartFlush, Errors, FlushScalarsFails, FlushHistogramsFails,
        FlushKeysFails, SetCountFails, ForkFails
<1>9. CASE Groups
    BY <1>2, <1>9 DEF Groups, FlushHistograms, CountSteps, FlushKeys, ScalarsDone,
        HistogramsDone, SetCount, StoreCount, CountersDone
<1>10. CASE Copy
    BY <1>3, <1>10 DEF Copy, ForkCheck, ForkInvalid, CopyKeys, CopyHistograms, CopyRunKeys,
        ForkCount, SetForkCount, ForksDone
<1>11. CASE Client
    BY <1>11 DEF Client, LogLine, BeginFork, ForkRow, ForkClaim, ForkAppend, ForkRefused, DeleteRun
<1> QED
    BY <1>5, <1>6, <1>7, <1>8, <1>9, <1>10, <1>11 DEF Next, Flusher

LEMMA StepsInvStep ==
    ASSUME TypeInv, StepsInv, [Next]_vars
    PROVE  StepsInv'
<1> SUFFICES ASSUME NEW r \in Runs, NEW c \in Cells, points'[r][c] # 0
             PROVE  c[1] \in steps'[r]
    BY DEF StepsInv, ScalarSteps, Stored
<1>1. points[r][c] # 0 => c[1] \in steps'[r]
    BY StepsGrow DEF StepsInv, ScalarSteps, Stored
<1>2. ASSUME NEW q \in Runs, FlushScalars(q), points[r][c] = 0
      PROVE  c[1] \in steps'[r]
  <2>1. r = q
      BY <1>2 DEF FlushScalars, AddScalars, TypeInv, TypeOK
  <2>2. points'[r][c] = InsertOrIgnore(points[r][c], ScalarLines(r, c))
      BY <1>2, <2>1 DEF FlushScalars, AddScalars, TypeInv, TypeOK
  <2>3. ScalarLines(r, c) # {}
      BY <2>2, <1>2 DEF InsertOrIgnore
  <2>4. c[1] \in StepsOf(r)
      BY <2>3 DEF ScalarLines, StepsOf
  <2> QED
      BY <1>2, <2>1, <2>4 DEF FlushScalars, TypeInv, TypeOK
<1>3. ASSUME NEW C \in Chunks(fl.left), CopyScalars(C), points[r][c] = 0
      PROVE  c[1] \in steps'[r]
    BY <1>3 DEF CopyScalars, TypeInv, TypeOK
<1>4. CASE UNCHANGED points
    BY <1>1, <1>4
<1>5. CASE (\E q \in Runs : FlushHistograms(q)) \/ CopyHistograms
    BY <1>4, <1>5 DEF FlushHistograms, CopyHistograms
<1> QED
    BY <1>1, <1>2, <1>3, <1>4, <1>5, WhoWrites

LEMMA BackfillAddsNothing ==
    ASSUME TypeInv, StepsInv, Backfill
    PROVE  UNCHANGED steps
<1>1. view.run \in Runs
    BY DEF Backfill, TypeInv, LocalsInv
<1>2. steps[view.run] \cup ScalarSteps(view.run) = steps[view.run]
    BY <1>1 DEF StepsInv
<1> QED
    BY <1>1, <1>2 DEF Backfill, TypeInv, TypeOK

(* Whose data the flusher carries at each step of a batch. *)
GroupsInv ==
    /\ saved <= pos
    /\ fl.pc \in {"scalars", "keys"} => fl.todo \subseteq ScalarRuns
    /\ fl.pc = "keys" => fl.run \in ScalarRuns /\ fl.keys = KeysOf(fl.run)
    /\ fl.pc \in {"counters", "setCount"} => fl.todo \subseteq CounterRuns
    /\ fl.pc = "setCount" => fl.run \in CounterRuns
    /\ fl.pc \in {"setCount", "setForkCount"} => fl.n = Cardinality(steps[fl.run])

LEMMA BatchStays ==
    ASSUME TypeOK, UNCHANGED batch, \A i \in 1..Len(log) : log'[i] = log[i]
    PROVE  /\ ScalarRuns' = ScalarRuns
           /\ CounterRuns' = CounterRuns
           /\ ForkLines' = ForkLines
           /\ \A r \in Runs : KeysOf(r)' = KeysOf(r)
<1>1. \A i \in batch : log'[i] = log[i]
    BY BatchLines
<1> QED
    BY <1>1 DEF ScalarRuns, CounterRuns, ForkLines, KeysOf, IsFork

LEMMA GroupsStay ==
    ASSUME TypeInv, GroupsInv, UNCHANGED <<fl, batch, pos>>,
           saved' = saved \/ saved' = pos,
           \A i \in 1..Len(log) : log'[i] = log[i],
           fl.pc \in {"setCount", "setForkCount"} => steps' = steps
    PROVE  GroupsInv'
<1>1. /\ ScalarRuns' = ScalarRuns /\ CounterRuns' = CounterRuns
      /\ fl.pc = "keys" => KeysOf(fl.run)' = KeysOf(fl.run)
    BY BatchStays DEF TypeInv, FlusherInv, RunPCs
<1>2. saved' <= pos'
    BY DEF TypeInv, TypeOK, GroupsInv
<1> QED
    BY <1>1, <1>2 DEF GroupsInv

LEMMA GroupsInvInit == Init => GroupsInv
BY DEF Init, GroupsInv, IdleFl

LEMMA LogGrows ==
    ASSUME TypeInv, [Next]_vars
    PROVE  /\ \A i \in 1..Len(log) : log'[i] = log[i]
           /\ Len(log) <= Len(log')
<1>1. ASSUME NEW l \in Rows \cup Forks, Appends(l)
      PROVE  /\ \A i \in 1..Len(log) : log'[i] = log[i]
             /\ Len(log) <= Len(log')
    BY <1>1, AppendKeepsLines DEF Appends, TypeInv, TypeOK
<1>2. CASE UNCHANGED log
    BY <1>2 DEF TypeInv, TypeOK
<1> QED
    BY <1>1, <1>2, WhatIsAppended DEF AppendsLine

LEMMA GroupsInvStep ==
    ASSUME TypeInv, StepsInv, GroupsInv, [Next]_vars
    PROVE  GroupsInv'
<1> USE DEF logVars, dbVars, ghosts, bounds
<1>0. \A i \in 1..Len(log) : log'[i] = log[i]
    BY LogGrows
<1>1. CASE UNCHANGED <<fl, batch, pos, saved, steps>>
    BY <1>0, <1>1, GroupsStay
<1>2. CASE UNCHANGED vars
    BY <1>1, <1>2 DEF vars
<1>3. CASE Client
    BY <1>1, <1>3
    DEF Client, LogLine, BeginFork, ForkRow, ForkClaim, ForkAppend, ForkRefused, DeleteRun
<1>4. CASE SavePos
    BY <1>0, <1>4, GroupsStay DEF SavePos
<1>5. CASE Browser
  <2>1. CASE Backfill
      BY <1>1, <2>1, BackfillAddsNothing DEF Backfill
  <2> QED
      BY <1>1, <1>5, <2>1 DEF Browser, OpenPage, OpenProject, GetHistoryKeys, ReadClaim,
         ReadSteps, BackfillBusy, Recount, StoreRecount, StreamKey, KeepHistory, ShowHistory,
         Zoom, KeysFail, RequestFails, AnswerBreaks
<1>6. ASSUME UNCHANGED <<batch, pos, saved>>,
             fl'.pc \in {"idle", "histograms", "forks", "copyScalars", "copyKeys", "copyRest",
                        "forkCount"}
      PROVE  GroupsInv'
    BY <1>6 DEF GroupsInv
<1>7. CASE Batch
  <2>1. CASE ReadLine
      BY <2>1 DEF ReadLine, GroupsInv, TypeInv, TypeOK
  <2>2. CASE StartFlush
    <3>1. fl'.pc = "scalars" /\ fl'.todo = Active(ScalarRuns) /\ UNCHANGED <<log, saved, pos, batch>>
        BY <2>2 DEF StartFlush, IdleFl
    <3>2. ScalarRuns' = ScalarRuns /\ Active(ScalarRuns) \subseteq ScalarRuns
        BY <3>1 DEF ScalarRuns, Active
    <3> QED
        BY <3>1, <3>2 DEF GroupsInv
  <2> QED
      BY <1>7, <2>1, <2>2 DEF Batch
<1>8. fl \in FlRecords
    BY DEF TypeInv, TypeOK, FlRecords
<1>9. UNCHANGED batch => /\ ScalarRuns' = ScalarRuns
                         /\ CounterRuns' = CounterRuns
                         /\ \A r \in Runs : KeysOf(r)' = KeysOf(r)
    BY <1>0, BatchStays DEF TypeInv
<1>10. CASE Groups
  <2>1. ASSUME NEW r \in Runs, FlushScalars(r) PROVE GroupsInv'
    <3>1. /\ fl'.pc = "keys" /\ fl'.run = r /\ fl'.keys = KeysOf(r)
          /\ fl'.todo \subseteq fl.todo /\ r \in fl.todo /\ fl.pc = "scalars"
          /\ UNCHANGED <<saved, pos, batch>>
        BY <1>8, <2>1 DEF FlushScalars, FlRecords
    <3> QED
        BY <1>9, <3>1 DEF GroupsInv
  <2>2. ASSUME NEW r \in Runs, FlushHistograms(r) PROVE GroupsInv'
    <3>1. fl'.pc = "histograms" /\ UNCHANGED <<saved, pos, batch>>
        BY <1>8, <2>2 DEF FlushHistograms, FlRecords
    <3> QED
        BY <1>6, <3>1
  <2>3. ASSUME NEW r \in Runs, CountSteps(r) PROVE GroupsInv'
    <3>1. /\ fl'.pc = "setCount" /\ fl'.run = r /\ fl'.n = Cardinality(steps[r])
          /\ fl'.todo \subseteq fl.todo /\ r \in fl.todo /\ fl.pc = "counters"
          /\ UNCHANGED <<saved, pos, batch, steps>>
        BY <1>8, <2>3 DEF CountSteps, FlRecords
    <3> QED
        BY <1>9, <3>1 DEF GroupsInv
  <2>4. CASE FlushKeys
    <3>1. /\ fl'.pc = "scalars" /\ fl'.todo = fl.todo /\ fl.pc = "keys"
          /\ UNCHANGED <<saved, pos, batch>>
        BY <1>8, <2>4 DEF FlushKeys, FlRecords
    <3> QED
        BY <1>9, <3>1 DEF GroupsInv
  <2>5. CASE ScalarsDone
    <3>1. fl'.pc = "histograms" /\ UNCHANGED <<saved, pos, batch>>
        BY <1>8, <2>5 DEF ScalarsDone, FlRecords
    <3> QED
        BY <1>6, <3>1
  <2>6. CASE HistogramsDone
    <3>1. /\ fl'.pc = "counters" /\ fl'.todo = Active(CounterRuns)
          /\ UNCHANGED <<saved, pos, batch>>
        BY <1>8, <2>6 DEF HistogramsDone, FlRecords
    <3>2. Active(CounterRuns) \subseteq CounterRuns
        BY DEF Active
    <3> QED
        BY <1>9, <3>1, <3>2 DEF GroupsInv
  <2>7. CASE SetCount
    <3>1. /\ fl'.pc = "counters" /\ fl'.todo = fl.todo /\ fl.pc = "setCount"
          /\ UNCHANGED <<saved, pos, batch>>
        BY <1>8, <2>7 DEF SetCount, StoreCount, FlRecords
    <3> QED
        BY <1>9, <3>1 DEF GroupsInv
  <2>8. CASE CountersDone
    <3>1. fl'.pc = "forks" /\ UNCHANGED <<saved, pos, batch>>
        BY <1>8, <2>8 DEF CountersDone, FlRecords
    <3> QED
        BY <1>6, <3>1
  <2> QED
      BY <1>10, <2>1, <2>2, <2>3, <2>4, <2>5, <2>6, <2>7, <2>8 DEF Groups
<1>11. CASE Copy
  <2>1. CASE \/ ForkCheck \/ ForkInvalid \/ (\E C \in Chunks(fl.left) : CopyScalars(C))
             \/ CopyKeys \/ CopyHistograms \/ CopyRunKeys \/ SetForkCount
    <3>1. /\ fl'.pc \in {"forks", "copyScalars", "copyKeys", "copyRest", "forkCount"}
          /\ UNCHANGED <<saved, pos, batch>>
        BY <1>8, <2>1 DEF ForkCheck, ForkInvalid, CopyScalars, CopyKeys, CopyHistograms,
           CopyRunKeys, SetForkCount, NextFork, IdleFl, FlRecords
    <3> QED
        BY <1>6, <3>1
  <2>2. CASE ForkCount
    <3>1. /\ fl'.pc = "setForkCount" /\ fl'.run = fl.run /\ fl'.n = Cardinality(steps[fl.run])
          /\ UNCHANGED <<saved, pos, batch, steps>>
        BY <1>8, <2>2 DEF ForkCount, FlRecords
    <3> QED
        BY <3>1 DEF GroupsInv
  <2>3. CASE ForksDone
      BY <2>3 DEF ForksDone, GroupsInv, IdleFl
  <2> QED
      BY <1>11, <2>1, <2>2, <2>3 DEF Copy
<1>12. CASE Errors
  <2>1. ASSUME NEW r \in Runs, FlushScalarsFails(r) PROVE GroupsInv'
    <3>1. /\ fl'.pc = "scalars" /\ fl.pc = "scalars" /\ fl'.todo \subseteq fl.todo
          /\ UNCHANGED <<saved, pos, batch>>
        BY <1>8, <2>1 DEF FlushScalarsFails, FlRecords
    <3> QED
        BY <1>9, <3>1 DEF GroupsInv
  <2>2. ASSUME NEW r \in Runs, FlushHistogramsFails(r) PROVE GroupsInv'
    <3>1. fl'.pc = "histograms" /\ UNCHANGED <<saved, pos, batch>>
        BY <1>8, <2>2 DEF FlushHistogramsFails, FlRecords
    <3> QED
        BY <1>6, <3>1
  <2>3. CASE FlushKeysFails
    <3>1. /\ fl'.pc = "scalars" /\ fl'.todo = fl.todo /\ fl.pc = "keys"
          /\ UNCHANGED <<saved, pos, batch>>
        BY <1>8, <2>3 DEF FlushKeysFails, FlRecords
    <3> QED
        BY <1>9, <3>1 DEF GroupsInv
  <2>4. CASE SetCountFails
    <3>1. /\ fl'.pc = "counters" /\ fl'.todo = fl.todo /\ fl.pc = "setCount"
          /\ UNCHANGED <<saved, pos, batch>>
        BY <1>8, <2>4 DEF SetCountFails, FlRecords
    <3> QED
        BY <1>9, <3>1 DEF GroupsInv
  <2>5. CASE ForkFails
      BY <1>6, <2>5 DEF ForkFails, NextFork, IdleFl
  <2> QED
      BY <1>12, <2>1, <2>2, <2>3, <2>4, <2>5 DEF Errors
<1>13. CASE Crash
    BY <1>13 DEF Crash, CrashAt, GroupsInv, IdleFl, TypeInv, TypeOK
<1> QED
    BY <1>2, <1>3, <1>4, <1>5, <1>7, <1>10, <1>11, <1>12, <1>13 DEF Next, Flusher

(* Whatever is in the log has a row, and rows stay. *)
RowInv ==
    /\ \A i \in 1..Len(log) : row[log[i].run] # "none"
    /\ rq.pc \in {"claim", "append"} => row[rq.run] # "none"

LEMMA RowInvInit == Init => RowInv
BY DEF Init, RowInv, IdleRq

LEMMA RowsStay ==
    ASSUME TypeInv, [Next]_vars, NEW r \in Runs, row[r] # "none"
    PROVE  row'[r] # "none"
<1> USE DEF logVars, dbVars, ghosts, bounds
<1>1. CASE ForkRow
    BY <1>1 DEF ForkRow, TypeInv, TypeOK
<1>2. CASE ForkInvalid
    BY <1>2 DEF ForkInvalid, TypeInv, TypeOK
<1>3. CASE UNCHANGED row
    BY <1>3
<1>4. CASE UNCHANGED vars
    BY <1>4 DEF vars
<1>5. CASE SavePos \/ Crash
    BY <1>5 DEF SavePos, Crash, CrashAt
<1>6. CASE Browser
    BY <1>6 DEF Browser, OpenPage, OpenProject, GetHistoryKeys, ReadClaim, ReadSteps, Backfill,
        BackfillBusy, Recount, StoreRecount, StreamKey, KeepHistory, ShowHistory,
        Zoom, KeysFail, RequestFails, AnswerBreaks
<1>7. CASE Batch \/ Errors
    BY <1>7 DEF Batch, ReadLine, StartFlush, Errors, FlushScalarsFails, FlushHistogramsFails,
        FlushKeysFails, SetCountFails, ForkFails
<1>8. CASE Groups
    BY <1>8 DEF Groups, FlushScalars, FlushHistograms, CountSteps, FlushKeys, ScalarsDone,
        HistogramsDone, SetCount, StoreCount, CountersDone
<1>9. CASE Copy
    BY <1>2, <1>9 DEF Copy, ForkCheck, CopyScalars, CopyKeys, CopyHistograms,
        CopyRunKeys, ForkCount, SetForkCount, ForksDone
<1>10. CASE Client
    BY <1>1, <1>10
    DEF Client, LogLine, BeginFork, ForkClaim, ForkAppend, ForkRefused, DeleteRun
<1> QED
    BY <1>4, <1>5, <1>6, <1>7, <1>8, <1>9, <1>10 DEF Next, Flusher

LEMMA WhoRequests ==
    ASSUME TypeInv, [Next]_vars
    PROVE  \/ UNCHANGED rq
           \/ rq'.pc \in {"idle", "row"}
           \/ ForkRow \/ ForkClaim
<1> USE DEF logVars, dbVars, ghosts, bounds
<1>1. ASSUME NEW r \in Runs, NEW parent \in Runs, NEW s \in Steps, BeginFork(r, parent, s)
      PROVE  rq'.pc = "row"
    BY <1>1 DEF BeginFork
<1>2. CASE ForkAppend \/ ForkRefused \/ Crash
    BY <1>2 DEF ForkAppend, ForkRefused, Crash, CrashAt, IdleRq
<1>3. CASE UNCHANGED vars
    BY <1>3 DEF vars
<1>4. CASE SavePos \/ (\E l \in Payloads : LogLine(l)) \/ (\E r \in Deletable : DeleteRun(r))
    BY <1>4 DEF SavePos, LogLine, DeleteRun
<1>5. CASE Browser
    BY <1>5 DEF Browser, OpenPage, OpenProject, GetHistoryKeys, ReadClaim, ReadSteps, Backfill,
        BackfillBusy, Recount, StoreRecount, StreamKey, KeepHistory, ShowHistory,
        Zoom, KeysFail, RequestFails, AnswerBreaks
<1>6. CASE Batch \/ Errors
    BY <1>6 DEF Batch, ReadLine, StartFlush, Errors, FlushScalarsFails, FlushHistogramsFails,
        FlushKeysFails, SetCountFails, ForkFails
<1>7. CASE Groups
    BY <1>7 DEF Groups, FlushScalars, FlushHistograms, CountSteps, FlushKeys, ScalarsDone,
        HistogramsDone, SetCount, StoreCount, CountersDone
<1>8. CASE Copy
    BY <1>8 DEF Copy, ForkCheck, ForkInvalid, CopyScalars, CopyKeys, CopyHistograms,
        CopyRunKeys, ForkCount, SetForkCount, ForksDone
<1> QED
    BY <1>1, <1>2, <1>3, <1>4, <1>5, <1>6, <1>7, <1>8 DEF Next, Client, Flusher

LEMMA RowInvStep ==
    ASSUME TypeInv, RowInv, [Next]_vars
    PROVE  RowInv'
<1> USE DEF logVars, dbVars, ghosts, bounds
<1>1. \A i \in 1..Len(log') : row'[log'[i].run] # "none"
  <2>1. ASSUME NEW i \in 1..Len(log) PROVE row'[log'[i].run] # "none"
      BY LogGrows, RowsStay, LineTypes DEF RowInv, TypeInv
  <2>2. CASE UNCHANGED log
      BY <2>1, <2>2
  <2>3. ASSUME NEW l \in Payloads, LogLine(l) PROVE <1>1
    <3>1. /\ Len(log') = Len(log) + 1 /\ log'[Len(log) + 1] = l
          /\ row' = row /\ row[l.run] # "none"
        BY <2>3, PayloadsAssumption, AppendKeepsLines DEF LogLine, LiveRow, TypeInv
    <3>2. Len(log) \in Nat
        BY DEF TypeInv, TypeOK
    <3> QED
        BY <2>1, <3>1, <3>2
  <2>4. CASE ForkAppend
    <3> DEFINE l == [run |-> rq.run, step |-> rq.upto, scalars |-> {},
                     histograms |-> {}, parent |-> rq.parent]
    <3>1. l \in Forks /\ l.run = rq.run
        BY <2>4 DEF ForkAppend, TypeInv, TypeOK, LocalsInv, Forks
    <3>2. log' = Append(log, l) /\ row' = row /\ rq.pc = "append"
        BY <2>4 DEF ForkAppend
    <3> HIDE DEF l
    <3>3. /\ Len(log') = Len(log) + 1 /\ log'[Len(log) + 1] = l
          /\ row'[l.run] # "none"
        BY <3>1, <3>2, AppendKeepsLines DEF RowInv, TypeInv
    <3>4. Len(log) \in Nat
        BY DEF TypeInv, TypeOK
    <3> QED
        BY <2>1, <3>3, <3>4
  <2> QED
      BY <2>2, <2>3, <2>4, WhoAppends
<1>2. rq'.pc \in {"claim", "append"} => row'[rq'.run] # "none"
  <2>1. CASE UNCHANGED rq
    <3>1. rq.pc \in {"claim", "append"} => rq.run \in Runs
        BY DEF TypeInv, LocalsInv
    <3> QED
        BY <2>1, <3>1, RowsStay DEF RowInv
  <2>2. CASE ForkRow
      BY <2>2 DEF ForkRow, TypeInv, TypeOK, LocalsInv
  <2>3. CASE ForkClaim
    <3>1. rq'.run = rq.run /\ rq.pc = "claim" /\ row' = row
        BY <2>3 DEF ForkClaim, TypeInv, TypeOK
    <3> QED
        BY <3>1 DEF RowInv
  <2> QED
      BY <2>1, <2>2, <2>3, WhoRequests
<1> QED
    BY <1>1, <1>2 DEF RowInv

(* Who will still store the count of a run: the fork that has announced one, a
   line the flusher has not read, or the flusher on its way to the run.  While
   a batch is collected and its groups are written every line of it counts;
   the count of the rows comes before the forks. *)
Announced(r) == rq.pc = "append" /\ rq.run = r

UnreadOf(r) == \E i \in Unread : log[i].run = r

EarlyPCs == {"idle", "scalars", "keys", "histograms"}

InHand(r) ==
    \/ fl.pc \in EarlyPCs /\ \E i \in batch : log[i].run = r
    \/ fl.pc \in {"counters", "setCount"} /\ r \in fl.todo
    \/ fl.pc \in {"counters", "setCount"} /\ \E i \in ForkLines : log[i].run = r
    \/ fl.pc = "setCount" /\ fl.run = r
    \/ fl.pc \in ForkPCs /\ \E i \in fl.todo : log[i].run = r

Owed(r) == Announced(r) \/ UnreadOf(r) \/ InHand(r)

Right(r) == hcount[r] = Cardinality(steps[r])

CountInv ==
    \A r \in Runs \ deleted : r \notin hurtCount \cup viewed => Right(r) \/ Owed(r)

CountAll == TypeInv /\ StepsInv /\ GroupsInv /\ RowInv /\ CountInv

LEMMA CountInvInit == Init => CountInv
<1>1. Cardinality({}) = 0
    BY FS_EmptySet
<1> QED
    BY <1>1 DEF Init, CountInv, Right

LEMMA StillBehind ==
    ASSUME NEW p \in Nat, NEW q \in Nat, NEW m \in Nat, NEW n \in Nat, q <= p, m <= n,
           NEW i \in p + 1 .. m
    PROVE  i \in q + 1 .. n
OBVIOUS

LEMMA UnreadStays ==
    ASSUME TypeInv, [Next]_vars, pos' <= pos, pos' \in Nat, NEW r, UnreadOf(r)
    PROVE  UnreadOf(r)'
<1>1. PICK i \in pos + 1 .. Len(log) : log[i].run = r
    BY DEF UnreadOf, Unread
<1>2. TypeInv'
    BY TypeInvStep
<1>3. Len(log') \in Nat /\ Len(log) \in Nat /\ pos \in Nat
  <2>1. log' \in Seq(Rows \cup Forks)
      BY <1>2 DEF TypeInv, TypeOK
  <2>2. Len(log) \in Nat /\ pos \in Nat
      BY DEF TypeInv, TypeOK
  <2> QED
      BY <2>1, <2>2
<1>4. i \in 1..Len(log)
    BY <1>1, <1>3
<1>5. log'[i] = log[i] /\ Len(log) <= Len(log')
    BY <1>4, LogGrows
<1>6. i \in pos' + 1 .. Len(log')
    BY <1>1, <1>3, <1>5, StillBehind
<1> QED
    BY <1>1, <1>5, <1>6 DEF UnreadOf, Unread

LEMMA InHandStays ==
    ASSUME TypeInv, [Next]_vars, UNCHANGED <<fl, batch>>, NEW r, InHand(r)
    PROVE  InHand(r)'
<1>1. ForkLines' = ForkLines
    BY LogGrows, BatchStays DEF TypeInv
<1>2. \A i \in batch : log'[i] = log[i]
    BY LogGrows, BatchLines DEF TypeInv
<1>3. fl.pc \in ForkPCs => fl.todo \subseteq batch
    BY DEF TypeInv, FlusherInv, ForkLines
<1>4. \A i \in ForkLines : i \in batch
    BY DEF ForkLines
<1> QED
    BY <1>1, <1>2, <1>3, <1>4 DEF InHand

LEMMA DeletedStays ==
    ASSUME [Next]_vars
    PROVE  deleted \subseteq deleted'
<1> USE DEF logVars, dbVars, ghosts, bounds
<1>1. CASE UNCHANGED vars
    BY <1>1 DEF vars
<1>2. CASE SavePos \/ Crash
    BY <1>2 DEF SavePos, Crash, CrashAt
<1>3. CASE Browser
    BY <1>3 DEF Browser, OpenPage, OpenProject, GetHistoryKeys, ReadClaim, ReadSteps, Backfill,
        BackfillBusy, Recount, StoreRecount, StreamKey, KeepHistory, ShowHistory,
        Zoom, KeysFail, RequestFails, AnswerBreaks
<1>4. CASE Batch \/ Errors
    BY <1>4 DEF Batch, ReadLine, StartFlush, Errors, FlushScalarsFails, FlushHistogramsFails,
        FlushKeysFails, SetCountFails, ForkFails
<1>5. CASE Groups
    BY <1>5 DEF Groups, FlushScalars, FlushHistograms, CountSteps, FlushKeys, ScalarsDone,
        HistogramsDone, SetCount, StoreCount, CountersDone
<1>6. CASE Copy
    BY <1>6 DEF Copy, ForkCheck, ForkInvalid, CopyScalars, CopyKeys, CopyHistograms,
        CopyRunKeys, ForkCount, SetForkCount, ForksDone
<1>7. CASE Client
    BY <1>7 DEF Client, LogLine, BeginFork, ForkRow, ForkClaim, ForkAppend, ForkRefused, DeleteRun
<1> QED
    BY <1>1, <1>2, <1>3, <1>4, <1>5, <1>6, <1>7 DEF Next, Flusher

(* A step that stores no count and changes no steps, and drops nobody. *)
LEMMA CountStays ==
    ASSUME CountInv, [Next]_vars, UNCHANGED <<hcount, steps>>,
           hurtCount \subseteq hurtCount', viewed \subseteq viewed',
           \A r \in Runs : Owed(r) => Owed(r)' \/ r \in hurtCount' \/ r \in deleted
    PROVE  CountInv'
BY DeletedStays DEF CountInv, Right

(* A step of somebody else than the flusher and the requests. *)
LEMMA CountElsewhere ==
    ASSUME TypeInv, CountInv, [Next]_vars, UNCHANGED <<hcount, steps, hurtCount, fl, batch, pos, rq>>,
           viewed \subseteq viewed'
    PROVE  CountInv'
<1>1. pos' <= pos /\ pos' \in Nat
    BY DEF TypeInv, TypeOK
<1>2. \A r \in Runs : Owed(r) => Owed(r)'
    BY <1>1, UnreadStays, InHandStays DEF Owed, Announced
<1> QED
    BY <1>2, CountStays

LEMMA CountClient == ASSUME CountAll, [Next]_vars, Client PROVE CountInv'
<1> USE DEF logVars, dbVars, ghosts, bounds, CountAll
<1>1. CASE \/ \E l \in Payloads : LogLine(l)
           \/ \E r \in Deletable : DeleteRun(r)
    BY <1>1, CountElsewhere DEF LogLine, DeleteRun
<1>2. ASSUME UNCHANGED <<pos, fl, batch>>, NEW r \in Runs, UnreadOf(r) \/ InHand(r)
      PROVE  Owed(r)'
  <2>1. pos' <= pos /\ pos' \in Nat
      BY <1>2 DEF TypeInv, TypeOK
  <2> QED
      BY <1>2, <2>1, UnreadStays, InHandStays DEF Owed
<1>3. CASE ForkRow \/ (\E r, parent \in Runs, s \in Steps : BeginFork(r, parent, s))
  <2>1. rq.pc # "append"
      BY <1>3 DEF ForkRow, BeginFork, IdleRq
  <2>2. UNCHANGED <<hcount, steps, hurtCount, viewed, pos, fl, batch>>
      BY <1>3 DEF ForkRow, BeginFork
  <2>3. \A r \in Runs : Owed(r) => Owed(r)'
      BY <1>2, <2>1, <2>2 DEF Owed, Announced
  <2> QED
      BY <2>2, <2>3, CountStays
<1>4. CASE ForkClaim
  <2>1. /\ rq.pc = "claim" /\ rq'.pc = "append" /\ rq'.run = rq.run
        /\ hcount' = [hcount EXCEPT ![rq.run] = rq.upto + 1]
        /\ UNCHANGED <<steps, deleted, hurtCount, viewed, pos, fl, batch>>
      BY <1>4 DEF ForkClaim, TypeInv, TypeOK
  <2>2. ASSUME NEW r \in Runs \ deleted, r \notin hurtCount \cup viewed
        PROVE  Right(r)' \/ Owed(r)'
    <3>1. CASE r = rq.run
        BY <2>1, <3>1 DEF Owed, Announced
    <3>2. CASE r # rq.run /\ Right(r)
        BY <2>1, <3>2 DEF Right, TypeInv, TypeOK
    <3>3. CASE Owed(r)
        BY <1>2, <2>1, <3>3 DEF Owed, Announced
    <3> QED
        BY <2>2, <3>1, <3>2, <3>3 DEF CountInv
  <2> QED
      BY <2>1, <2>2 DEF CountInv
<1>5. CASE ForkAppend
  <2> DEFINE l == [run |-> rq.run, step |-> rq.upto, scalars |-> {},
                   histograms |-> {}, parent |-> rq.parent]
  <2>1. l \in Forks /\ l.run = rq.run
      BY <1>5 DEF ForkAppend, TypeInv, TypeOK, LocalsInv, Forks
  <2>2. log' = Append(log, l)
        /\ UNCHANGED <<hcount, steps, hurtCount, viewed, pos, fl, batch>>
      BY <1>5 DEF ForkAppend
  <2> HIDE DEF l
  <2>3. Len(log') = Len(log) + 1 /\ log'[Len(log) + 1] = l
      BY <2>1, <2>2, AppendKeepsLines
  <2>4. Len(log) + 1 \in pos + 1 .. Len(log) + 1
      BY DEF TypeInv, TypeOK
  <2>5. ASSUME NEW r \in Runs, r = rq.run PROVE UnreadOf(r)'
    <3>1. /\ Len(log) + 1 \in pos' + 1 .. Len(log')
          /\ log'[Len(log) + 1].run = r
        BY <2>1, <2>2, <2>3, <2>4, <2>5
    <3> QED
        BY <3>1 DEF UnreadOf, Unread
  <2>6. \A r \in Runs : Owed(r) => Owed(r)'
      BY <1>2, <2>2, <2>5 DEF Owed, Announced
  <2> QED
      BY <2>2, <2>6, CountStays
<1>6. CASE ForkRefused
  <2>1. /\ UNCHANGED <<hcount, steps, viewed, pos, fl, batch>>
        /\ hurtCount' = hurtCount \cup {rq.run}
      BY <1>6 DEF ForkRefused
  <2>2. \A r \in Runs : Owed(r) => Owed(r)' \/ r \in hurtCount'
      BY <1>2, <2>1 DEF Owed, Announced
  <2> QED
      BY <2>1, <2>2, CountStays
<1> QED
    BY <1>1, <1>3, <1>4, <1>5, <1>6 DEF Client

LEMMA CountBrowser == ASSUME CountAll, [Next]_vars, Browser PROVE CountInv'
<1> USE DEF logVars, dbVars, ghosts, bounds, CountAll
<1>1. CASE StoreRecount
  <2>1. /\ view.run \in Runs
        /\ hcount' = [hcount EXCEPT ![view.run] = view.n]
        /\ viewed' = viewed \cup {view.run}
        /\ UNCHANGED <<log, steps, deleted, hurtCount, pos, fl, batch, rq>>
      BY <1>1 DEF StoreRecount, TypeInv, LocalsInv
  <2>2. ASSUME NEW r \in Runs \ deleted, r \notin hurtCount \cup viewed'
        PROVE  Right(r)' \/ Owed(r)'
    <3>1. Right(r) \/ Owed(r)
        BY <2>1, <2>2 DEF CountInv
    <3>2. CASE Right(r)
        BY <2>1, <2>2, <3>2 DEF Right, TypeInv, TypeOK
    <3>3. CASE Owed(r)
        BY <2>1, <3>3 DEF Owed, Announced, UnreadOf, Unread, InHand, ForkLines, IsFork
    <3> QED
        BY <3>1, <3>2, <3>3
  <2> QED
      BY <2>1, <2>2 DEF CountInv
<1>2. CASE Backfill
    BY <1>2, BackfillAddsNothing, CountElsewhere DEF Backfill
<1>3. CASE ~StoreRecount /\ ~Backfill
    BY <1>3, CountElsewhere DEF Browser, OpenPage, OpenProject, GetHistoryKeys, ReadClaim,
       ReadSteps, BackfillBusy, Recount, StreamKey, KeepHistory, ShowHistory,
       Zoom, KeysFail, RequestFails, AnswerBreaks
<1> QED
    BY <1>1, <1>2, <1>3

(* A step of the flusher that leaves log, position and requests alone. *)
LEMMA OwedByFlusher ==
    ASSUME UNCHANGED <<log, pos, rq>>, NEW r, Owed(r), InHand(r) => InHand(r)'
    PROVE  Owed(r)'
BY DEF Owed, Announced, UnreadOf, Unread

LEMMA CountBatch == ASSUME CountAll, [Next]_vars, Batch \/ SavePos PROVE CountInv'
<1> USE DEF logVars, dbVars, ghosts, bounds, CountAll
<1>1. CASE ReadLine
  <2>1. /\ fl.pc = "idle" /\ pos < Len(log) /\ pos' = pos + 1
        /\ batch' = batch \cup {pos + 1}
        /\ UNCHANGED <<log, hcount, steps, hurtCount, viewed, fl, rq>>
      BY <1>1 DEF ReadLine
  <2>2. ASSUME NEW r \in Runs, Owed(r) PROVE Owed(r)'
    <3>1. CASE UnreadOf(r)
      <4>1. PICK i \in pos + 1 .. Len(log) : log[i].run = r
          BY <3>1 DEF UnreadOf, Unread
      <4>2. i = pos + 1 \/ i \in pos + 2 .. Len(log)
          BY DEF TypeInv, TypeOK
      <4>3. CASE i = pos + 1
          BY <2>1, <4>1, <4>3 DEF Owed, InHand, EarlyPCs
      <4>4. CASE i \in pos + 2 .. Len(log)
        <5>1. i \in pos' + 1 .. Len(log')
            BY <2>1, <4>4 DEF TypeInv, TypeOK
        <5> QED
            BY <2>1, <4>1, <5>1 DEF Owed, UnreadOf, Unread
      <4> QED
          BY <4>2, <4>3, <4>4
    <3>2. CASE InHand(r)
        BY <2>1, <3>2 DEF Owed, InHand, EarlyPCs, ForkPCs, CopyPCs
    <3>3. CASE Announced(r)
        BY <2>1, <3>3 DEF Owed, Announced
    <3> QED
        BY <2>2, <3>1, <3>2, <3>3 DEF Owed
  <2> QED
      BY <2>1, <2>2, CountStays
<1>2. CASE StartFlush
  <2>1. /\ fl.pc = "idle" /\ fl'.pc = "scalars"
        /\ UNCHANGED <<log, pos, batch, hcount, steps, hurtCount, viewed, rq>>
      BY <1>2 DEF StartFlush, IdleFl
  <2>2. \A r \in Runs : InHand(r) => InHand(r)'
      BY <2>1 DEF InHand, EarlyPCs, ForkPCs, CopyPCs
  <2> QED
      BY <2>1, <2>2, OwedByFlusher, CountStays
<1>3. CASE SavePos
    BY <1>3, CountElsewhere DEF SavePos
<1> QED
    BY <1>1, <1>2, <1>3 DEF Batch

LEMMA CountGroups == ASSUME CountAll, [Next]_vars, Groups PROVE CountInv'
<1> USE DEF logVars, dbVars, ghosts, bounds, CountAll
<1>0. fl \in FlRecords
    BY DEF TypeInv, TypeOK, FlRecords
<1>1. ASSUME NEW q \in Runs, FlushScalars(q) PROVE CountInv'
  <2>1. /\ fl.pc = "scalars" /\ fl'.pc = "keys" /\ q \in fl.todo
        /\ steps' = [steps EXCEPT ![q] = @ \cup StepsOf(q)]
        /\ UNCHANGED <<log, pos, batch, deleted, hcount, hurtCount, viewed, rq>>
      BY <1>0, <1>1 DEF FlushScalars, FlRecords
  <2>2. \E i \in batch : log[i].run = q
      BY <2>1 DEF GroupsInv, ScalarRuns
  <2>3. \A r \in Runs : InHand(r) => InHand(r)'
      BY <2>1 DEF InHand, EarlyPCs, ForkPCs, CopyPCs
  <2>4. ASSUME NEW r \in Runs \ deleted, r \notin hurtCount \cup viewed
        PROVE  Right(r)' \/ Owed(r)'
    <3>1. CASE r = q
        BY <2>1, <2>2, <3>1 DEF Owed, InHand, EarlyPCs
    <3>2. CASE r # q /\ Right(r)
        BY <2>1, <3>2 DEF Right, TypeInv, TypeOK
    <3>3. CASE Owed(r)
        BY <2>1, <2>3, <3>3, OwedByFlusher
    <3> QED
        BY <2>4, <3>1, <3>2, <3>3 DEF CountInv
  <2> QED
      BY <2>1, <2>4 DEF CountInv
<1>2. ASSUME NEW q \in Runs, FlushHistograms(q) PROVE CountInv'
  <2>1. /\ fl.pc = "histograms" /\ fl'.pc = "histograms"
        /\ UNCHANGED <<log, pos, batch, hcount, steps, hurtCount, viewed, rq>>
      BY <1>0, <1>2 DEF FlushHistograms, FlRecords
  <2>2. \A r \in Runs : InHand(r) => InHand(r)'
      BY <2>1 DEF InHand, EarlyPCs, ForkPCs, CopyPCs
  <2> QED
      BY <2>1, <2>2, OwedByFlusher, CountStays
<1>3. ASSUME NEW q \in Runs, CountSteps(q) PROVE CountInv'
  <2>1. /\ fl.pc = "counters" /\ fl'.pc = "setCount" /\ fl'.run = q
        /\ fl'.todo = fl.todo \ {q}
        /\ UNCHANGED <<log, pos, batch, hcount, steps, hurtCount, viewed, rq>>
      BY <1>0, <1>3 DEF CountSteps, FlRecords
  <2>2. ForkLines' = ForkLines
      BY <2>1 DEF ForkLines, IsFork
  <2>3. \A r \in Runs : InHand(r) => InHand(r)'
      BY <2>1, <2>2 DEF InHand, EarlyPCs, ForkPCs, CopyPCs
  <2> QED
      BY <2>1, <2>3, OwedByFlusher, CountStays
<1>4. CASE FlushKeys
  <2>1. /\ fl.pc = "keys" /\ fl'.pc = "scalars"
        /\ UNCHANGED <<log, pos, batch, hcount, steps, hurtCount, viewed, rq>>
      BY <1>0, <1>4 DEF FlushKeys, FlRecords
  <2>2. \A r \in Runs : InHand(r) => InHand(r)'
      BY <2>1 DEF InHand, EarlyPCs, ForkPCs, CopyPCs
  <2> QED
      BY <2>1, <2>2, OwedByFlusher, CountStays
<1>5. CASE ScalarsDone
  <2>1. /\ fl.pc = "scalars" /\ fl'.pc = "histograms"
        /\ UNCHANGED <<log, pos, batch, hcount, steps, hurtCount, viewed, rq>>
      BY <1>0, <1>5 DEF ScalarsDone, FlRecords
  <2>2. \A r \in Runs : InHand(r) => InHand(r)'
      BY <2>1 DEF InHand, EarlyPCs, ForkPCs, CopyPCs
  <2> QED
      BY <2>1, <2>2, OwedByFlusher, CountStays
<1>6. CASE HistogramsDone
  <2>1. /\ fl.pc = "histograms" /\ fl'.pc = "counters" /\ fl'.todo = Active(CounterRuns)
        /\ UNCHANGED <<log, pos, batch, deleted, hcount, steps, hurtCount, viewed, rq>>
      BY <1>0, <1>6 DEF HistogramsDone, FlRecords
  <2>2. ForkLines' = ForkLines
      BY <2>1 DEF ForkLines, IsFork
  <2>3. ASSUME NEW r \in Runs \ deleted, InHand(r) PROVE InHand(r)'
    <3>1. PICK i \in batch : log[i].run = r
        BY <2>1, <2>3 DEF InHand, ForkPCs, CopyPCs
    <3>2. CASE IsFork(i)
        BY <2>1, <2>2, <3>1, <3>2 DEF InHand, ForkLines
    <3>3. CASE ~IsFork(i)
      <4>1. row[r] # "none"
          BY <3>1, BatchLines DEF RowInv, TypeInv
      <4>2. r \in Active(CounterRuns)
          BY <2>3, <3>1, <3>3, <4>1 DEF Active, LiveRow, CounterRuns
      <4> QED
          BY <2>1, <4>2 DEF InHand
    <3> QED
        BY <3>2, <3>3
  <2>4. \A r \in Runs \ deleted : Owed(r) => Owed(r)'
      BY <2>1, <2>3, OwedByFlusher
  <2> QED
      BY <2>1, <2>4, CountStays
<1>7. CASE SetCount
  <2>1. /\ fl.pc = "setCount" /\ fl'.pc = "counters" /\ fl'.todo = fl.todo
        /\ hcount' = [hcount EXCEPT ![fl.run] = fl.n]
        /\ hurtCount' = hurtCount \ {fl.run}
        /\ viewed' = viewed \ {fl.run}
        /\ UNCHANGED <<log, pos, batch, deleted, steps, rq>>
      BY <1>0, <1>7 DEF SetCount, StoreCount, NewCount, FlRecords
  <2>2. ForkLines' = ForkLines
      BY <2>1 DEF ForkLines, IsFork
  <2>3. ASSUME NEW r \in Runs \ deleted, r \notin hurtCount' \cup viewed'
        PROVE  Right(r)' \/ Owed(r)'
    <3>1. CASE r = fl.run
        BY <2>1, <3>1 DEF Right, GroupsInv, TypeInv, TypeOK
    <3>2. CASE r # fl.run /\ Right(r)
        BY <2>1, <3>2 DEF Right, TypeInv, TypeOK
    <3>3. CASE r # fl.run /\ Owed(r)
      <4>1. InHand(r) => InHand(r)'
          BY <2>1, <2>2, <3>3 DEF InHand, EarlyPCs, ForkPCs, CopyPCs
      <4> QED
          BY <2>1, <3>3, <4>1, OwedByFlusher
    <3> QED
        BY <2>1, <2>3, <3>1, <3>2, <3>3 DEF CountInv
  <2> QED
      BY <2>1, <2>3 DEF CountInv
<1>8. CASE CountersDone
  <2>1. /\ fl.pc = "counters" /\ fl.todo = {} /\ fl'.pc = "forks" /\ fl'.todo = ForkLines
        /\ UNCHANGED <<log, pos, batch, hcount, steps, hurtCount, viewed, rq>>
      BY <1>0, <1>8 DEF CountersDone, FlRecords
  <2>2. \A r \in Runs : InHand(r) => InHand(r)'
      BY <2>1 DEF InHand, EarlyPCs, ForkPCs, CopyPCs
  <2> QED
      BY <2>1, <2>2, OwedByFlusher, CountStays
<1> QED
    BY <1>1, <1>2, <1>3, <1>4, <1>5, <1>6, <1>7, <1>8 DEF Groups

(* The fork at hand is forgotten: only the count of its run may change, and then
   it is right or known to be wrong. *)
LEMMA CountNextFork ==
    ASSUME CountAll, [Next]_vars, fl.pc \in ForkPCs, fl.todo # {}, fl' = NextFork,
           UNCHANGED <<log, pos, batch, rq, steps>>,
           \A r \in Runs \ {log[ForkLine].run} :
               /\ hcount'[r] = hcount[r]
               /\ r \in hurtCount \cup viewed => r \in hurtCount' \cup viewed',
           \/ log[ForkLine].run \in hurtCount'
           \/ hcount'[log[ForkLine].run] = Cardinality(steps[log[ForkLine].run])
    PROVE  CountInv'
<1> USE DEF CountAll
<1>1. fl'.pc = "forks" /\ fl'.todo = fl.todo \ {ForkLine}
    BY NextForkTypes
<1>2. ASSUME NEW r \in Runs \ deleted', r \notin hurtCount' \cup viewed'
      PROVE  Right(r)' \/ Owed(r)'
  <2>1. r \notin deleted
      BY <1>2, DeletedStays
  <2>2. CASE r = log[ForkLine].run
      BY <1>2, <2>2 DEF Right
  <2>3. CASE r # log[ForkLine].run /\ Right(r)
      BY <2>3 DEF Right
  <2>4. CASE r # log[ForkLine].run /\ Owed(r)
    <3>1. InHand(r) => InHand(r)'
        BY <1>1, <2>4 DEF InHand, EarlyPCs, ForkPCs, CopyPCs
    <3> QED
        BY <2>4, <3>1, OwedByFlusher
  <2> QED
      BY <1>2, <2>1, <2>2, <2>3, <2>4 DEF CountInv
<1> QED
    BY <1>2 DEF CountInv

LEMMA CountCopy == ASSUME CountAll, [Next]_vars, Copy PROVE CountInv'
<1> USE DEF logVars, dbVars, ghosts, bounds, CountAll
<1>0. fl \in FlRecords
    BY DEF TypeInv, TypeOK, FlRecords
<1>1. ASSUME fl.pc \in ForkPCs, fl'.pc \in ForkPCs, fl'.todo = fl.todo,
             UNCHANGED <<log, pos, batch, rq>>
      PROVE  \A r \in Runs : Owed(r) => Owed(r)'
  <2>1. \A r \in Runs : InHand(r) => InHand(r)'
      BY <1>1 DEF InHand, EarlyPCs, ForkPCs, CopyPCs
  <2> QED
      BY <1>1, <2>1, OwedByFlusher
<1>2. CASE ForkCheck \/ CopyKeys \/ CopyHistograms \/ CopyRunKeys \/ ForkCount
  <2>1. /\ fl.pc \in ForkPCs /\ fl'.pc \in ForkPCs /\ fl'.todo = fl.todo
        /\ UNCHANGED <<log, pos, batch, rq>>
      BY <1>0, <1>2 DEF ForkCheck, CopyKeys, CopyHistograms, CopyRunKeys, ForkCount,
         ForkPCs, CopyPCs, FlRecords
  <2>2. UNCHANGED <<hcount, steps, hurtCount, viewed>>
      BY <1>2 DEF ForkCheck, CopyKeys, CopyHistograms, CopyRunKeys, ForkCount
  <2> QED
      BY <1>1, <2>1, <2>2, CountStays
<1>3. ASSUME NEW C \in Chunks(fl.left), CopyScalars(C) PROVE CountInv'
  <2>1. /\ fl.pc = "copyScalars" /\ fl'.pc = "copyKeys" /\ fl'.todo = fl.todo
        /\ steps' = [steps EXCEPT ![fl.run] = @ \cup {c[1] : c \in C}]
        /\ UNCHANGED <<log, pos, batch, rq, deleted, hcount, hurtCount, viewed>>
      BY <1>0, <1>3 DEF CopyScalars, FlRecords
  <2>2. /\ fl.pc \in ForkPCs /\ fl'.pc \in ForkPCs /\ fl.todo # {}
        /\ fl.run = log[ForkLine].run
      BY <2>1 DEF ForkPCs, CopyPCs, TypeInv, FlusherInv
  <2>3. ForkLine \in fl.todo
      BY <2>2, ForkAtHand
  <2>4. ASSUME NEW r \in Runs \ deleted, r \notin hurtCount \cup viewed
        PROVE  Right(r)' \/ Owed(r)'
    <3>1. CASE r = fl.run
      <4>1. fl'.pc \in ForkPCs /\ ForkLine \in fl'.todo /\ log'[ForkLine].run = r
          BY <2>1, <2>2, <2>3, <3>1
      <4> QED
          BY <4>1 DEF Owed, InHand
    <3>2. CASE r # fl.run /\ Right(r)
        BY <2>1, <3>2 DEF Right, TypeInv, TypeOK
    <3>3. CASE Owed(r)
        BY <1>1, <2>1, <2>2, <3>3
    <3> QED
        BY <2>4, <3>1, <3>2, <3>3 DEF CountInv
  <2> QED
      BY <2>1, <2>4 DEF CountInv
<1>4. CASE ForkInvalid
  <2>1. /\ fl.pc \in ForkPCs /\ fl.todo # {} /\ fl' = NextFork
        /\ UNCHANGED <<log, pos, batch, rq, hcount, steps, viewed>>
        /\ hurtCount' = hurtCount \cup {log[ForkLine].run}
      BY <1>4 DEF ForkInvalid, ForkPCs
  <2> QED
      BY <2>1, CountNextFork
<1>5. CASE SetForkCount
  <2>1. /\ fl.pc = "setForkCount" /\ fl' = NextFork
        /\ UNCHANGED <<log, pos, batch, rq, steps>>
        /\ hcount' = [hcount EXCEPT ![fl.run] = fl.n]
        /\ hurtCount' = hurtCount \ {fl.run}
        /\ viewed' = viewed \ {fl.run}
      BY <1>5 DEF SetForkCount
  <2>2. /\ fl.pc \in ForkPCs /\ fl.todo # {} /\ fl.run = log[ForkLine].run
        /\ fl.run \in Runs /\ fl.n = Cardinality(steps[fl.run])
      BY <2>1 DEF ForkPCs, CopyPCs, RunPCs, TypeInv, FlusherInv, GroupsInv
  <2>3. hcount'[fl.run] = Cardinality(steps[fl.run])
      BY <2>1, <2>2 DEF TypeInv, TypeOK
  <2>4. \A r \in Runs \ {log[ForkLine].run} :
            /\ hcount'[r] = hcount[r]
            /\ r \in hurtCount \cup viewed => r \in hurtCount' \cup viewed'
      BY <2>1, <2>2 DEF TypeInv, TypeOK
  <2> QED
      BY <2>1, <2>2, <2>3, <2>4, CountNextFork
<1>6. CASE ForksDone
  <2>1. /\ fl.pc = "forks" /\ fl.todo = {}
        /\ UNCHANGED <<log, pos, rq, hcount, steps, hurtCount, viewed>>
      BY <1>6 DEF ForksDone
  <2>2. \A r \in Runs : ~InHand(r)
      BY <2>1 DEF InHand, EarlyPCs
  <2>3. \A r \in Runs : Owed(r) => Owed(r)'
      BY <2>1, <2>2, OwedByFlusher
  <2> QED
      BY <2>1, <2>3, CountStays
<1> QED
    BY <1>2, <1>3, <1>4, <1>5, <1>6 DEF Copy

LEMMA CountErrors == ASSUME CountAll, [Next]_vars, Errors PROVE CountInv'
<1> USE DEF logVars, dbVars, ghosts, bounds, CountAll
<1>0. fl \in FlRecords
    BY DEF TypeInv, TypeOK, FlRecords
<1>1. CASE \/ \E r \in Runs : FlushScalarsFails(r) \/ FlushHistogramsFails(r)
           \/ FlushKeysFails
  <2>1. /\ fl.pc \in EarlyPCs \ {"idle"} /\ fl'.pc \in EarlyPCs
        /\ UNCHANGED <<log, pos, batch, rq, hcount, steps, hurtCount, viewed>>
      BY <1>0, <1>1
      DEF FlushScalarsFails, FlushHistogramsFails, FlushKeysFails, FlRecords, EarlyPCs
  <2>2. \A r \in Runs : InHand(r) => InHand(r)'
      BY <2>1 DEF InHand, EarlyPCs, ForkPCs, CopyPCs
  <2> QED
      BY <2>1, <2>2, OwedByFlusher, CountStays
<1>2. CASE SetCountFails
  <2>1. /\ fl.pc = "setCount" /\ fl'.pc = "counters" /\ fl'.todo = fl.todo
        /\ hurtCount' = hurtCount \cup {fl.run}
        /\ UNCHANGED <<log, pos, batch, rq, hcount, steps, viewed>>
      BY <1>0, <1>2 DEF SetCountFails, FlRecords
  <2>2. ForkLines' = ForkLines
      BY <2>1 DEF ForkLines, IsFork
  <2>3. ASSUME NEW r \in Runs, Owed(r), r # fl.run PROVE Owed(r)'
    <3>1. InHand(r) => InHand(r)'
        BY <2>1, <2>2, <2>3 DEF InHand, EarlyPCs, ForkPCs, CopyPCs
    <3> QED
        BY <2>1, <2>3, <3>1, OwedByFlusher
  <2> QED
      BY <2>1, <2>3, CountStays
<1>3. CASE ForkFails
  <2>1. /\ fl.pc \in ForkPCs /\ fl.todo # {} /\ fl' = NextFork
        /\ UNCHANGED <<log, pos, batch, rq, hcount, steps, viewed>>
        /\ hurtCount' = hurtCount \cup {log[ForkLine].run}
      BY <1>3 DEF ForkFails, ForkPCs, CopyPCs
  <2> QED
      BY <2>1, CountNextFork
<1> QED
    BY <1>1, <1>2, <1>3 DEF Errors

(* A crash forgets the batch: its lines are read again, or their runs are known
   to have a wrong count. *)
LEMMA CountCrash == ASSUME CountAll, [Next]_vars, Crash PROVE CountInv'
<1> USE DEF logVars, dbVars, ghosts, bounds, CountAll
<1>0. PICK s \in 0..saved : CrashAt(s)
    BY DEF Crash
<1>1. /\ pos' = s /\ UNCHANGED <<log, hcount, steps, viewed>>
      /\ hurtCount' = hurtCount \cup {log[i].run : i \in {j \in batch : j <= s}}
                                \cup IF rq.pc = "append" THEN {rq.run} ELSE {}
    BY <1>0 DEF CrashAt
<1>2. s \in Nat /\ pos \in Nat /\ s <= pos
    BY DEF TypeInv, TypeOK, GroupsInv
<1>3. ASSUME NEW i \in batch, log[i].run \notin hurtCount'
      PROVE  UnreadOf(log[i].run)'
  <2>1. i \in 1..Len(log)
      BY BatchLines DEF TypeInv
  <2>2. ~(i <= s)
      BY <1>1, <1>3
  <2>3. i \in s + 1 .. Len(log)
      BY <1>2, <2>1, <2>2
  <2> QED
      BY <1>1, <2>3 DEF UnreadOf, Unread
<1>4. ASSUME NEW r \in Runs, InHand(r) PROVE \E i \in batch : log[i].run = r
  <2>1. fl.pc \in ForkPCs => fl.todo \subseteq batch
      BY DEF TypeInv, FlusherInv, ForkLines
  <2> QED
      BY <1>4, <2>1 DEF InHand, EarlyPCs, GroupsInv, CounterRuns, ForkLines
<1>5. ASSUME NEW r \in Runs, UnreadOf(r) PROVE UnreadOf(r)'
    BY <1>1, <1>2, <1>5, UnreadStays
<1>6. \A r \in Runs : Owed(r) => Owed(r)' \/ r \in hurtCount'
    BY <1>1, <1>3, <1>4, <1>5 DEF Owed, Announced
<1> QED
    BY <1>1, <1>6, CountStays

LEMMA CountAllStep == CountAll /\ [Next]_vars => CountAll'
<1> SUFFICES ASSUME CountAll, [Next]_vars PROVE CountAll'
    OBVIOUS
<1>1. TypeInv' /\ StepsInv' /\ GroupsInv' /\ RowInv'
    BY TypeInvStep, StepsInvStep, GroupsInvStep, RowInvStep DEF CountAll
<1>2. Client \/ Batch \/ SavePos \/ Groups \/ Copy \/ Errors \/ Browser \/ Crash => CountInv'
    BY CountClient, CountBatch, CountGroups, CountCopy, CountErrors, CountBrowser, CountCrash
<1>3. UNCHANGED vars => CountInv'
  <2>1. UNCHANGED vars => UNCHANGED <<hcount, steps, hurtCount, fl, batch, pos, rq, viewed>>
      BY DEF vars, logVars, dbVars, ghosts
  <2> QED
      BY <2>1, CountElsewhere DEF CountAll
<1>4. CountInv'
    BY <1>2, <1>3 DEF Next, Flusher
<1> QED
    BY <1>1, <1>4 DEF CountAll

LEMMA CountAllHolds == Spec => []CountAll
<1>1. Init => CountAll
    BY TypeInvInit, StepsInvInit, GroupsInvInit, RowInvInit, CountInvInit DEF CountAll
<1> QED
    BY <1>1, CountAllStep, PTL DEF Spec

LEMMA SettledOwesNothing ==
    ASSUME CountAll, NEW r \in Runs, Settled(r)
    PROVE  ~Owed(r)
<1>1. ~UnreadOf(r) /\ ~Announced(r) /\ \A i \in batch : log[i].run # r
    BY DEF Settled, UnreadOf, Announced
<1>2. fl.pc \in ForkPCs => fl.todo \subseteq batch
    BY DEF CountAll, TypeInv, FlusherInv, ForkLines
<1>3. ~InHand(r)
    BY <1>1, <1>2 DEF InHand, CountAll, GroupsInv, CounterRuns, ForkLines
<1> QED
    BY <1>1, <1>3 DEF Owed

(* buffer.go:127: once the lines of a run are processed its count is right,
   unless the statement that stores it failed, a fork was refused or a reader's
   repair came last; whatever is replayed, and in what order the counts and
   copies of other runs come. *)
THEOREM CountsSettle == Spec => []CountersSettle
<1>1. CountAll => CountersSettle
    BY SettledOwesNothing DEF CountAll, CountInv, CountersSettle, Right
<1> QED
    BY <1>1, CountAllHolds, PTL

-----------------------------------------------------------------------------
(* Copies of forks.  What the fork inherits does not change while it is copied,
   even if the fork is its own parent. *)

LEMMA StoresGrow ==
    ASSUME TypeInv, [Next]_vars, NEW r \in Runs, NEW c \in Cells
    PROVE  /\ points[r][c] # 0 => points'[r][c] = points[r][c]
           /\ histos[r][c] # 0 => histos'[r][c] = histos[r][c]
<1>1. CASE UNCHANGED <<points, histos>>
    BY <1>1
<1>2. ASSUME NEW q \in Runs, FlushScalars(q)
      PROVE  /\ points[r][c] # 0 => points'[r][c] = points[r][c]
             /\ histos' = histos
    BY <1>2 DEF FlushScalars, AddScalars, InsertOrIgnore, TypeInv, TypeOK
<1>3. ASSUME NEW q \in Runs, FlushHistograms(q)
      PROVE  /\ histos[r][c] # 0 => histos'[r][c] = histos[r][c]
             /\ points' = points
    BY <1>3 DEF FlushHistograms, InsertOrIgnore, TypeInv, TypeOK
<1>4. ASSUME NEW C \in Chunks(fl.left), CopyScalars(C)
      PROVE  /\ points[r][c] # 0 => points'[r][c] = points[r][c]
             /\ histos' = histos
    BY <1>4 DEF CopyScalars, TypeInv, TypeOK
<1>5. CASE CopyHistograms
    BY <1>5 DEF CopyHistograms, TypeInv, TypeOK
<1> QED
    BY <1>1, <1>2, <1>3, <1>4, <1>5, WhoWrites

LEMMA CopyFrame ==
    ASSUME TypeInv, [Next]_vars, fl.pc \in ForkPCs, fl.todo # {}, fl'.todo = fl.todo
    PROVE  /\ ForkLine' = ForkLine
           /\ log'[ForkLine] = log[ForkLine]
           /\ Parent' = Parent
           /\ Inheritable(points)' = Inheritable(points)
           /\ Inheritable(histos)' = Inheritable(histos)
<1>1. /\ ForkLine \in 1..Len(log) /\ Parent \in Runs
      /\ fl.pc \in CopyPCs => fl.run = log[ForkLine].run
    BY ForkAtHand DEF TypeInv, FlusherInv
<1>2. ForkLine' = ForkLine /\ log'[ForkLine] = log[ForkLine]
    BY <1>1, LogGrows DEF ForkLine
<1>3. Parent' = Parent
    BY <1>2 DEF Parent
<1>4. /\ \A c \in Cells : points'[Parent][c] # 0 <=> points[Parent][c] # 0
      /\ \A c \in Cells : histos'[Parent][c] # 0 <=> histos[Parent][c] # 0
  <2>1. CASE UNCHANGED <<points, histos>>
      BY <2>1
  <2>2. ASSUME NEW C \in Chunks(fl.left), CopyScalars(C) PROVE <1>4
      BY <1>1, <2>2 DEF CopyScalars, TypeInv, TypeOK
  <2>3. CASE CopyHistograms
      BY <1>1, <2>3 DEF CopyHistograms, TypeInv, TypeOK
  <2>4. ~ \E r \in Runs : FlushScalars(r) \/ FlushHistograms(r)
      BY DEF FlushScalars, FlushHistograms, ForkPCs, CopyPCs
  <2> QED
      BY <2>1, <2>2, <2>3, <2>4, WhoWrites
<1> QED
    BY <1>2, <1>3, <1>4 DEF Inheritable

EndPCs == {"copyRest", "forkCount", "setForkCount"}

(* What is no longer left is there, with its keys; then come the histograms. *)
CopyInv ==
    /\ fl.pc \in EndPCs => fl.left = {}
    /\ fl.pc \in CopyPCs =>
          \A c \in Inheritable(points) \ fl.left :
              /\ points[fl.run][c] # 0
              /\ c[2] \in keys[fl.run] \/ (fl.pc = "copyKeys" /\ c[2] \in fl.keys)
    /\ fl.pc \in EndPCs => \A c \in Inheritable(histos) : histos[fl.run][c] # 0

LEMMA CopyInvInit == Init => CopyInv
BY DEF Init, IdleFl, CopyInv, CopyPCs, EndPCs

LEMMA WhoLists ==
    ASSUME [Next]_vars
    PROVE  UNCHANGED keys \/ FlushKeys \/ CopyKeys \/ CopyRunKeys
<1> USE DEF logVars, dbVars, ghosts, bounds
<1>1. CASE UNCHANGED vars
    BY <1>1 DEF vars
<1>2. CASE SavePos \/ Crash
    BY <1>2 DEF SavePos, Crash, CrashAt
<1>3. CASE Browser
    BY <1>3 DEF Browser, OpenPage, OpenProject, GetHistoryKeys, ReadClaim, ReadSteps, Backfill,
        BackfillBusy, Recount, StoreRecount, StreamKey, KeepHistory, ShowHistory,
        Zoom, KeysFail, RequestFails, AnswerBreaks
<1>4. CASE Batch \/ Errors
    BY <1>4 DEF Batch, ReadLine, StartFlush, Errors, FlushScalarsFails, FlushHistogramsFails,
        FlushKeysFails, SetCountFails, ForkFails
<1>5. CASE Groups
    BY <1>5 DEF Groups, FlushScalars, FlushHistograms, CountSteps, ScalarsDone,
        HistogramsDone, SetCount, StoreCount, CountersDone
<1>6. CASE Copy
    BY <1>6 DEF Copy, ForkCheck, ForkInvalid, CopyScalars, CopyHistograms,
        ForkCount, SetForkCount, ForksDone
<1>7. CASE Client
    BY <1>7 DEF Client, LogLine, BeginFork, ForkRow, ForkClaim, ForkAppend, ForkRefused, DeleteRun
<1> QED
    BY <1>1, <1>2, <1>3, <1>4, <1>5, <1>6, <1>7 DEF Next, Flusher

LEMMA KeysGrow ==
    ASSUME TypeInv, [Next]_vars, NEW r \in Runs
    PROVE  keys[r] \subseteq keys'[r]
<1>0. keys \in [Runs -> SUBSET Keys]
    BY DEF TypeInv, TypeOK
<1>1. ASSUME NEW S, keys' = [keys EXCEPT ![fl.run] = @ \cup S]
      PROVE  keys[r] \subseteq keys'[r]
    BY <1>0, <1>1
<1>2. FlushKeys \/ CopyKeys => keys' = [keys EXCEPT ![fl.run] = @ \cup fl.keys]
    BY DEF FlushKeys, CopyKeys
<1>3. CopyRunKeys => keys' = [keys EXCEPT ![fl.run] = @ \cup keys[Parent]]
    BY DEF CopyRunKeys
<1> QED
    BY <1>1, <1>2, <1>3, WhoLists

LEMMA WhoFlushes ==
    ASSUME [Next]_vars
    PROVE  UNCHANGED fl \/ StartFlush \/ Groups \/ Copy \/ Errors \/ Crash
<1> USE DEF logVars, dbVars, ghosts, bounds
<1>1. CASE UNCHANGED vars
    BY <1>1 DEF vars
<1>2. CASE SavePos \/ ReadLine
    BY <1>2 DEF SavePos, ReadLine
<1>3. CASE Browser
    BY <1>3 DEF Browser, OpenPage, OpenProject, GetHistoryKeys, ReadClaim, ReadSteps, Backfill,
        BackfillBusy, Recount, StoreRecount, StreamKey, KeepHistory, ShowHistory,
        Zoom, KeysFail, RequestFails, AnswerBreaks
<1>4. CASE Client
    BY <1>4 DEF Client, LogLine, BeginFork, ForkRow, ForkClaim, ForkAppend, ForkRefused, DeleteRun
<1> QED
    BY <1>1, <1>2, <1>3, <1>4 DEF Next, Flusher, Batch

LEMMA CopyInvStep ==
    ASSUME TypeInv, CopyInv, [Next]_vars
    PROVE  CopyInv'
<1> USE DEF logVars, dbVars, ghosts, bounds
<1>0. fl \in FlRecords
    BY DEF TypeInv, TypeOK, FlRecords
<1>1. CASE fl'.pc \notin CopyPCs
    BY <1>1 DEF CopyInv, CopyPCs, EndPCs
<1>2. fl.pc \in CopyPCs => /\ fl.pc \in ForkPCs /\ fl.todo # {} /\ fl.run \in Runs
                           /\ fl.run = log[ForkLine].run /\ Parent \in Runs
    BY ForkAtHand DEF TypeInv, FlusherInv, ForkPCs, RunPCs
<1>3. CASE UNCHANGED fl /\ fl.pc \in CopyPCs
  <2>1. /\ Inheritable(points)' = Inheritable(points)
        /\ Inheritable(histos)' = Inheritable(histos)
      BY <1>2, <1>3, CopyFrame
  <2>2. /\ Inheritable(points) \subseteq Cells /\ Inheritable(histos) \subseteq Cells
        /\ \A c \in Cells : /\ points[fl.run][c] # 0 => points'[fl.run][c] # 0
                            /\ histos[fl.run][c] # 0 => histos'[fl.run][c] # 0
        /\ keys[fl.run] \subseteq keys'[fl.run]
      BY <1>2, <1>3, StoresGrow, KeysGrow DEF Inheritable
  <2> QED
      BY <1>3, <2>1, <2>2 DEF CopyInv
<1>4. CASE ForkCheck
  <2>1. /\ fl.pc = "forks" /\ fl.todo # {} /\ fl'.todo = fl.todo
        /\ fl'.pc = "copyScalars" /\ fl'.left = Inheritable(points)
      BY <1>0, <1>4 DEF ForkCheck, FlRecords
  <2>2. Inheritable(points)' = Inheritable(points)
      BY <2>1, CopyFrame DEF ForkPCs
  <2> QED
      BY <2>1, <2>2 DEF CopyInv, EndPCs
<1>5. ASSUME NEW C \in Chunks(fl.left), CopyScalars(C) PROVE CopyInv'
  <2>1. /\ fl.pc = "copyScalars" /\ fl'.pc = "copyKeys" /\ fl'.todo = fl.todo
        /\ fl'.run = fl.run /\ fl'.left = fl.left \ C /\ fl'.keys = {c[2] : c \in C}
        /\ keys' = keys
      BY <1>0, <1>5 DEF CopyScalars, FlRecords
  <2>2. Inheritable(points)' = Inheritable(points) /\ Inheritable(points) \subseteq Cells
      BY <1>2, <2>1, CopyFrame DEF Inheritable, CopyPCs
  <2>3. ASSUME NEW c \in Inheritable(points), c \in C
        PROVE  points'[fl.run][c] # 0
    <3>1. c \in Cells /\ points[Parent][c] # 0
        BY <2>3 DEF Inheritable
    <3> QED
        BY <1>2, <1>5, <2>1, <2>3, <3>1 DEF CopyScalars, CopyPCs, TypeInv, TypeOK
  <2>4. ASSUME NEW c \in Inheritable(points) \ fl.left
        PROVE  points'[fl.run][c] # 0 /\ c[2] \in keys'[fl.run]
      BY <1>2, <2>1, <2>2, <2>4, StoresGrow DEF CopyInv, CopyPCs
  <2> QED
      BY <2>1, <2>2, <2>3, <2>4 DEF CopyInv, EndPCs
<1>6. CASE CopyKeys
  <2>1. /\ fl.pc = "copyKeys" /\ fl'.pc = "copyScalars" /\ fl'.todo = fl.todo
        /\ fl'.run = fl.run /\ fl'.left = fl.left
        /\ keys' = [keys EXCEPT ![fl.run] = @ \cup fl.keys]
        /\ points' = points
      BY <1>0, <1>6 DEF CopyKeys, FlRecords
  <2>2. Inheritable(points)' = Inheritable(points)
      BY <1>2, <2>1, CopyFrame DEF CopyPCs
  <2>3. keys'[fl.run] = keys[fl.run] \cup fl.keys
      BY <1>2, <2>1 DEF CopyPCs, TypeInv, TypeOK
  <2> QED
      BY <2>1, <2>2, <2>3 DEF CopyInv, CopyPCs, EndPCs
<1>7. CASE CopyHistograms
  <2>1. /\ fl.pc = "copyScalars" /\ fl'.pc = "copyRest" /\ fl'.todo = fl.todo
        /\ fl'.run = fl.run /\ fl'.left = fl.left /\ fl.left = {}
        /\ UNCHANGED <<points, keys>>
      BY <1>0, <1>7 DEF CopyHistograms, FlRecords
  <2>2. /\ Inheritable(points)' = Inheritable(points)
        /\ Inheritable(histos)' = Inheritable(histos)
      BY <1>2, <2>1, CopyFrame DEF CopyPCs
  <2>3. ASSUME NEW c \in Inheritable(histos) PROVE histos'[fl.run][c] # 0
    <3>1. c \in Cells /\ histos[Parent][c] # 0
        BY <2>3 DEF Inheritable
    <3> QED
        BY <1>2, <1>7, <2>1, <2>3, <3>1 DEF CopyHistograms, CopyPCs, TypeInv, TypeOK
  <2> QED
      BY <2>1, <2>2, <2>3 DEF CopyInv, CopyPCs, EndPCs
<1>8. CASE CopyRunKeys \/ ForkCount
  <2>1. /\ fl.pc \in {"copyRest", "forkCount"} /\ fl'.pc \in {"forkCount", "setForkCount"}
        /\ fl'.todo = fl.todo /\ fl'.run = fl.run /\ fl'.left = fl.left
        /\ UNCHANGED <<points, histos>>
      BY <1>0, <1>8 DEF CopyRunKeys, ForkCount, FlRecords
  <2>2. /\ Inheritable(points)' = Inheritable(points)
        /\ Inheritable(histos)' = Inheritable(histos)
      BY <1>2, <2>1, CopyFrame DEF CopyPCs
  <2>3. keys[fl.run] \subseteq keys'[fl.run]
      BY <1>2, <2>1, KeysGrow DEF CopyPCs
  <2> QED
      BY <2>1, <2>2, <2>3 DEF CopyInv, CopyPCs, EndPCs
<1>9. CASE Crash \/ StartFlush \/ ForksDone \/ ForkInvalid \/ SetForkCount \/ ForkFails
  <2>1. IdleFl.pc = "idle" /\ NextFork.pc = "forks"
      BY DEF IdleFl, NextFork
  <2>2. Crash \/ ForksDone => fl' = IdleFl
      BY DEF Crash, CrashAt, ForksDone
  <2>3. ForkInvalid \/ SetForkCount \/ ForkFails => fl' = NextFork
      BY DEF ForkInvalid, SetForkCount, ForkFails
  <2>4. StartFlush => fl'.pc = "scalars"
      BY DEF StartFlush, IdleFl
  <2>5. fl'.pc \in {"idle", "forks", "scalars"}
      BY <1>9, <2>1, <2>2, <2>3, <2>4
  <2> QED
      BY <1>1, <2>5 DEF CopyPCs
<1>10. CASE Groups
  <2>1. CASE \E r \in Runs : FlushScalars(r) \/ FlushHistograms(r) \/ CountSteps(r)
    <3>1. fl'.pc \notin CopyPCs
      <4>1. PICK r \in Runs : FlushScalars(r) \/ FlushHistograms(r) \/ CountSteps(r)
          BY <2>1
      <4>2. FlushScalars(r) => fl'.pc = "keys"
          BY <1>0 DEF FlushScalars, FlRecords
      <4>3. FlushHistograms(r) => fl'.pc = "histograms"
          BY <1>0 DEF FlushHistograms, FlRecords
      <4>4. CountSteps(r) => fl'.pc = "setCount"
          BY <1>0 DEF CountSteps, FlRecords
      <4> QED
          BY <4>1, <4>2, <4>3, <4>4 DEF CopyPCs
    <3> QED
        BY <1>1, <3>1
  <2>2. CASE FlushKeys \/ SetCount
    <3>1. fl'.pc \notin CopyPCs
        BY <1>0, <2>2 DEF FlushKeys, SetCount, StoreCount, FlRecords, CopyPCs
    <3> QED
        BY <1>1, <3>1
  <2>3. CASE ScalarsDone \/ HistogramsDone \/ CountersDone
    <3>1. fl'.pc \notin CopyPCs
        BY <1>0, <2>3 DEF ScalarsDone, HistogramsDone, CountersDone, FlRecords, CopyPCs
    <3> QED
        BY <1>1, <3>1
  <2> QED
      BY <1>10, <2>1, <2>2, <2>3 DEF Groups
<1>11. CASE Errors
    BY <1>0, <1>1, <1>9, <1>11 DEF Errors, FlushScalarsFails, FlushHistogramsFails,
        FlushKeysFails, SetCountFails, FlRecords, CopyPCs
<1>12. CASE UNCHANGED fl
    BY <1>1, <1>3, <1>12
<1>13. CASE Copy
    BY <1>4, <1>5, <1>6, <1>7, <1>8, <1>9, <1>13 DEF Copy
<1> QED
    BY <1>9, <1>10, <1>11, <1>12, <1>13, WhoFlushes

LEMMA CopyInvHolds == Spec => [](TypeInv /\ CopyInv)
<1>1. TypeInv /\ CopyInv /\ [Next]_vars => (TypeInv /\ CopyInv)'
    BY TypeInvStep, CopyInvStep
<1> QED
    BY <1>1, TypeInvInit, CopyInvInit, PTL DEF Spec

-----------------------------------------------------------------------------
(* Keys.  The lines that will still list their keys: those not read, and those
   of the batch the flusher has not come to, where rows are listed with the
   points and forks one after the other at the end. *)

DueLines(r) ==
    {i \in batch : \/ fl.pc = "idle"
                   \/ fl.pc \in {"scalars", "keys"} /\ (IsFork(i) \/ r \in fl.todo)
                   \/ fl.pc \in {"histograms", "counters", "setCount"} /\ IsFork(i)
                   \/ fl.pc \in ForkPCs /\ i \in fl.todo}

KeyDue(r, k) ==
    \/ fl.pc \in {"keys", "copyKeys"} /\ fl.run = r /\ k \in fl.keys
    \/ \E i \in DueLines(r) \cup Unread : log[i].run = r /\ Lists(i, k)

KeyInv ==
    \A r \in Runs \ deleted, c \in Cells :
        points[r][c] # 0 => \/ c[2] \in keys[r]
                            \/ KeyDue(r, c[2])
                            \/ <<r, c[2]>> \in hurtKeys

KeyAll == TypeInv /\ StepsInv /\ GroupsInv /\ RowInv /\ CopyInv /\ KeyInv

LEMMA KeyInvInit == Init => KeyInv
BY DEF Init, KeyInv

LEMMA DueIsInFlight ==
    ASSUME NEW r, NEW k, KeyDue(r, k)
    PROVE  InFlight(r, k)
<1>1. DueLines(r) \subseteq batch
    BY DEF DueLines
<1> QED
    BY <1>1 DEF KeyDue, InFlight

LEMMA ListsStays ==
    ASSUME TypeInv, [Next]_vars, NEW i \in 1..Len(log), NEW k, Lists(i, k)
    PROVE  Lists(i, k)'
<1>1. log'[i] = log[i]
    BY LogGrows
<1>2. CASE k \in log[i].scalars
    BY <1>1, <1>2 DEF Lists
<1>3. ASSUME IsFork(i), NEW c \in Stored(log[i].parent), c[1] <= log[i].step, c[2] = k
      PROVE  Lists(i, k)'
  <2>1. log[i].parent \in Runs
      BY <1>3, LineTypes DEF TypeInv
  <2>2. c \in Cells /\ points'[log[i].parent][c] # 0
      BY <1>3, <2>1, StoresGrow DEF Stored
  <2> QED
      BY <1>1, <1>3, <2>2 DEF Lists, IsFork, Stored
<1> QED
    BY <1>2, <1>3 DEF Lists

LEMMA UnreadRange ==
    ASSUME TypeInv, [Next]_vars, pos' <= pos, pos' \in Nat, NEW i \in Unread
    PROVE  i \in 1..Len(log) /\ i \in Unread'
<1>1. TypeInv'
    BY TypeInvStep
<1>2. Len(log') \in Nat /\ Len(log) \in Nat /\ pos \in Nat /\ Len(log) <= Len(log')
  <2>1. log' \in Seq(Rows \cup Forks)
      BY <1>1 DEF TypeInv, TypeOK
  <2>2. Len(log) \in Nat /\ pos \in Nat
      BY DEF TypeInv, TypeOK
  <2> QED
      BY <2>1, <2>2, LogGrows
<1>3. i \in pos + 1 .. Len(log)
    BY DEF Unread
<1>4. i \in pos' + 1 .. Len(log')
    BY <1>2, <1>3, StillBehind
<1>5. i \in 1..Len(log)
    BY <1>2, <1>3
<1> QED
    BY <1>4, <1>5 DEF Unread

(* A line that was due is due still. *)
LEMMA LineStaysDue ==
    ASSUME TypeInv, [Next]_vars, NEW r, NEW k, pos' <= pos, pos' \in Nat,
           NEW i \in DueLines(r) \cup Unread, log[i].run = r, Lists(i, k),
           i \in DueLines(r) => i \in DueLines(r)' \cup Unread'
    PROVE  KeyDue(r, k)'
<1>1. i \in 1..Len(log) /\ i \in DueLines(r)' \cup Unread'
    BY UnreadRange, BatchLines DEF DueLines, TypeInv
<1>2. log'[i].run = r /\ Lists(i, k)'
    BY <1>1, LogGrows, ListsStays
<1> QED
    BY <1>1, <1>2 DEF KeyDue

(* A step that drops no key and no line, unless it lists what they list. *)
LEMMA KeyStays ==
    ASSUME TypeInv, KeyInv, [Next]_vars, hurtKeys \subseteq hurtKeys',
           \A r \in Runs \ deleted, c \in Cells :
               points[r][c] # 0 /\ KeyDue(r, c[2]) =>
                   \/ c[2] \in keys'[r]
                   \/ KeyDue(r, c[2])'
                   \/ <<r, c[2]>> \in hurtKeys',
           \A r \in Runs \ deleted, c \in Cells :
               points[r][c] = 0 /\ points'[r][c] # 0 => KeyDue(r, c[2])'
    PROVE  KeyInv'
<1> SUFFICES ASSUME NEW r \in Runs \ deleted', NEW c \in Cells, points'[r][c] # 0
             PROVE  \/ c[2] \in keys'[r]
                    \/ KeyDue(r, c[2])'
                    \/ <<r, c[2]>> \in hurtKeys'
    BY DEF KeyInv
<1>1. r \in Runs \ deleted /\ keys[r] \subseteq keys'[r]
    BY DeletedStays, KeysGrow
<1> QED
    BY <1>1 DEF KeyInv

LEMMA KeyElsewhere ==
    ASSUME TypeInv, KeyInv, [Next]_vars, UNCHANGED <<points, fl, batch, pos, hurtKeys>>
    PROVE  KeyInv'
<1>1. pos' <= pos /\ pos' \in Nat
    BY DEF TypeInv, TypeOK
<1>2. ASSUME NEW r \in Runs, NEW k, KeyDue(r, k) PROVE KeyDue(r, k)'
  <2>1. \A i \in batch : log'[i] = log[i]
      BY LogGrows, BatchLines DEF TypeInv
  <2>2. DueLines(r)' = DueLines(r)
      BY <2>1 DEF DueLines, IsFork
  <2> QED
      BY <1>1, <1>2, <2>2, LineStaysDue DEF KeyDue
<1> QED
    BY <1>2, KeyStays

LEMMA KeyBatch == ASSUME KeyAll, [Next]_vars, Batch PROVE KeyInv'
<1> USE DEF logVars, dbVars, ghosts, bounds, KeyAll
<1>1. CASE ReadLine
  <2>1. /\ fl.pc = "idle" /\ pos < Len(log) /\ pos' = pos + 1
        /\ batch' = batch \cup {pos + 1}
        /\ UNCHANGED <<log, points, hurtKeys, fl>>
      BY <1>1 DEF ReadLine
  <2>2. ASSUME NEW r \in Runs, NEW k, KeyDue(r, k) PROVE KeyDue(r, k)'
    <3>1. PICK i \in batch \cup Unread : log[i].run = r /\ Lists(i, k)
        BY <2>1, <2>2 DEF KeyDue, DueLines
    <3>2. i \in batch' \cup Unread'
      <4>1. CASE i \in Unread
        <5>1. i \in pos + 1 .. Len(log) /\ pos \in Nat /\ Len(log) \in Nat
            BY <4>1 DEF Unread, TypeInv, TypeOK
        <5>2. i = pos + 1 \/ i \in pos + 2 .. Len(log)
            BY <5>1
        <5>3. i \in pos + 2 .. Len(log) => i \in pos' + 1 .. Len(log')
            BY <2>1, <5>1
        <5> QED
            BY <2>1, <5>2, <5>3 DEF Unread
      <4> QED
          BY <2>1, <3>1, <4>1
    <3>3. Lists(i, k)' /\ log'[i].run = r
        BY <2>1, <3>1 DEF Lists, IsFork, Stored
    <3>4. i \in DueLines(r)' \cup Unread'
        BY <2>1, <3>2 DEF DueLines
    <3> QED
        BY <3>3, <3>4 DEF KeyDue
  <2> QED
      BY <2>1, <2>2, KeyStays
<1>2. CASE StartFlush
  <2>1. /\ fl.pc = "idle" /\ fl'.pc = "scalars" /\ fl'.todo = Active(ScalarRuns)
        /\ UNCHANGED <<log, pos, batch, points, hurtKeys, row, deleted>>
      BY <1>2 DEF StartFlush, IdleFl
  <2>2. pos' <= pos /\ pos' \in Nat
      BY <2>1 DEF TypeInv, TypeOK
  <2>3. ASSUME NEW r \in Runs \ deleted, NEW k, KeyDue(r, k) PROVE KeyDue(r, k)'
    <3>1. PICK i \in DueLines(r) \cup Unread : log[i].run = r /\ Lists(i, k)
        BY <2>1, <2>3 DEF KeyDue
    <3>2. ASSUME i \in DueLines(r) PROVE i \in DueLines(r)'
      <4>1. i \in batch /\ i \in 1..Len(log)
          BY <3>2, BatchLines DEF DueLines, TypeInv
      <4>2. CASE IsFork(i)
          BY <2>1, <4>1, <4>2 DEF DueLines, IsFork
      <4>3. CASE ~IsFork(i)
        <5>1. log[i].scalars # {}
            BY <3>1, <4>3 DEF Lists
        <5>2. r \in ScalarRuns
            BY <3>1, <4>1, <5>1 DEF ScalarRuns
        <5>3. LiveRow(r)
            BY <2>3, <3>1, <4>1 DEF LiveRow, RowInv
        <5>4. r \in fl'.todo
            BY <2>1, <5>2, <5>3 DEF Active
        <5> QED
            BY <2>1, <4>1, <5>4 DEF DueLines
      <4> QED
          BY <4>2, <4>3
    <3> QED
        BY <2>2, <3>1, <3>2, LineStaysDue
  <2> QED
      BY <2>1, <2>3, KeyStays
<1> QED
    BY <1>1, <1>2 DEF Batch

(* The flusher goes on: nothing but its own place changes. *)
LEMMA KeyMoves ==
    ASSUME KeyAll, [Next]_vars, UNCHANGED <<log, pos, batch, points, hurtKeys>>,
           fl.pc \notin {"keys", "copyKeys"},
           \A r \in Runs : DueLines(r) \subseteq DueLines(r)'
    PROVE  KeyInv'
<1>1. pos' <= pos /\ pos' \in Nat
    BY DEF KeyAll, TypeInv, TypeOK
<1>2. ASSUME NEW r \in Runs, NEW k, KeyDue(r, k) PROVE KeyDue(r, k)'
  <2>1. PICK i \in DueLines(r) \cup Unread : log[i].run = r /\ Lists(i, k)
      BY <1>2 DEF KeyDue
  <2>2. i \in DueLines(r) => i \in DueLines(r)'
      OBVIOUS
  <2> QED
      BY <1>1, <2>1, <2>2, LineStaysDue DEF KeyAll
<1> QED
    BY <1>2, KeyStays DEF KeyAll

LEMMA KeyGroups == ASSUME KeyAll, [Next]_vars, Groups PROVE KeyInv'
<1> USE DEF logVars, dbVars, ghosts, bounds, KeyAll
<1>0. fl \in FlRecords
    BY DEF TypeInv, TypeOK, FlRecords
<1>1. ASSUME NEW q \in Runs, FlushScalars(q) PROVE KeyInv'
  <2>1. /\ fl.pc = "scalars" /\ fl'.pc = "keys" /\ q \in fl.todo
        /\ fl'.todo = fl.todo \ {q} /\ fl'.run = q /\ fl'.keys = KeysOf(q)
        /\ UNCHANGED <<log, pos, batch, hurtKeys>>
      BY <1>0, <1>1 DEF FlushScalars, FlRecords
  <2>2. pos' <= pos /\ pos' \in Nat
      BY <2>1 DEF TypeInv, TypeOK
  <2>3. ASSUME NEW i \in batch, NEW k \in log[i].scalars, log[i].run = q
        PROVE  KeyDue(q, k)'
    <3>1. k \in KeysOf(q)
        BY <2>3 DEF KeysOf
    <3> QED
        BY <2>1, <3>1 DEF KeyDue
  <2>4. ASSUME NEW r \in Runs, NEW k, KeyDue(r, k) PROVE KeyDue(r, k)'
    <3>1. PICK i \in DueLines(r) \cup Unread : log[i].run = r /\ Lists(i, k)
        BY <2>1, <2>4 DEF KeyDue
    <3>2. CASE i \in DueLines(r) /\ r = q /\ ~IsFork(i)
        BY <2>3, <3>1, <3>2 DEF Lists, DueLines
    <3>3. CASE i \in DueLines(r) => r # q \/ IsFork(i)
      <4>1. i \in DueLines(r) => i \in DueLines(r)'
          BY <2>1, <3>3 DEF DueLines, IsFork, ForkPCs, CopyPCs
      <4> QED
          BY <2>2, <3>1, <4>1, LineStaysDue
    <3> QED
        BY <3>2, <3>3
  <2>5. ASSUME NEW r \in Runs, NEW c \in Cells, points[r][c] = 0, points'[r][c] # 0
        PROVE  KeyDue(r, c[2])'
    <3>1. r = q
        BY <1>1, <2>5 DEF FlushScalars, AddScalars, TypeInv, TypeOK
    <3>2. points'[r][c] = InsertOrIgnore(points[r][c], ScalarLines(r, c))
        BY <1>1, <3>1 DEF FlushScalars, AddScalars, TypeInv, TypeOK
    <3>3. ScalarLines(r, c) # {}
        BY <2>5, <3>2 DEF InsertOrIgnore
    <3> QED
        BY <2>3, <3>1, <3>3 DEF ScalarLines
  <2> QED
      BY <2>1, <2>4, <2>5, KeyStays
<1>2. CASE FlushKeys
  <2>1. /\ fl.pc = "keys" /\ fl'.pc = "scalars" /\ fl'.todo = fl.todo /\ fl.run \in Runs
        /\ keys' = [keys EXCEPT ![fl.run] = @ \cup fl.keys]
        /\ UNCHANGED <<log, pos, batch, points, hurtKeys>>
      BY <1>0, <1>2 DEF FlushKeys, FlRecords, TypeInv, FlusherInv, RunPCs
  <2>2. pos' <= pos /\ pos' \in Nat
      BY <2>1 DEF TypeInv, TypeOK
  <2>3. ASSUME NEW r \in Runs, NEW k, KeyDue(r, k) PROVE k \in keys'[r] \/ KeyDue(r, k)'
    <3>1. CASE fl.run = r /\ k \in fl.keys
        BY <2>1, <3>1 DEF TypeInv, TypeOK
    <3>2. ASSUME NEW i \in DueLines(r) \cup Unread, log[i].run = r, Lists(i, k)
          PROVE  KeyDue(r, k)'
      <4>1. i \in DueLines(r) => i \in DueLines(r)'
          BY <2>1 DEF DueLines, IsFork, ForkPCs, CopyPCs
      <4> QED
          BY <2>2, <3>2, <4>1, LineStaysDue
    <3> QED
        BY <2>3, <3>1, <3>2 DEF KeyDue
  <2> QED
      BY <2>1, <2>3, KeyStays
<1>3. CASE ScalarsDone \/ HistogramsDone \/ CountersDone
  <2>1. /\ fl.pc \in {"scalars", "histograms", "counters"} /\ fl.todo = {}
        /\ fl'.pc \in {"histograms", "counters", "forks"}
        /\ fl'.pc = "forks" => fl'.todo = ForkLines
        /\ UNCHANGED <<log, pos, batch, points, hurtKeys>>
      BY <1>0, <1>3 DEF ScalarsDone, HistogramsDone, CountersDone, FlRecords
  <2>2. \A r \in Runs : DueLines(r) \subseteq DueLines(r)'
      BY <2>1 DEF DueLines, IsFork, ForkLines, ForkPCs, CopyPCs
  <2> QED
      BY <2>1, <2>2, KeyMoves
<1>4. CASE (\E r \in Runs : FlushHistograms(r) \/ CountSteps(r)) \/ SetCount
  <2>1. /\ fl.pc \in {"histograms", "counters", "setCount"}
        /\ fl'.pc \in {"histograms", "counters", "setCount"}
        /\ UNCHANGED <<log, pos, batch, points, hurtKeys>>
      BY <1>0, <1>4 DEF FlushHistograms, CountSteps, SetCount, StoreCount, FlRecords
  <2>2. \A r \in Runs : DueLines(r) \subseteq DueLines(r)'
      BY <2>1 DEF DueLines, IsFork, ForkPCs, CopyPCs
  <2> QED
      BY <2>1, <2>2, KeyMoves
<1> QED
    BY <1>1, <1>2, <1>3, <1>4 DEF Groups

(* The fork at hand is forgotten; what it would have listed is listed, or known
   to be missing. *)
LEMMA KeyNextFork ==
    ASSUME KeyAll, [Next]_vars, fl.pc \in ForkPCs, fl.todo # {}, fl' = NextFork,
           UNCHANGED <<log, pos, batch, points>>, hurtKeys \subseteq hurtKeys',
           \A c \in Cells :
               points[log[ForkLine].run][c] # 0 =>
                   \/ c[2] \in keys[log[ForkLine].run]
                   \/ <<log[ForkLine].run, c[2]>> \in hurtKeys'
                   \/ ~Lists(ForkLine, c[2]) /\ fl.pc # "copyKeys"
    PROVE  KeyInv'
<1> USE DEF KeyAll
<1>1. fl'.pc = "forks" /\ fl'.todo = fl.todo \ {ForkLine}
    BY NextForkTypes
<1>2. pos' <= pos /\ pos' \in Nat
    BY DEF TypeInv, TypeOK
<1>3. fl.pc = "copyKeys" => fl.run = log[ForkLine].run
    BY DEF TypeInv, FlusherInv, CopyPCs
<1>4. fl.pc # "keys"
    BY DEF ForkPCs, CopyPCs
<1>5. ASSUME NEW r \in Runs, NEW c \in Cells, points[r][c] # 0, KeyDue(r, c[2])
      PROVE  c[2] \in keys'[r] \/ KeyDue(r, c[2])' \/ <<r, c[2]>> \in hurtKeys'
  <2>1. CASE r = log[ForkLine].run /\ (c[2] \in keys[r] \/ <<r, c[2]>> \in hurtKeys')
      BY <2>1, KeysGrow
  <2>2. CASE r # log[ForkLine].run \/ (~Lists(ForkLine, c[2]) /\ fl.pc # "copyKeys")
    <3>1. PICK i \in DueLines(r) \cup Unread : log[i].run = r /\ Lists(i, c[2])
        BY <1>3, <1>4, <1>5, <2>2 DEF KeyDue
    <3>2. i # ForkLine
        BY <2>2, <3>1
    <3>3. i \in DueLines(r) => i \in DueLines(r)'
        BY <1>1, <3>2 DEF DueLines, ForkPCs, CopyPCs
    <3> QED
        BY <1>2, <3>1, <3>3, LineStaysDue
  <2> QED
      BY <1>5, <2>1, <2>2
<1>6. \A r \in Runs, c \in Cells : points'[r][c] = points[r][c]
    OBVIOUS
<1> QED
    BY <1>5, <1>6, KeyStays

LEMMA UnlistedCovers ==
    ASSUME NEW r \in Runs, NEW c \in Cells, points[r][c] # 0, c[2] \notin keys[r]
    PROVE  <<r, c[2]>> \in Unlisted(r)
BY DEF Unlisted, Stored

LEMMA KeyCopy == ASSUME KeyAll, [Next]_vars, Copy PROVE KeyInv'
<1> USE DEF logVars, dbVars, ghosts, bounds, KeyAll
<1>0. fl \in FlRecords
    BY DEF TypeInv, TypeOK, FlRecords
<1>1. CASE ForkCheck \/ CopyHistograms \/ CopyRunKeys \/ ForkCount
  <2>1. /\ fl.pc \in ForkPCs \ {"copyKeys"} /\ fl'.pc \in ForkPCs /\ fl'.todo = fl.todo
        /\ UNCHANGED <<log, pos, batch, points, hurtKeys>>
      BY <1>0, <1>1 DEF ForkCheck, CopyHistograms, CopyRunKeys, ForkCount,
         ForkPCs, CopyPCs, FlRecords
  <2>2. \A r \in Runs : DueLines(r) \subseteq DueLines(r)'
      BY <2>1 DEF DueLines, ForkPCs, CopyPCs
  <2>3. fl.pc \notin {"keys", "copyKeys"}
      BY <2>1 DEF ForkPCs, CopyPCs
  <2> QED
      BY <2>1, <2>2, <2>3, KeyMoves
<1>2. ASSUME NEW C \in Chunks(fl.left), CopyScalars(C) PROVE KeyInv'
  <2>1. /\ fl.pc = "copyScalars" /\ fl'.pc = "copyKeys" /\ fl'.todo = fl.todo
        /\ fl'.run = fl.run /\ fl'.keys = {c[2] : c \in C}
        /\ UNCHANGED <<log, pos, batch, hurtKeys>>
      BY <1>0, <1>2 DEF CopyScalars, FlRecords
  <2>2. pos' <= pos /\ pos' \in Nat
      BY <2>1 DEF TypeInv, TypeOK
  <2>3. ASSUME NEW r \in Runs, NEW k, KeyDue(r, k) PROVE KeyDue(r, k)'
    <3>1. PICK i \in DueLines(r) \cup Unread : log[i].run = r /\ Lists(i, k)
        BY <2>1, <2>3 DEF KeyDue
    <3>2. i \in DueLines(r) => i \in DueLines(r)'
        BY <2>1 DEF DueLines, ForkPCs, CopyPCs
    <3> QED
        BY <2>2, <3>1, <3>2, LineStaysDue
  <2>4. ASSUME NEW r \in Runs, NEW c \in Cells, points[r][c] = 0, points'[r][c] # 0
        PROVE  KeyDue(r, c[2])'
    <3>1. r = fl.run /\ c \in C
        BY <1>2, <2>4 DEF CopyScalars, TypeInv, TypeOK
    <3> QED
        BY <2>1, <3>1 DEF KeyDue
  <2> QED
      BY <2>1, <2>3, <2>4, KeyStays
<1>3. CASE CopyKeys
  <2>1. /\ fl.pc = "copyKeys" /\ fl'.pc = "copyScalars" /\ fl'.todo = fl.todo /\ fl.run \in Runs
        /\ keys' = [keys EXCEPT ![fl.run] = @ \cup fl.keys]
        /\ UNCHANGED <<log, pos, batch, points, hurtKeys>>
      BY <1>0, <1>3 DEF CopyKeys, FlRecords, TypeInv, FlusherInv, RunPCs, CopyPCs
  <2>2. pos' <= pos /\ pos' \in Nat
      BY <2>1 DEF TypeInv, TypeOK
  <2>3. ASSUME NEW r \in Runs, NEW k, KeyDue(r, k) PROVE k \in keys'[r] \/ KeyDue(r, k)'
    <3>1. CASE fl.run = r /\ k \in fl.keys
        BY <2>1, <3>1 DEF TypeInv, TypeOK
    <3>2. ASSUME NEW i \in DueLines(r) \cup Unread, log[i].run = r, Lists(i, k)
          PROVE  KeyDue(r, k)'
      <4>1. i \in DueLines(r) => i \in DueLines(r)'
          BY <2>1 DEF DueLines, ForkPCs, CopyPCs
      <4> QED
          BY <2>2, <3>2, <4>1, LineStaysDue
    <3> QED
        BY <2>3, <3>1, <3>2 DEF KeyDue
  <2> QED
      BY <2>1, <2>3, KeyStays
<1>4. CASE ForkInvalid
  <2>1. /\ fl.pc \in ForkPCs /\ fl.todo # {} /\ fl' = NextFork
        /\ UNCHANGED <<log, pos, batch, points>>
        /\ hurtKeys' = hurtKeys \cup Unlisted(log[ForkLine].run)
      BY <1>4 DEF ForkInvalid, ForkPCs
  <2>2. log[ForkLine].run \in Runs
      BY <2>1, ForkAtHand
  <2> QED
      BY <2>1, <2>2, UnlistedCovers, KeyNextFork
<1>5. CASE SetForkCount
  <2>1. /\ fl.pc = "setForkCount" /\ fl' = NextFork
        /\ UNCHANGED <<log, pos, batch, points, hurtKeys>>
      BY <1>5 DEF SetForkCount
  <2>2. /\ fl.pc \in ForkPCs /\ fl.todo # {} /\ fl.run = log[ForkLine].run /\ fl.left = {}
      BY <2>1 DEF ForkPCs, CopyPCs, EndPCs, TypeInv, FlusherInv, CopyInv
  <2>3. IsFork(ForkLine) /\ log[ForkLine].scalars = {}
      BY <2>2, ForkAtHand, LineTypes DEF TypeInv
  <2>4. ASSUME NEW k, Lists(ForkLine, k) PROVE k \in keys[fl.run]
    <3>1. PICK c \in Stored(log[ForkLine].parent) : c[1] <= log[ForkLine].step /\ c[2] = k
        BY <2>3, <2>4 DEF Lists
    <3>2. c \in Inheritable(points) \ fl.left
        BY <2>2, <3>1 DEF Stored, Inheritable, Parent
    <3> QED
        BY <2>1, <3>1, <3>2 DEF CopyInv, CopyPCs
  <2> QED
      BY <2>1, <2>2, <2>4, KeyNextFork
<1>6. CASE ForksDone
  <2>1. /\ fl.pc = "forks" /\ fl.todo = {} /\ UNCHANGED <<log, pos, points, hurtKeys>>
      BY <1>6 DEF ForksDone
  <2>2. pos' <= pos /\ pos' \in Nat
      BY <2>1 DEF TypeInv, TypeOK
  <2>3. ASSUME NEW r \in Runs, NEW k, KeyDue(r, k) PROVE KeyDue(r, k)'
    <3>1. DueLines(r) = {}
        BY <2>1 DEF DueLines
    <3> QED
        BY <2>1, <2>2, <2>3, <3>1, LineStaysDue DEF KeyDue
  <2> QED
      BY <2>1, <2>3, KeyStays
<1> QED
    BY <1>1, <1>2, <1>3, <1>4, <1>5, <1>6 DEF Copy

LEMMA KeyErrors == ASSUME KeyAll, [Next]_vars, Errors PROVE KeyInv'
<1> USE DEF logVars, dbVars, ghosts, bounds, KeyAll
<1>0. fl \in FlRecords
    BY DEF TypeInv, TypeOK, FlRecords
<1>1. ASSUME NEW q \in Runs, UNCHANGED <<log, pos, batch, points>>,
             fl.pc \in {"scalars", "keys"}, fl'.pc = "scalars",
             \A r \in Runs \ {q} : r \in fl.todo => r \in fl'.todo,
             fl.pc = "keys" => fl.run = q,
             hurtKeys' = hurtKeys \cup Unlisted(q)
      PROVE  KeyInv'
  <2>1. pos' <= pos /\ pos' \in Nat
      BY <1>1 DEF TypeInv, TypeOK
  <2>2. ASSUME NEW r \in Runs, r # q, NEW k, KeyDue(r, k) PROVE KeyDue(r, k)'
    <3>1. PICK i \in DueLines(r) \cup Unread : log[i].run = r /\ Lists(i, k)
        BY <1>1, <2>2 DEF KeyDue
    <3>2. i \in DueLines(r) => i \in DueLines(r)'
        BY <1>1, <2>2 DEF DueLines, IsFork, ForkPCs, CopyPCs
    <3> QED
        BY <2>1, <3>1, <3>2, LineStaysDue
  <2>3. \A r \in Runs, c \in Cells : points[r][c] # 0 /\ r = q =>
            c[2] \in keys'[r] \/ <<r, c[2]>> \in hurtKeys'
      BY <1>1, UnlistedCovers, KeysGrow
  <2> QED
      BY <1>1, <2>2, <2>3, KeyStays
<1>2. ASSUME NEW q \in Runs, FlushScalarsFails(q) PROVE KeyInv'
  <2>1. /\ UNCHANGED <<log, pos, batch, points>>
        /\ fl.pc = "scalars" /\ fl'.pc = "scalars" /\ fl'.todo = fl.todo \ {q}
        /\ hurtKeys' = hurtKeys \cup Unlisted(q)
      BY <1>0, <1>2 DEF FlushScalarsFails, FlRecords
  <2> QED
      BY <1>1, <2>1
<1>3. CASE FlushKeysFails
  <2>1. /\ UNCHANGED <<log, pos, batch, points>>
        /\ fl.pc = "keys" /\ fl'.pc = "scalars" /\ fl'.todo = fl.todo /\ fl.run \in Runs
        /\ hurtKeys' = hurtKeys \cup Unlisted(fl.run)
      BY <1>0, <1>3 DEF FlushKeysFails, FlRecords, TypeInv, FlusherInv, RunPCs
  <2> QED
      BY <1>1, <2>1
<1>4. CASE (\E r \in Runs : FlushHistogramsFails(r)) \/ SetCountFails
  <2>1. /\ fl.pc \in {"histograms", "setCount"} /\ fl'.pc \in {"histograms", "counters"}
        /\ UNCHANGED <<log, pos, batch, points, hurtKeys>>
      BY <1>0, <1>4 DEF FlushHistogramsFails, SetCountFails, FlRecords
  <2>2. \A r \in Runs : DueLines(r) \subseteq DueLines(r)'
      BY <2>1 DEF DueLines, IsFork, ForkPCs, CopyPCs
  <2> QED
      BY <2>1, <2>2, KeyMoves
<1>5. CASE ForkFails
  <2>1. /\ fl.pc \in ForkPCs /\ fl.todo # {} /\ fl' = NextFork
        /\ UNCHANGED <<log, pos, batch, points>>
        /\ hurtKeys' = hurtKeys \cup Unlisted(log[ForkLine].run)
      BY <1>5 DEF ForkFails, ForkPCs, CopyPCs
  <2>2. log[ForkLine].run \in Runs
      BY <2>1, ForkAtHand
  <2> QED
      BY <2>1, <2>2, UnlistedCovers, KeyNextFork
<1> QED
    BY <1>2, <1>3, <1>4, <1>5 DEF Errors

LEMMA KeyCrash == ASSUME KeyAll, [Next]_vars, Crash PROVE KeyInv'
<1> USE DEF logVars, dbVars, ghosts, bounds, KeyAll
<1>0. PICK s \in 0..saved : CrashAt(s)
    BY DEF Crash
<1>1. /\ pos' = s /\ UNCHANGED <<log, points, keys>>
      /\ hurtKeys' = hurtKeys \cup {p \in UNION {Unlisted(r) : r \in Runs} :
                                      ~Replayed(s, p[1], p[2])}
    BY <1>0 DEF CrashAt
<1>2. ASSUME NEW r \in Runs, NEW k, Replayed(s, r, k) PROVE KeyDue(r, k)'
  <2>1. PICK i \in s + 1 .. Len(log) : log[i].run = r /\ Lists(i, k)
      BY <1>2 DEF Replayed
  <2>2. i \in Unread' /\ log'[i].run = r /\ Lists(i, k)'
      BY <1>1, <2>1 DEF Unread, Lists, IsFork, Stored
  <2> QED
      BY <2>2 DEF KeyDue
<1>3. ASSUME NEW r \in Runs, NEW c \in Cells, points[r][c] # 0, c[2] \notin keys[r],
             ~Replayed(s, r, c[2])
      PROVE  <<r, c[2]>> \in hurtKeys'
    BY <1>1, <1>3, UnlistedCovers
<1>4. ASSUME NEW r \in Runs, NEW c \in Cells, points[r][c] # 0
      PROVE  c[2] \in keys'[r] \/ KeyDue(r, c[2])' \/ <<r, c[2]>> \in hurtKeys'
    BY <1>1, <1>2, <1>3, <1>4
<1> QED
    BY <1>1, <1>4, KeyStays

LEMMA KeyInvStep == ASSUME KeyAll, [Next]_vars PROVE KeyInv'
<1> USE DEF logVars, dbVars, ghosts, bounds
<1>1. CASE UNCHANGED vars
    BY <1>1, KeyElsewhere DEF vars, KeyAll
<1>2. CASE Client
    BY <1>2, KeyElsewhere DEF KeyAll, Client, LogLine, BeginFork, ForkRow, ForkClaim, ForkAppend,
       ForkRefused, DeleteRun
<1>3. CASE Browser
    BY <1>3, KeyElsewhere DEF KeyAll, Browser, OpenPage, OpenProject, GetHistoryKeys, ReadClaim,
       ReadSteps, Backfill, BackfillBusy, Recount, StoreRecount, StreamKey, KeepHistory, ShowHistory,
       Zoom, KeysFail, RequestFails, AnswerBreaks
<1>4. CASE SavePos
    BY <1>4, KeyElsewhere DEF KeyAll, SavePos
<1> QED
    BY <1>1, <1>2, <1>3, <1>4, KeyBatch, KeyGroups, KeyCopy, KeyErrors, KeyCrash DEF Next, Flusher

LEMMA KeyAllHolds == Spec => []KeyAll
<1>1. Init => KeyAll
    BY TypeInvInit, StepsInvInit, GroupsInvInit, RowInvInit, CopyInvInit, KeyInvInit DEF KeyAll
<1>2. KeyAll /\ [Next]_vars => KeyAll'
    BY TypeInvStep, StepsInvStep, GroupsInvStep, RowInvStep, CopyInvStep, KeyInvStep DEF KeyAll
<1> QED
    BY <1>1, <1>2, PTL DEF Spec

(* history.go:158 and buffer.go:127: whenever the keys of a run's points are
   written after the points, in a batch or in a copy, every key with points is
   listed or the flusher still owes it; only a failed statement, or a crash with
   the position past the line, hides one. *)
THEOREM KeysAreListed == Spec => []KeysListed
<1>1. KeyAll => KeysListed
    BY DueIsInFlight DEF KeyAll, KeyInv, KeysListed
<1> QED
    BY <1>1, KeyAllHolds, PTL

-----------------------------------------------------------------------------
(* Forks in the order of the log.  Whatever became of a fork entry, the lines
   the flusher still carries come after it. *)

Ahead == IF fl.pc \in ForkPCs THEN fl.todo ELSE batch

OrderInv ==
    \A i \in 1..MaxLines :
        /\ outcome[i] # "none" => i <= pos /\ \A j \in Ahead : i < j
        /\ outcome[i] \in {"copied", "refused"} => i \in 1..Len(log) /\ IsFork(i)

LEMMA OrderInvInit == Init => OrderInv
BY DEF Init, OrderInv

LEMMA AheadTypes == ASSUME TypeInv PROVE Ahead \subseteq batch /\ batch \subseteq 1..pos /\ pos \in Nat
BY DEF TypeInv, TypeOK, FlusherInv, Ahead, ForkLines

LEMMA LinesAreForksStill ==
    ASSUME TypeInv, [Next]_vars, NEW i \in 1..Len(log), IsFork(i)
    PROVE  i \in 1..Len(log') /\ IsFork(i)'
<1>1. TypeInv' /\ Len(log) <= Len(log') /\ log'[i] = log[i]
    BY TypeInvStep, LogGrows
<1>2. Len(log) \in Nat /\ Len(log') \in Nat
  <2>1. log' \in Seq(Rows \cup Forks)
      BY <1>1 DEF TypeInv, TypeOK
  <2>2. Len(log) \in Nat
      BY DEF TypeInv, TypeOK
  <2> QED
      BY <2>1, <2>2
<1> QED
    BY <1>1, <1>2 DEF IsFork

LEMMA OrderStays ==
    ASSUME TypeInv, OrderInv, [Next]_vars, UNCHANGED outcome, pos' \in Nat, pos <= pos',
           Ahead' \subseteq Ahead \cup {pos + 1}
    PROVE  OrderInv'
<1> SUFFICES ASSUME NEW i \in 1..MaxLines
             PROVE  /\ outcome[i] # "none" => i <= pos' /\ \A j \in Ahead' : i < j
                    /\ outcome[i] \in {"copied", "refused"} => i \in 1..Len(log') /\ IsFork(i)'
    BY DEF OrderInv
<1>1. outcome[i] # "none" => i <= pos /\ \A j \in Ahead : i < j
    BY DEF OrderInv
<1>2. outcome[i] # "none" => i <= pos' /\ i < pos + 1
    BY <1>1, AheadTypes, BoundsAssumption
<1>3. outcome[i] \in {"copied", "refused"} => i \in 1..Len(log) /\ IsFork(i)
    BY DEF OrderInv
<1> QED
    BY <1>1, <1>2, <1>3, LinesAreForksStill

(* The outcome of the fork at hand. *)
LEMMA OrderNextFork ==
    ASSUME TypeInv, OrderInv, [Next]_vars, fl.pc \in ForkPCs, fl.todo # {}, fl' = NextFork,
           UNCHANGED <<log, pos, batch>>,
           NEW o \in Outcomes, outcome' = [outcome EXCEPT ![ForkLine] = o]
    PROVE  OrderInv'
<1>1. fl'.pc = "forks" /\ fl'.todo = fl.todo \ {ForkLine}
    BY NextForkTypes
<1>2. Ahead = fl.todo /\ Ahead' = fl.todo \ {ForkLine}
    BY <1>1 DEF Ahead, ForkPCs
<1>3. /\ ForkLine \in batch /\ ForkLine \in 1..Len(log) /\ IsFork(ForkLine)
      /\ \A j \in fl.todo : ForkLine <= j
    BY ForkAtHand
<1>4. ForkLine <= pos
    BY <1>3, AheadTypes
<1>5. ASSUME NEW j \in Ahead' PROVE ForkLine < j
  <2>1. j \in fl.todo /\ j # ForkLine /\ j \in Nat /\ ForkLine \in Nat
    <3>1. j \in fl.todo /\ j # ForkLine
        BY <1>2
    <3>2. fl.todo \subseteq Nat
        BY <1>2, AheadTypes
    <3> QED
        BY <1>3, <3>1, <3>2
  <2> QED
      BY <1>3, <2>1
<1>6. ASSUME NEW i \in 1..MaxLines, i # ForkLine PROVE outcome'[i] = outcome[i]
    BY <1>6 DEF TypeInv, TypeOK
<1>7. \A i \in 1..MaxLines : IsFork(i)' <=> IsFork(i)
    BY DEF IsFork
<1> QED
    BY <1>2, <1>3, <1>4, <1>5, <1>6, <1>7 DEF OrderInv

LEMMA OrderInvStep ==
    ASSUME TypeInv, OrderInv, [Next]_vars
    PROVE  OrderInv'
<1> USE DEF logVars, dbVars, ghosts, bounds
<1>0. fl \in FlRecords /\ pos \in Nat
    BY DEF TypeInv, TypeOK, FlRecords
<1>1. CASE UNCHANGED <<fl, batch, pos, outcome>>
  <2>1. Ahead' = Ahead
      BY <1>1 DEF Ahead
  <2> QED
      BY <1>0, <1>1, <2>1, OrderStays
<1>2. CASE UNCHANGED vars \/ SavePos
    BY <1>1, <1>2 DEF vars, SavePos
<1>3. CASE Client
    BY <1>1, <1>3 DEF Client, LogLine, BeginFork, ForkRow, ForkClaim, ForkAppend, ForkRefused,
       DeleteRun
<1>4. CASE Browser
    BY <1>1, <1>4 DEF Browser, OpenPage, OpenProject, GetHistoryKeys, ReadClaim, ReadSteps, Backfill,
        BackfillBusy, Recount, StoreRecount, StreamKey, KeepHistory, ShowHistory,
        Zoom, KeysFail, RequestFails, AnswerBreaks
<1>5. CASE ReadLine
  <2>1. /\ fl.pc = "idle" /\ fl' = fl /\ pos' = pos + 1 /\ batch' = batch \cup {pos + 1}
        /\ outcome' = outcome
      BY <1>5 DEF ReadLine
  <2>2. Ahead = batch /\ Ahead' = batch \cup {pos + 1}
      BY <2>1 DEF Ahead, ForkPCs, CopyPCs
  <2> QED
      BY <1>0, <2>1, <2>2, OrderStays
<1>6. CASE StartFlush \/ Groups
  <2>1. /\ fl.pc \notin ForkPCs /\ UNCHANGED <<pos, batch, outcome>>
        /\ fl'.pc \in ForkPCs => fl'.todo = ForkLines
    <3>1. CASE StartFlush
        BY <3>1 DEF StartFlush, IdleFl, ForkPCs, CopyPCs, logVars, ghosts
    <3>2. CASE \E r \in Runs : FlushScalars(r) \/ FlushHistograms(r) \/ CountSteps(r)
        BY <1>0, <3>2 DEF FlushScalars, FlushHistograms, CountSteps, FlRecords, ForkPCs, CopyPCs,
                          logVars, ghosts
    <3>3. CASE FlushKeys \/ SetCount
        BY <1>0, <3>3 DEF FlushKeys, SetCount, StoreCount, FlRecords, ForkPCs, CopyPCs,
                          logVars, ghosts
    <3>4. CASE ScalarsDone \/ HistogramsDone \/ CountersDone
        BY <1>0, <3>4 DEF ScalarsDone, HistogramsDone, CountersDone, FlRecords, ForkPCs, CopyPCs,
                          logVars, ghosts
    <3> QED
        BY <1>6, <3>1, <3>2, <3>3, <3>4 DEF Groups
  <2>2. Ahead' \subseteq Ahead
      BY <2>1 DEF Ahead, ForkLines
  <2> QED
      BY <1>0, <2>1, <2>2, OrderStays
<1>7. ASSUME fl.pc \in ForkPCs, fl'.pc \in ForkPCs, fl'.todo = fl.todo,
             UNCHANGED <<pos, outcome>>
      PROVE  OrderInv'
    BY <1>0, <1>7, OrderStays DEF Ahead
<1>8. CASE ForkCheck \/ (\E C \in Chunks(fl.left) : CopyScalars(C)) \/ CopyKeys
           \/ CopyHistograms \/ CopyRunKeys \/ ForkCount
  <2>1. /\ fl.pc \in ForkPCs /\ fl'.pc \in ForkPCs /\ fl'.todo = fl.todo
        /\ UNCHANGED <<pos, outcome>>
      BY <1>0, <1>8 DEF ForkCheck, CopyScalars, CopyKeys, CopyHistograms, CopyRunKeys, ForkCount,
         FlRecords, ForkPCs, CopyPCs
  <2> QED
      BY <1>7, <2>1
<1>9. CASE ForkInvalid \/ SetForkCount \/ ForkFails
  <2>1. /\ fl.pc \in ForkPCs /\ fl' = NextFork /\ UNCHANGED <<log, pos, batch>>
        /\ \/ outcome' = [outcome EXCEPT ![ForkLine] = "refused"]
           \/ outcome' = [outcome EXCEPT ![ForkLine] = "copied"]
           \/ outcome' = [outcome EXCEPT ![ForkLine] = "dropped"]
      BY <1>9 DEF ForkInvalid, SetForkCount, ForkFails, ForkPCs, CopyPCs
  <2>2. fl.todo # {}
      BY <1>9 DEF ForkInvalid, SetForkCount, ForkFails, TypeInv, FlusherInv, CopyPCs
  <2>3. {"refused", "copied", "dropped"} \subseteq Outcomes
      BY DEF Outcomes
  <2> QED
      BY <2>1, <2>2, <2>3, OrderNextFork
<1>10. CASE ForksDone
  <2>1. fl' = IdleFl /\ batch' = {} /\ UNCHANGED <<pos, outcome>>
      BY <1>10 DEF ForksDone
  <2>2. Ahead' = {}
      BY <2>1 DEF Ahead, IdleFl, ForkPCs, CopyPCs
  <2> QED
      BY <1>0, <2>1, <2>2, OrderStays
<1>11. CASE Errors
  <2>1. CASE ~ForkFails
    <3>1. /\ fl.pc \notin ForkPCs /\ fl'.pc \notin ForkPCs /\ UNCHANGED <<pos, batch, outcome>>
        BY <1>0, <1>11, <2>1 DEF Errors, FlushScalarsFails, FlushHistogramsFails, FlushKeysFails,
           SetCountFails, FlRecords, ForkPCs, CopyPCs
    <3>2. Ahead' = Ahead
        BY <3>1 DEF Ahead
    <3> QED
        BY <1>0, <3>1, <3>2, OrderStays
  <2> QED
      BY <1>9, <2>1
<1>12. CASE Crash
  <2>0. PICK s \in 0..saved : CrashAt(s)
      BY <1>12 DEF Crash
  <2>1. /\ fl' = IdleFl /\ batch' = {} /\ pos' = s /\ log' = log
        /\ \A i \in 1..MaxLines :
              outcome'[i] = IF i > s THEN "none"
                            ELSE IF i \in batch /\ outcome[i] = "none" THEN "dropped"
                            ELSE outcome[i]
      BY <2>0 DEF CrashAt
  <2>2. Ahead' = {}
      BY <2>1 DEF Ahead, IdleFl, ForkPCs, CopyPCs
  <2>3. s \in Nat
      BY DEF TypeInv, TypeOK
  <2>4. ASSUME NEW i \in 1..MaxLines
        PROVE  /\ outcome'[i] # "none" => i <= pos'
               /\ outcome'[i] \in {"copied", "refused"} => i \in 1..Len(log') /\ IsFork(i)'
    <3>1. outcome'[i] # "none" => i <= pos'
        BY <2>1, <2>3, BoundsAssumption
    <3>2. outcome'[i] \in {"copied", "refused"} => outcome'[i] = outcome[i]
        BY <2>1
    <3> QED
        BY <2>1, <3>1, <3>2 DEF OrderInv, IsFork
  <2> QED
      BY <2>2, <2>4 DEF OrderInv
<1> QED
    BY <1>2, <1>3, <1>4, <1>5, <1>6, <1>8, <1>9, <1>10, <1>11, <1>12
    DEF Next, Flusher, Batch, Copy

Faithful(i) ==
    LET parent == log[i].parent IN
    /\ outcome[i] = "copied" /\ NotForkedAfter(i, parent) =>
          \A c \in Cells : c[1] <= log[i].step =>
              /\ points[parent][c] \in 1..i-1 => points[log[i].run][c] # 0
              /\ histos[parent][c] \in 1..i-1 => histos[log[i].run][c] # 0
    /\ outcome[i] = "refused" /\ NotForkedAfter(i, parent) =>
          \A c \in Cells : points[parent][c] \in 1..i-1 => c[1] < log[i].step

FaithInv == \A i \in 1..Len(log) : Faithful(i)

FaithAll == TypeInv /\ StepsInv /\ CopyInv /\ OrderInv /\ FaithInv

LEMMA FaithInvInit == Init => FaithInv
BY DEF Init, FaithInv

(* What a parent gets later is from lines after the fork. *)
LEMMA OldPointsWereThere ==
    ASSUME TypeInv, OrderInv, [Next]_vars, NEW i \in 1..Len(log), i \in 1..MaxLines,
           outcome[i] # "none", NEW p \in Runs, NotForkedAfter(i, p), NEW c \in Cells
    PROVE  /\ points'[p][c] \in 1..i-1 => points[p][c] = points'[p][c]
           /\ histos'[p][c] \in 1..i-1 => histos[p][c] = histos'[p][c]
<1>0. /\ i \in Nat /\ \A j \in Ahead : i < j
      /\ batch \in SUBSET Nat
  <2>1. \A j \in Ahead : i < j
      BY DEF OrderInv
  <2>2. batch \in SUBSET Nat
      BY BatchLines DEF TypeInv
  <2> QED
      BY <2>1, <2>2
<1>1. ASSUME NEW S \in SUBSET Ahead, S # {} PROVE Earliest(S) \notin 1..i-1
  <2>1. S \in SUBSET Nat
      BY <1>0, AheadTypes
  <2>2. Earliest(S) \in S
      BY <1>1, <2>1, EarliestIsFirst
  <2>3. i < Earliest(S) /\ Earliest(S) \in Nat
      BY <1>0, <2>1, <2>2
  <2> QED
      BY <1>0, <2>3
<1>2. CASE UNCHANGED <<points, histos>>
    BY <1>2
<1>3. ASSUME NEW q \in Runs, FlushScalars(q) \/ FlushHistograms(q)
      PROVE  /\ points'[p][c] \in 1..i-1 => points[p][c] = points'[p][c]
             /\ histos'[p][c] \in 1..i-1 => histos[p][c] = histos'[p][c]
  <2>1. Ahead = batch
      BY <1>3 DEF FlushScalars, FlushHistograms, Ahead, ForkPCs, CopyPCs
  <2>2. /\ \/ points'[p][c] = points[p][c]
           \/ points'[p][c] = InsertOrIgnore(points[p][c], ScalarLines(p, c))
        /\ \/ histos'[p][c] = histos[p][c]
           \/ histos'[p][c] = InsertOrIgnore(histos[p][c], HistogramLines(p, c))
    <3>1. CASE FlushScalars(q)
      <4>1. /\ points' = [points EXCEPT ![q] =
                             [d \in Cells |-> InsertOrIgnore(@[d], ScalarLines(q, d))]]
            /\ histos' = histos
          BY <3>1 DEF FlushScalars, AddScalars
      <4> QED
          BY <4>1 DEF TypeInv, TypeOK
    <3>2. CASE FlushHistograms(q)
      <4>1. /\ histos' = [histos EXCEPT ![q] =
                             [d \in Cells |-> InsertOrIgnore(@[d], HistogramLines(q, d))]]
            /\ points' = points
          BY <3>2 DEF FlushHistograms
      <4> QED
          BY <4>1 DEF TypeInv, TypeOK
    <3> QED
        BY <1>3, <3>1, <3>2
  <2>3. ScalarLines(p, c) \in SUBSET Ahead /\ HistogramLines(p, c) \in SUBSET Ahead
      BY <2>1 DEF ScalarLines, HistogramLines
  <2> QED
      BY <1>1, <2>2, <2>3 DEF InsertOrIgnore
<1>4. ASSUME fl.pc = "copyScalars" PROVE p # fl.run
  <2>1. /\ fl.pc \in ForkPCs /\ fl.todo # {} /\ fl.run = log[ForkLine].run
      BY <1>4 DEF ForkPCs, CopyPCs, TypeInv, FlusherInv
  <2>2. ForkLine \in fl.todo /\ ForkLine \in 1..Len(log) /\ IsFork(ForkLine)
      BY <2>1, ForkAtHand
  <2>3. i < ForkLine
      BY <1>0, <2>1, <2>2 DEF Ahead
  <2>4. ForkLine \in i + 1 .. Len(log)
    <3>1. Len(log) \in Nat
        BY DEF TypeInv, TypeOK
    <3> QED
        BY <1>0, <2>2, <2>3, <3>1
  <2> QED
      BY <2>1, <2>2, <2>4 DEF NotForkedAfter
<1>5. ASSUME NEW C \in Chunks(fl.left), CopyScalars(C)
      PROVE  points'[p][c] = points[p][c] /\ histos' = histos
    BY <1>4, <1>5 DEF CopyScalars, TypeInv, TypeOK
<1>6. CASE CopyHistograms
    BY <1>4, <1>6 DEF CopyHistograms, TypeInv, TypeOK
<1> QED
    BY <1>2, <1>3, <1>5, <1>6, WhoWrites

LEMMA TypesOfOutcomes ==
    ASSUME TypeInv, OrderInv, NEW i \in 1..Len(log)
    PROVE  /\ i \in 1..MaxLines
           /\ outcome[i] \in {"copied", "refused"} =>
                  IsFork(i) /\ log[i].parent \in Runs /\ log[i].run \in Runs
<1>1. i \in 1..MaxLines
    BY BoundsAssumption DEF TypeInv, TypeOK
<1> QED
    BY <1>1, LineTypes DEF OrderInv, TypeInv

LEMMA NotForkedBefore ==
    ASSUME TypeInv, [Next]_vars, NEW i \in 1..Len(log), NEW p, NotForkedAfter(i, p)'
    PROVE  NotForkedAfter(i, p)
<1> SUFFICES ASSUME NEW j \in i + 1 .. Len(log), IsFork(j), log[j].run = p PROVE FALSE
    BY DEF NotForkedAfter
<1>1. TypeInv' /\ Len(log) <= Len(log')
    BY TypeInvStep, LogGrows
<1>2. Len(log) \in Nat /\ Len(log') \in Nat
  <2>1. log' \in Seq(Rows \cup Forks)
      BY <1>1 DEF TypeInv, TypeOK
  <2>2. Len(log) \in Nat
      BY DEF TypeInv, TypeOK
  <2> QED
      BY <2>1, <2>2
<1>3. j \in 1..Len(log) /\ j \in i + 1 .. Len(log')
    BY <1>1, <1>2
<1>4. log'[j] = log[j]
    BY <1>3, LogGrows
<1> QED
    BY <1>3, <1>4 DEF NotForkedAfter, IsFork

(* An outcome that stays remains justified. *)
LEMMA FaithfulStays ==
    ASSUME TypeInv, OrderInv, [Next]_vars, NEW i \in 1..Len(log), Faithful(i),
           outcome'[i] \in {"copied", "refused"} => outcome'[i] = outcome[i]
    PROVE  Faithful(i)'
<1>1. CASE outcome'[i] \notin {"copied", "refused"}
    BY <1>1 DEF Faithful
<1>2. ASSUME outcome'[i] \in {"copied", "refused"}, NotForkedAfter(i, log[i].parent)'
      PROVE  /\ outcome[i] = outcome'[i]
             /\ NotForkedAfter(i, log[i].parent)
             /\ \A c \in Cells :
                   /\ points'[log[i].parent][c] \in 1..i-1 =>
                         points[log[i].parent][c] = points'[log[i].parent][c]
                   /\ histos'[log[i].parent][c] \in 1..i-1 =>
                         histos[log[i].parent][c] = histos'[log[i].parent][c]
                   /\ points[log[i].run][c] # 0 => points'[log[i].run][c] # 0
                   /\ histos[log[i].run][c] # 0 => histos'[log[i].run][c] # 0
  <2>1. /\ outcome[i] = outcome'[i]
        /\ i \in 1..MaxLines /\ log[i].parent \in Runs /\ log[i].run \in Runs
      BY <1>2, TypesOfOutcomes
  <2>2. NotForkedAfter(i, log[i].parent)
    <3> SUFFICES ASSUME NEW p, p = log[i].parent PROVE NotForkedAfter(i, p)
        OBVIOUS
    <3>1. log'[i].parent = p
        BY LogGrows
    <3>2. NotForkedAfter(i, p)'
        BY <1>2, <3>1 DEF NotForkedAfter
    <3> QED
        BY <3>2, NotForkedBefore
  <2>3. outcome[i] # "none"
      BY <1>2, <2>1
  <2> QED
      BY <2>1, <2>2, <2>3, OldPointsWereThere, StoresGrow
<1>3. log'[i] = log[i]
    BY LogGrows
<1> QED
    BY <1>1, <1>2, <1>3 DEF Faithful

LEMMA FaithInvStep ==
    ASSUME FaithAll, [Next]_vars
    PROVE  FaithInv'
<1> USE DEF logVars, dbVars, ghosts, bounds, FaithAll
<1>1. TypeInv' /\ OrderInv'
    BY TypeInvStep, OrderInvStep
<1>2. ASSUME NEW i \in 1..Len(log') \ 1..Len(log) PROVE Faithful(i)'
  <2>1. UNCHANGED log \/ \E l \in Rows \cup Forks : Appends(l)
      BY WhatIsAppended DEF AppendsLine
  <2>2. UNCHANGED outcome
      BY <1>2, WhoAppends DEF LogLine, ForkAppend
  <2>3. outcome[i] \notin {"copied", "refused"}
    <3>1. i \in 1..MaxLines
      <4>1. Len(log') <= MaxLines /\ log' \in Seq(Rows \cup Forks)
          BY <1>1 DEF TypeInv, TypeOK
      <4> QED
          BY <1>2, <4>1, BoundsAssumption
    <3> QED
        BY <1>2, <3>1 DEF OrderInv
  <2> QED
      BY <2>2, <2>3 DEF Faithful
<1>3. ASSUME NEW i \in 1..Len(log), outcome'[i] \in {"copied", "refused"}, outcome'[i] # outcome[i]
      PROVE  Faithful(i)'
  <2>1. i \in 1..MaxLines
      BY TypesOfOutcomes
  <2>2. ForkInvalid \/ SetForkCount
    <3>1. UNCHANGED outcome \/ ForkInvalid \/ SetForkCount \/ ForkFails \/ Crash
      <4>1. CASE UNCHANGED vars \/ SavePos
          BY <4>1 DEF vars, SavePos
      <4>2. CASE Client
          BY <4>2 DEF Client, LogLine, BeginFork, ForkRow, ForkClaim, ForkAppend, ForkRefused,
             DeleteRun
      <4>3. CASE Browser
          BY <4>3 DEF Browser, OpenPage, OpenProject, GetHistoryKeys, ReadClaim, ReadSteps,
              Backfill, BackfillBusy, Recount, StoreRecount, StreamKey, KeepHistory, ShowHistory,
              Zoom, KeysFail, RequestFails, AnswerBreaks
      <4>4. CASE Batch \/ Errors
          BY <4>4 DEF Batch, ReadLine, StartFlush, Errors, FlushScalarsFails,
              FlushHistogramsFails, FlushKeysFails, SetCountFails
      <4>5. CASE Groups
          BY <4>5 DEF Groups, FlushScalars, FlushHistograms, CountSteps, FlushKeys, ScalarsDone,
              HistogramsDone, SetCount, StoreCount, CountersDone
      <4>6. CASE Copy
          BY <4>6 DEF Copy, ForkCheck, CopyScalars, CopyKeys, CopyHistograms,
              CopyRunKeys, ForkCount, ForksDone
      <4> QED
          BY <4>1, <4>2, <4>3, <4>4, <4>5, <4>6 DEF Next, Flusher
    <3>2. ASSUME ForkFails PROVE FALSE
        BY <1>3, <2>1, <3>2 DEF ForkFails, TypeInv, TypeOK
    <3>3. ASSUME Crash PROVE FALSE
        BY <1>3, <2>1, <3>3 DEF Crash, CrashAt
    <3> QED
        BY <1>3, <3>1, <3>2, <3>3
  <2>3. CASE ForkInvalid
    <3>1. /\ fl.pc = "forks" /\ fl.todo # {} /\ ~Reaches(Parent, log[ForkLine].step)
          /\ outcome' = [outcome EXCEPT ![ForkLine] = "refused"]
          /\ UNCHANGED <<log, points, histos, steps>>
        BY <2>3 DEF ForkInvalid
    <3>2. i = ForkLine /\ outcome'[i] = "refused"
        BY <1>3, <2>1, <3>1 DEF TypeInv, TypeOK
    <3>3. Parent \in Runs /\ log[ForkLine].step \in Steps
        BY <3>1, ForkAtHand DEF ForkPCs
    <3>4. ASSUME NEW c \in Cells, points[Parent][c] # 0 PROVE c[1] < log[ForkLine].step
      <4>1. c[1] \in steps[Parent]
          BY <3>3, <3>4 DEF StepsInv, ScalarSteps, Stored
      <4>2. ~(log[ForkLine].step <= c[1])
          BY <3>1, <4>1 DEF Reaches
      <4>3. c[1] \in Nat /\ log[ForkLine].step \in Nat
          BY <3>3, CellsArePairs DEF Steps
      <4> QED
          BY <4>2, <4>3
    <3>5. 0 \notin 1..i-1
        OBVIOUS
    <3> QED
        BY <3>1, <3>2, <3>4, <3>5 DEF Faithful, Parent
  <2>4. CASE SetForkCount
    <3>1. /\ fl.pc = "setForkCount"
          /\ outcome' = [outcome EXCEPT ![ForkLine] = "copied"]
          /\ UNCHANGED <<log, points, histos>>
        BY <2>4 DEF SetForkCount
    <3>2. i = ForkLine /\ outcome'[i] = "copied"
        BY <1>3, <2>1, <3>1 DEF TypeInv, TypeOK
    <3>3. fl.run = log[ForkLine].run /\ fl.left = {}
        BY <3>1 DEF TypeInv, FlusherInv, CopyPCs, EndPCs, CopyInv
    <3>4. ASSUME NEW c \in Cells, c[1] <= log[ForkLine].step
          PROVE  /\ points[Parent][c] # 0 => points[fl.run][c] # 0
                 /\ histos[Parent][c] # 0 => histos[fl.run][c] # 0
        BY <3>1, <3>3, <3>4 DEF CopyInv, Inheritable, CopyPCs, EndPCs
    <3>5. 0 \notin 1..i-1
        OBVIOUS
    <3> QED
        BY <3>1, <3>2, <3>3, <3>4, <3>5 DEF Faithful, Parent
  <2> QED
      BY <2>2, <2>3, <2>4
<1>4. ASSUME NEW i \in 1..Len(log) PROVE Faithful(i)'
    BY <1>3, <1>4, FaithfulStays DEF FaithInv
<1> QED
    BY <1>2, <1>4 DEF FaithInv

LEMMA FaithAllHolds == Spec => []FaithAll
<1>1. Init => FaithAll
    BY TypeInvInit, StepsInvInit, CopyInvInit, OrderInvInit, FaithInvInit DEF FaithAll
<1>2. FaithAll /\ [Next]_vars => FaithAll'
    BY TypeInvStep, StepsInvStep, CopyInvStep, OrderInvStep, FaithInvStep DEF FaithAll
<1> QED
    BY <1>1, <1>2, PTL DEF Spec

(* history.go, processForkOp and buffer.go:174: a fork that was copied has what
   its parent had before it, and one that was refused has a parent that had not
   come so far, for every size of chunk and wherever batches, failures and
   crashes fall. *)
THEOREM ForksAreFaithful == Spec => []ForkFaithful
<1>1. FaithAll => ForkFaithful
    BY DEF FaithAll, FaithInv, Faithful, ForkFaithful
<1> QED
    BY <1>1, FaithAllHolds, PTL

-----------------------------------------------------------------------------
(* The cache of the browser.  A run that is no fork and that no error has hurt
   is clean.  Its count never passes the steps of its listed points: a count is
   taken after the keys of the points it counts are listed, and everything only
   grows.  So a page that reads the count first has the steps for it when it has
   read the keys, and keeps them until it has read the points: those of its
   range, the others being still in the database.  A change of the range starts
   again with the same keys. *)

OnlyErrors == Faults \subseteq {"db", "read"}

Clean(r) == ~Forked(r) /\ \A k \in Keys : <<r, k>> \notin hurtKeys

StepsAt(S) == {c[1] : c \in S}

ListedCells(r) == {c \in Stored(r) : c[2] \in keys[r]}

NamedCells(r) == {c \in Stored(r) : c[2] \in view.names}

(* The points a page has read, or is about to read, and those it leaves out. *)
ShownCells(r) == {c \in Stored(r) : \/ c[2] \in view.keys
                                    \/ c \in view.cells
                                    \/ c[1] \notin view.range /\ c[2] \in view.names}

(* The points that are kept, and those outside the range they were kept for. *)
KeptCells(r) == {c \in Stored(r) : c \in cache[r].cells \/ c[1] \notin cache[r].within}

PointsHold(r) ==
    /\ steps[r] \subseteq ScalarSteps(r)
    /\ \A c \in Stored(r) : c[2] \in keys[r] \/ (fl.pc = "keys" /\ fl.run = r /\ c[2] \in fl.keys)

CountHolds(r) == hcount[r] <= Cardinality(StepsAt(ListedCells(r))) /\ r \notin viewed

PageHolds(r) ==
    /\ view.pc \notin {"backfill", "recount", "store"}
    /\ view.pc = "keys" /\ view.count # None => view.count <= Cardinality(StepsAt(ListedCells(r)))
    /\ view.pc \in {"claim", "steps", "data", "shown"} /\ view.count # None =>
          /\ view.count <= Cardinality(StepsAt(NamedCells(r)))
          /\ view.keys \subseteq view.names
    /\ view.pc \in {"claim", "steps", "data"} /\ view.count # None /\ ~view.broken =>
          view.count <= Cardinality(StepsAt(ShownCells(r)))
    /\ view.pc = "steps" /\ view.n # 0 => steps[r] # {}
    /\ view.cells \subseteq Stored(r)

CacheHolds(r) ==
    cache[r] # None =>
        /\ cache[r].cells \subseteq Stored(r)
        /\ cache[r].within # {} => cache[r].count <= Cardinality(StepsAt(KeptCells(r)))

CacheInv ==
    \A r \in Runs : Clean(r) => /\ PointsHold(r)
                                /\ CountHolds(r)
                                /\ view.run = r => PageHolds(r)
                                /\ CacheHolds(r)

CacheAll == CountAll /\ CacheInv

LEMMA CacheInvInit == Init => CacheInv
<1> SUFFICES ASSUME Init, NEW r \in Runs
             PROVE  /\ PointsHold(r) /\ CountHolds(r) /\ CacheHolds(r)
                    /\ view.run = r => PageHolds(r)
    BY DEF CacheInv
<1>1. Stored(r) = {}
    BY DEF Init, Stored
<1>2. PointsHold(r)
    BY <1>1 DEF Init, PointsHold
<1>3. CountHolds(r)
  <2>1. StepsAt(ListedCells(r)) = {}
      BY <1>1 DEF StepsAt, ListedCells
  <2> QED
      BY <2>1, FS_EmptySet DEF Init, CountHolds
<1>4. CacheHolds(r) /\ view.run # r
    BY RunsAssumption DEF Init, CacheHolds, IdleView
<1> QED
    BY <1>2, <1>3, <1>4

(* More points, more steps. *)
LEMMA StepsAtGrow ==
    ASSUME NEW S \in SUBSET Cells, NEW T \in SUBSET Cells, S \subseteq T
    PROVE  /\ StepsAt(S) \subseteq StepsAt(T)
           /\ StepsAt(T) \subseteq Steps
           /\ Cardinality(StepsAt(S)) \in Nat /\ Cardinality(StepsAt(T)) \in Nat
           /\ Cardinality(StepsAt(S)) <= Cardinality(StepsAt(T))
<1>1. StepsAt(S) \subseteq StepsAt(T) /\ StepsAt(T) \subseteq Steps
    BY CellsArePairs DEF StepsAt
<1>2. StepsAt(S) \in SUBSET Steps /\ StepsAt(T) \in SUBSET Steps
    BY <1>1
<1>3. /\ IsFiniteSet(StepsAt(T))
      /\ Cardinality(StepsAt(S)) \in 0..MaxStep + 1
      /\ Cardinality(StepsAt(T)) \in 0..MaxStep + 1
    BY <1>2, CountOfSteps
<1>4. Cardinality(StepsAt(S)) <= Cardinality(StepsAt(T))
    BY <1>1, <1>3, FS_Subset
<1> QED
    BY <1>1, <1>3, <1>4, BoundsAssumption

LEMMA CellsOfRun ==
    ASSUME TypeOK, NEW r \in Runs
    PROVE  /\ Stored(r) \in SUBSET Cells
           /\ ListedCells(r) \in SUBSET Cells
           /\ ShownCells(r) \in SUBSET Cells
BY StoredTypes DEF ListedCells, ShownCells

(* A run is clean for good until it is not. *)
LEMMA ForksRemain ==
    ASSUME OnlyErrors, TypeInv, [Next]_vars, NEW r \in Runs, Forked(r)
    PROVE  Forked(r)'
<1> USE DEF logVars, dbVars, ghosts, bounds
<1>1. TypeInv'
    BY TypeInvStep
<1>2. CASE \E i \in 1..Len(log) : IsFork(i) /\ log[i].run = r
  <2>1. PICK i \in 1..Len(log) : IsFork(i) /\ log[i].run = r
      BY <1>2
  <2>2. log'[i] = log[i] /\ Len(log) <= Len(log')
      BY LogGrows
  <2>3. Len(log) \in Nat /\ Len(log') \in Nat
    <3>1. log \in Seq(Rows \cup Forks) /\ log' \in Seq(Rows \cup Forks)
        BY <1>1 DEF TypeInv, TypeOK
    <3> QED
        BY <3>1
  <2>4. i \in 1..Len(log')
      BY <2>2, <2>3
  <2> QED
      BY <2>1, <2>2, <2>4 DEF Forked, IsFork
<1>3. CASE rq.run = r
  <2>1. CASE ForkAppend
    <3> DEFINE l == [run |-> rq.run, step |-> rq.upto, scalars |-> {},
                     histograms |-> {}, parent |-> rq.parent]
    <3>1. log' = Append(log, l) /\ rq.parent \in Runs
        BY <2>1 DEF ForkAppend, TypeInv, LocalsInv
    <3>2. log \in Seq(Rows \cup Forks) /\ Len(log) \in Nat
        BY DEF TypeInv, TypeOK
    <3>3. Len(log') = Len(log) + 1 /\ log'[Len(log) + 1] = l
        BY <3>1, <3>2
    <3>4. Len(log) + 1 \in 1..Len(log')
        BY <3>2, <3>3
    <3> QED
        BY <1>3, <3>1, <3>3, <3>4, RunsAssumption DEF Forked, IsFork
  <2>2. CASE ForkRow \/ ForkClaim
      BY <1>3, <2>2 DEF ForkRow, ForkClaim, Forked, TypeInv, TypeOK
  <2>3. ~ForkRefused /\ ~Crash
      BY DEF OnlyErrors, ForkRefused, Crash, CrashAt, Fault
  <2>4. ~ \E q, parent \in Runs, s \in Steps : BeginFork(q, parent, s)
      BY <1>3, RunsAssumption DEF BeginFork, IdleRq
  <2>5. CASE UNCHANGED rq
      BY <1>3, <2>5 DEF Forked
  <2>6. CASE Browser
      BY <2>5, <2>6 DEF Browser, OpenPage, OpenProject, GetHistoryKeys, ReadClaim, ReadSteps,
         Backfill, BackfillBusy, Recount, StoreRecount, StreamKey, KeepHistory, ShowHistory,
         Zoom, KeysFail, RequestFails, AnswerBreaks
  <2>7. CASE Batch \/ Errors \/ SavePos
      BY <2>5, <2>7 DEF Batch, ReadLine, StartFlush, Errors, FlushScalarsFails,
         FlushHistogramsFails, FlushKeysFails, SetCountFails, ForkFails, SavePos
  <2>8. CASE Groups
      BY <2>5, <2>8 DEF Groups, FlushScalars, FlushHistograms, CountSteps, FlushKeys,
         ScalarsDone, HistogramsDone, SetCount, StoreCount, CountersDone
  <2>9. CASE Copy
      BY <2>5, <2>9 DEF Copy, ForkCheck, ForkInvalid, CopyScalars, CopyKeys, CopyHistograms,
         CopyRunKeys, ForkCount, SetForkCount, ForksDone
  <2>10. CASE Client
      BY <2>1, <2>2, <2>3, <2>4, <2>5, <2>10 DEF Client, LogLine, DeleteRun
  <2>11. CASE UNCHANGED vars
      BY <2>5, <2>11 DEF vars
  <2> QED
      BY <2>3, <2>6, <2>7, <2>8, <2>9, <2>10, <2>11 DEF Next, Flusher
<1> QED
    BY <1>2, <1>3 DEF Forked

LEMMA HurtKeysRemain ==
    ASSUME [Next]_vars
    PROVE  hurtKeys \subseteq hurtKeys'
<1> USE DEF logVars, dbVars, ghosts, bounds
<1>1. CASE UNCHANGED vars
    BY <1>1 DEF vars
<1>2. CASE SavePos \/ Crash
    BY <1>2 DEF SavePos, Crash, CrashAt
<1>3. CASE Browser
    BY <1>3 DEF Browser, OpenPage, OpenProject, GetHistoryKeys, ReadClaim, ReadSteps, Backfill,
        BackfillBusy, Recount, StoreRecount, StreamKey, KeepHistory, ShowHistory,
        Zoom, KeysFail, RequestFails, AnswerBreaks
<1>4. CASE Batch \/ Errors
    BY <1>4 DEF Batch, ReadLine, StartFlush, Errors, FlushScalarsFails, FlushHistogramsFails,
        FlushKeysFails, SetCountFails, ForkFails
<1>5. CASE Groups
    BY <1>5 DEF Groups, FlushScalars, FlushHistograms, CountSteps, FlushKeys, ScalarsDone,
        HistogramsDone, SetCount, StoreCount, CountersDone
<1>6. CASE Copy
    BY <1>6 DEF Copy, ForkCheck, ForkInvalid, CopyScalars, CopyKeys, CopyHistograms,
        CopyRunKeys, ForkCount, SetForkCount, ForksDone
<1>7. CASE Client
    BY <1>7 DEF Client, LogLine, BeginFork, ForkRow, ForkClaim, ForkAppend, ForkRefused, DeleteRun
<1> QED
    BY <1>1, <1>2, <1>3, <1>4, <1>5, <1>6, <1>7 DEF Next, Flusher

LEMMA CleanBefore ==
    ASSUME OnlyErrors, TypeInv, [Next]_vars, NEW r \in Runs, Clean(r)'
    PROVE  Clean(r)
BY ForksRemain, HurtKeysRemain DEF Clean

(* The run of a copy is a fork. *)
LEMMA CopiesAreForks ==
    ASSUME TypeInv, fl.pc \in CopyPCs
    PROVE  fl.run \in Runs /\ Forked(fl.run)
<1>1. fl.run = log[ForkLine].run /\ ForkLine \in 1..Len(log) /\ IsFork(ForkLine)
    BY ForkAtHand DEF TypeInv, FlusherInv, ForkPCs
<1> QED
    BY <1>1, ForkAtHand DEF Forked, TypeInv, FlusherInv, RunPCs

LEMMA StoredGrow ==
    ASSUME TypeInv, [Next]_vars, NEW r \in Runs
    PROVE  /\ Stored(r) \subseteq Stored(r)'
           /\ ListedCells(r) \subseteq ListedCells(r)'
           /\ ListedCells(r)' \in SUBSET Cells
<1>1. \A c \in Cells : points[r][c] # 0 => points'[r][c] # 0
    BY StoresGrow
<1>2. Stored(r) \subseteq Stored(r)'
    BY <1>1 DEF Stored
<1>3. ListedCells(r) \subseteq ListedCells(r)'
    BY <1>2, KeysGrow DEF ListedCells
<1>4. ListedCells(r)' \in SUBSET Cells
    BY DEF ListedCells, Stored
<1> QED
    BY <1>2, <1>3, <1>4

LEMMA WhoSteps ==
    ASSUME [Next]_vars
    PROVE  \/ UNCHANGED steps
           \/ \E q \in Runs : FlushScalars(q)
           \/ \E C \in Chunks(fl.left) : CopyScalars(C)
           \/ Backfill
<1> USE DEF logVars, dbVars, ghosts, bounds
<1>1. CASE UNCHANGED vars
    BY <1>1 DEF vars
<1>2. CASE SavePos \/ Crash
    BY <1>2 DEF SavePos, Crash, CrashAt
<1>3. CASE Browser
    BY <1>3 DEF Browser, OpenPage, OpenProject, GetHistoryKeys, ReadClaim, ReadSteps,
        BackfillBusy, Recount, StoreRecount, StreamKey, KeepHistory, ShowHistory,
        Zoom, KeysFail, RequestFails, AnswerBreaks
<1>4. CASE Batch \/ Errors
    BY <1>4 DEF Batch, ReadLine, StartFlush, Errors, FlushScalarsFails, FlushHistogramsFails,
        FlushKeysFails, SetCountFails, ForkFails
<1>5. CASE Groups
    BY <1>5 DEF Groups, FlushHistograms, CountSteps, FlushKeys, ScalarsDone,
        HistogramsDone, SetCount, StoreCount, CountersDone
<1>6. CASE Copy
    BY <1>6 DEF Copy, ForkCheck, ForkInvalid, CopyKeys, CopyHistograms,
        CopyRunKeys, ForkCount, SetForkCount, ForksDone
<1>7. CASE Client
    BY <1>7 DEF Client, LogLine, BeginFork, ForkRow, ForkClaim, ForkAppend, ForkRefused, DeleteRun
<1> QED
    BY <1>1, <1>2, <1>3, <1>4, <1>5, <1>6, <1>7 DEF Next, Flusher

(* A transaction of points adds steps with points only. *)
LEMMA FlushedSteps ==
    ASSUME TypeInv, [Next]_vars, NEW r \in Runs, FlushScalars(r), NEW s \in StepsOf(r)
    PROVE  s \in ScalarSteps(r)'
<1>1. PICK i \in batch : log[i].run = r /\ log[i].scalars # {} /\ s = log[i].step
    BY DEF StepsOf
<1>2. i \in Nat \ {0} /\ batch \subseteq Nat \ {0} /\ s \in Steps /\ log[i].scalars \subseteq Keys
  <2>1. batch \subseteq 1..Len(log) /\ Len(log) \in Nat
      BY BatchLines DEF TypeInv, TypeOK
  <2>2. batch \subseteq Nat \ {0}
      BY <2>1
  <2>3. i \in 1..Len(log)
      BY <2>1
  <2> QED
      BY <1>1, <2>2, <2>3, LineTypes DEF TypeInv
<1>3. PICK k \in log[i].scalars : TRUE
    BY <1>1
<1> DEFINE c == <<s, k>>
<1>4. c \in Cells /\ c[1] = s /\ c[2] = k
    BY <1>2, <1>3 DEF Cells
<1>5. i \in ScalarLines(r, c)
    BY <1>1, <1>3, <1>4 DEF ScalarLines
<1>6. Earliest(ScalarLines(r, c)) # 0
  <2>1. ScalarLines(r, c) \in SUBSET Nat /\ ScalarLines(r, c) \subseteq batch
      BY <1>2 DEF ScalarLines
  <2>2. Earliest(ScalarLines(r, c)) \in ScalarLines(r, c)
      BY <1>5, <2>1, EarliestIsFirst
  <2> QED
      BY <1>2, <2>1, <2>2
<1>7. points'[r][c] = InsertOrIgnore(points[r][c], ScalarLines(r, c))
    BY <1>4 DEF FlushScalars, AddScalars, TypeInv, TypeOK
<1>8. points'[r][c] # 0
    BY <1>5, <1>6, <1>7 DEF InsertOrIgnore
<1>9. c \in Stored(r)'
    BY <1>4, <1>8 DEF Stored
<1> QED
    BY <1>4, <1>9 DEF ScalarSteps

LEMMA PointsHoldStep ==
    ASSUME OnlyErrors, TypeInv, StepsInv, [Next]_vars, NEW r \in Runs, Clean(r), Clean(r)',
           PointsHold(r)
    PROVE  PointsHold(r)'
<1>1. \A C \in Chunks(fl.left) : CopyScalars(C) => fl.run \in Runs /\ fl.run # r
    BY CopiesAreForks DEF CopyScalars, CopyPCs, Clean
<1>2. ScalarSteps(r) \subseteq ScalarSteps(r)'
    BY StoredGrow DEF ScalarSteps
<1>3. steps'[r] \subseteq ScalarSteps(r)'
  <2>1. CASE UNCHANGED steps
      BY <1>2, <2>1 DEF PointsHold
  <2>2. ASSUME NEW q \in Runs, FlushScalars(q)
        PROVE  steps'[r] \subseteq ScalarSteps(r)'
    <3>1. steps' = [steps EXCEPT ![q] = @ \cup StepsOf(q)]
        BY <2>2 DEF FlushScalars
    <3>2. q # r => steps'[r] = steps[r]
        BY <3>1 DEF TypeInv, TypeOK
    <3>3. q = r => steps'[r] = steps[r] \cup StepsOf(r)
        BY <3>1 DEF TypeInv, TypeOK
    <3>4. q = r => StepsOf(r) \subseteq ScalarSteps(r)'
        BY <2>2, FlushedSteps
    <3> QED
        BY <1>2, <3>2, <3>3, <3>4 DEF PointsHold
  <2>3. ASSUME NEW C \in Chunks(fl.left), CopyScalars(C)
        PROVE  steps'[r] \subseteq ScalarSteps(r)'
    <3>1. steps'[r] = steps[r]
        BY <1>1, <2>3 DEF CopyScalars, TypeInv, TypeOK
    <3> QED
        BY <1>2, <3>1 DEF PointsHold
  <2>4. CASE Backfill
      BY <1>2, <2>4, BackfillAddsNothing DEF PointsHold
  <2> QED
      BY <2>1, <2>2, <2>3, <2>4, WhoSteps
<1>4. ASSUME NEW c \in Stored(r)'
      PROVE  c[2] \in keys'[r] \/ (fl'.pc = "keys" /\ fl'.run = r /\ c[2] \in fl'.keys)
  <2>1. CASE c \in Stored(r)
    <3>1. CASE c[2] \in keys[r]
        BY <3>1, KeysGrow
    <3>2. CASE fl.pc = "keys" /\ fl.run = r /\ c[2] \in fl.keys
      <4>1. UNCHANGED fl \/ FlushKeys \/ FlushKeysFails
        <5>1. ~StartFlush /\ ~Copy /\ ~Crash
            BY <3>2 DEF OnlyErrors, StartFlush, Crash, CrashAt, Fault, Copy, ForkCheck, ForkInvalid,
               CopyScalars, CopyKeys, CopyHistograms, CopyRunKeys, ForkCount, SetForkCount,
               ForksDone
        <5>2. Groups => FlushKeys
            BY <3>2 DEF Groups, FlushScalars, FlushHistograms, CountSteps, ScalarsDone,
               HistogramsDone, SetCount, CountersDone
        <5>3. Errors => FlushKeysFails
            BY <3>2 DEF Errors, FlushScalarsFails, FlushHistogramsFails, SetCountFails, ForkFails
        <5> QED
            BY <5>1, <5>2, <5>3, WhoFlushes
      <4>2. CASE FlushKeys
          BY <3>2, <4>2 DEF FlushKeys, TypeInv, TypeOK
      <4>3. CASE FlushKeysFails
        <5>1. c[2] \notin keys[r] => <<r, c[2]>> \in hurtKeys'
            BY <2>1, <3>2, <4>3 DEF FlushKeysFails, Unlisted
        <5>2. c[2] \in Keys
            BY <2>1, CellsArePairs DEF Stored
        <5> QED
            BY <5>1, <5>2, KeysGrow DEF Clean
      <4> QED
          BY <3>2, <4>1, <4>2, <4>3
    <3> QED
        BY <2>1, <3>1, <3>2 DEF PointsHold
  <2>2. CASE c \notin Stored(r)
    <3>1. c \in Cells /\ points[r][c] = 0 /\ points'[r][c] # 0
        BY <1>4, <2>2 DEF Stored
    <3>2. FlushScalars(r)
      <4>1. \A q \in Runs : FlushScalars(q) => q = r
          BY <3>1 DEF FlushScalars, AddScalars, TypeInv, TypeOK
      <4>2. \A q \in Runs : ~FlushHistograms(q)
          BY <3>1 DEF FlushHistograms
      <4>3. ~CopyHistograms
          BY <3>1 DEF CopyHistograms
      <4>4. \A C \in Chunks(fl.left) : ~CopyScalars(C)
          BY <1>1, <3>1 DEF CopyScalars, TypeInv, TypeOK
      <4> QED
          BY <3>1, <4>1, <4>2, <4>3, <4>4, WhoWrites
    <3>3. points'[r][c] = InsertOrIgnore(points[r][c], ScalarLines(r, c))
        BY <3>1, <3>2 DEF FlushScalars, AddScalars, TypeInv, TypeOK
    <3>4. PICK i \in batch : log[i].run = r /\ c[2] \in log[i].scalars
        BY <3>1, <3>3 DEF InsertOrIgnore, ScalarLines
    <3>5. c[2] \in KeysOf(r)
        BY <3>4 DEF KeysOf
    <3>6. fl'.pc = "keys" /\ fl'.run = r /\ fl'.keys = KeysOf(r)
        BY <3>2 DEF FlushScalars, TypeInv, TypeOK
    <3> QED
        BY <3>5, <3>6
  <2> QED
      BY <2>1, <2>2
<1> QED
    BY <1>3, <1>4 DEF PointsHold

LEMMA WhoCounts ==
    ASSUME [Next]_vars
    PROVE  \/ UNCHANGED hcount /\ viewed' \subseteq viewed
           \/ ForkClaim \/ SetCount \/ SetForkCount \/ StoreRecount
<1> USE DEF logVars, dbVars, ghosts, bounds
<1>1. CASE UNCHANGED vars
    BY <1>1 DEF vars
<1>2. CASE SavePos \/ Crash
    BY <1>2 DEF SavePos, Crash, CrashAt
<1>3. CASE Browser
    BY <1>3 DEF Browser, OpenPage, OpenProject, GetHistoryKeys, ReadClaim, ReadSteps, Backfill,
        BackfillBusy, Recount, StreamKey, KeepHistory, ShowHistory,
        Zoom, KeysFail, RequestFails, AnswerBreaks
<1>4. CASE Batch \/ Errors
    BY <1>4 DEF Batch, ReadLine, StartFlush, Errors, FlushScalarsFails, FlushHistogramsFails,
        FlushKeysFails, SetCountFails, ForkFails
<1>5. CASE Groups
    BY <1>5 DEF Groups, FlushScalars, FlushHistograms, CountSteps, FlushKeys, ScalarsDone,
        HistogramsDone, CountersDone
<1>6. CASE Copy
    BY <1>6 DEF Copy, ForkCheck, ForkInvalid, CopyScalars, CopyKeys, CopyHistograms,
        CopyRunKeys, ForkCount, ForksDone
<1>7. CASE Client
    BY <1>7 DEF Client, LogLine, BeginFork, ForkRow, ForkAppend, ForkRefused, DeleteRun
<1> QED
    BY <1>1, <1>2, <1>3, <1>4, <1>5, <1>6, <1>7 DEF Next, Flusher

(* Between the transactions of points the count a flusher takes is one of listed
   points. *)
LEMMA StepsAreListed ==
    ASSUME TypeInv, NEW r \in Runs, PointsHold(r), fl.pc # "keys"
    PROVE  steps[r] \subseteq StepsAt(ListedCells(r))
BY DEF PointsHold, ScalarSteps, StepsAt, ListedCells

LEMMA CountHoldsStep ==
    ASSUME OnlyErrors, TypeInv, GroupsInv, [Next]_vars, NEW r \in Runs, Clean(r),
           PointsHold(r), CountHolds(r), view.run = r => PageHolds(r)
    PROVE  CountHolds(r)'
<1> DEFINE before == StepsAt(ListedCells(r))
           after  == StepsAt(ListedCells(r))'
<1>1. /\ before \subseteq after /\ after \subseteq Steps
      /\ Cardinality(before) \in Nat /\ Cardinality(after) \in Nat
      /\ Cardinality(before) <= Cardinality(after)
  <2>1. ListedCells(r) \in SUBSET Cells /\ ListedCells(r) \subseteq ListedCells(r)'
        /\ ListedCells(r)' \in SUBSET Cells
      BY StoredGrow, CellsOfRun DEF TypeInv
  <2>2. after = StepsAt(ListedCells(r)')
      BY DEF StepsAt
  <2> QED
      BY <2>1, <2>2, StepsAtGrow
<1> HIDE DEF before, after
<1>2. hcount[r] \in Nat /\ hcount[r] <= Cardinality(before) /\ r \notin viewed
    BY DEF CountHolds, before, TypeInv, TypeOK
<1>3. hcount[r] <= Cardinality(after)
    BY <1>1, <1>2
<1>4. CASE UNCHANGED hcount /\ viewed' \subseteq viewed
    BY <1>2, <1>3, <1>4 DEF CountHolds, after
<1>5. CASE ForkClaim
  <2>1. rq.run # r
      BY DEF Clean, Forked
  <2>2. hcount'[r] = hcount[r] /\ viewed' = viewed
      BY <1>5, <2>1 DEF ForkClaim, ghosts, TypeInv, TypeOK
  <2> QED
      BY <1>2, <1>3, <2>2 DEF CountHolds, after
<1>6. CASE SetCount
  <2>1. hcount' = [hcount EXCEPT ![fl.run] = fl.n] /\ viewed' \subseteq viewed /\ fl.pc = "setCount"
      BY <1>6 DEF SetCount, StoreCount, NewCount
  <2>2. CASE fl.run # r
      BY <1>2, <1>3, <2>1, <2>2 DEF CountHolds, after, TypeInv, TypeOK
  <2>3. CASE fl.run = r
    <3>1. hcount'[r] = Cardinality(steps[r])
        BY <2>1, <2>3 DEF TypeInv, TypeOK, GroupsInv
    <3>2. steps[r] \in SUBSET after
        BY <1>1, <2>1, StepsAreListed DEF before
    <3>3. IsFiniteSet(after)
        BY <1>1, CountOfSteps
    <3>4. Cardinality(steps[r]) <= Cardinality(after)
        BY <3>2, <3>3, FS_Subset
    <3> QED
        BY <1>2, <2>1, <3>1, <3>4 DEF CountHolds, after
  <2> QED
      BY <2>2, <2>3
<1>7. CASE SetForkCount
  <2>1. fl.run \in Runs /\ fl.run # r
      BY <1>7, CopiesAreForks DEF SetForkCount, CopyPCs, Clean
  <2>2. hcount'[r] = hcount[r] /\ viewed' \subseteq viewed
      BY <1>7, <2>1 DEF SetForkCount, TypeInv, TypeOK
  <2> QED
      BY <1>2, <1>3, <2>2 DEF CountHolds, after
<1>8. CASE StoreRecount
  <2>1. view.run \in Runs /\ view.run # r
      BY <1>8 DEF StoreRecount, PageHolds, TypeInv, LocalsInv
  <2>2. hcount'[r] = hcount[r] /\ viewed' = viewed \cup {view.run}
      BY <1>8, <2>1 DEF StoreRecount, TypeInv, TypeOK
  <2> QED
      BY <1>2, <1>3, <2>1, <2>2 DEF CountHolds, after
<1> QED
    BY <1>4, <1>5, <1>6, <1>7, <1>8, WhoCounts

LEMMA WhoBrowses ==
    ASSUME OnlyErrors, [Next]_vars
    PROVE  UNCHANGED <<view, cache>> \/ Browser
<1> USE DEF logVars, dbVars, ghosts, bounds
<1>1. CASE UNCHANGED vars
    BY <1>1 DEF vars
<1>2. ~Crash
    BY DEF OnlyErrors, Crash, CrashAt, Fault
<1>3. CASE Batch \/ Errors \/ SavePos
    BY <1>3 DEF Batch, ReadLine, StartFlush, Errors, FlushScalarsFails, FlushHistogramsFails,
        FlushKeysFails, SetCountFails, ForkFails, SavePos
<1>4. CASE Groups
    BY <1>4 DEF Groups, FlushScalars, FlushHistograms, CountSteps, FlushKeys, ScalarsDone,
        HistogramsDone, SetCount, StoreCount, CountersDone
<1>5. CASE Copy
    BY <1>5 DEF Copy, ForkCheck, ForkInvalid, CopyScalars, CopyKeys, CopyHistograms,
        CopyRunKeys, ForkCount, SetForkCount, ForksDone
<1>6. CASE Client
    BY <1>6 DEF Client, LogLine, BeginFork, ForkRow, ForkClaim, ForkAppend, ForkRefused, DeleteRun
<1> QED
    BY <1>1, <1>2, <1>3, <1>4, <1>5, <1>6 DEF Next, Flusher

(* A count that had its steps has them still. *)
LEMMA EnoughStays ==
    ASSUME NEW S \in SUBSET Cells, NEW T \in SUBSET Cells, S \subseteq T,
           NEW n \in 0..MaxStep + 1, n <= Cardinality(StepsAt(S))
    PROVE  n <= Cardinality(StepsAt(T))
<1>1. /\ Cardinality(StepsAt(S)) \in Nat /\ Cardinality(StepsAt(T)) \in Nat
      /\ Cardinality(StepsAt(S)) <= Cardinality(StepsAt(T))
    BY StepsAtGrow
<1> QED
    BY <1>1, BoundsAssumption

LEMMA PageHoldsStep ==
    ASSUME OnlyErrors, TypeInv, StepsInv, [Next]_vars, NEW r \in Runs,
           CountHolds(r), view.run = r => PageHolds(r), view'.run = r
    PROVE  PageHolds(r)'
<1> USE DEF logVars, dbVars, ghosts, bounds
<1>1. /\ Stored(r) \in SUBSET Cells /\ Stored(r) \subseteq Stored(r)'
      /\ ListedCells(r) \in SUBSET Cells /\ ListedCells(r)' \in SUBSET Cells
      /\ ListedCells(r) \subseteq ListedCells(r)'
      /\ NamedCells(r) \in SUBSET Cells /\ NamedCells(r)' \in SUBSET Cells
      /\ ShownCells(r) \in SUBSET Cells /\ ShownCells(r)' \in SUBSET Cells
    BY StoredGrow, CellsOfRun DEF TypeInv, ShownCells, NamedCells, Stored
<1>2. /\ view.count # None => view.count \in 0..MaxStep + 1
      /\ hcount[r] \in 0..MaxStep + 1 /\ hcount[r] <= Cardinality(StepsAt(ListedCells(r)))
      /\ view \in ViewRecords /\ steps[r] \subseteq steps'[r]
    BY StepsGrow DEF CountHolds, TypeInv, TypeOK, ViewRecords
<1>3. \A n \in 0..MaxStep + 1 :
         /\ n <= Cardinality(StepsAt(ListedCells(r))) =>
               n <= Cardinality(StepsAt(ListedCells(r)'))
         /\ n <= Cardinality(StepsAt(ListedCells(r))) /\ ListedCells(r) \subseteq NamedCells(r)' =>
               n <= Cardinality(StepsAt(NamedCells(r)'))
         /\ n <= Cardinality(StepsAt(ListedCells(r))) /\ ListedCells(r) \subseteq ShownCells(r)' =>
               n <= Cardinality(StepsAt(ShownCells(r)'))
         /\ n <= Cardinality(StepsAt(NamedCells(r))) /\ NamedCells(r) \subseteq NamedCells(r)' =>
               n <= Cardinality(StepsAt(NamedCells(r)'))
         /\ n <= Cardinality(StepsAt(NamedCells(r))) /\ NamedCells(r) \subseteq ShownCells(r)' =>
               n <= Cardinality(StepsAt(ShownCells(r)'))
         /\ n <= Cardinality(StepsAt(ShownCells(r))) /\ ShownCells(r) \subseteq ShownCells(r)' =>
               n <= Cardinality(StepsAt(ShownCells(r)'))
    BY <1>1, EnoughStays
<1>4. /\ StepsAt(ListedCells(r)') = StepsAt(ListedCells(r))'
      /\ StepsAt(NamedCells(r)') = StepsAt(NamedCells(r))'
      /\ StepsAt(ShownCells(r)') = StepsAt(ShownCells(r))'
    BY DEF StepsAt
<1> HIDE DEF logVars, dbVars, ghosts, bounds
<1>5. CASE UNCHANGED view
  <2>1. ShownCells(r) \subseteq ShownCells(r)' /\ NamedCells(r) \subseteq NamedCells(r)'
      BY <1>1, <1>5 DEF ShownCells, NamedCells
  <2>2. PageHolds(r) /\ view' = view
      BY <1>5
  <2>3. view.cells \subseteq Stored(r)'
      BY <1>1, <2>2 DEF PageHolds
  <2> QED
      BY <1>2, <1>3, <1>4, <2>1, <2>2, <2>3 DEF PageHolds
<1>6. ASSUME NEW q \in Viewed, OpenPage(q) PROVE PageHolds(r)'
  <2>1. view' = [IdleView EXCEPT !.pc = "keys", !.run = q, !.count = hcount[q]]
      BY <1>6 DEF OpenPage
  <2>2. view'.pc = "keys" /\ view'.count = hcount[r] /\ view'.cells = {}
      BY <2>1 DEF IdleView
  <2> QED
      BY <1>2, <1>3, <1>4, <2>2 DEF PageHolds
<1>7. ASSUME NEW q \in Compared, OpenProject(q) PROVE PageHolds(r)'
  <2>1. view'.pc = "claim" /\ view'.count = None /\ view'.cells = {}
      BY <1>7 DEF OpenProject, IdleView
  <2> QED
      BY <2>1 DEF PageHolds
<1>8. CASE GetHistoryKeys
  <2>1. view'.run # None
      BY RunsAssumption
  <2>2. /\ view' = [view EXCEPT !.pc = "claim", !.names = keys[view.run], !.keys = keys[view.run]]
        /\ view.pc = "keys"
      BY <1>8, <2>1 DEF GetHistoryKeys, IdleView
  <2>3. /\ view'.pc = "claim" /\ view'.keys = keys[r] /\ view'.names = keys[r]
        /\ view'.count = view.count /\ view'.cells = view.cells
        /\ view.run = r /\ view.pc = "keys"
      BY <1>2, <2>2 DEF ViewRecords
  <2>4. UNCHANGED points
      BY <1>8 DEF GetHistoryKeys, dbVars
  <2>5. ListedCells(r) \subseteq ShownCells(r)' /\ ListedCells(r) \subseteq NamedCells(r)'
      BY <2>3, <2>4 DEF ListedCells, ShownCells, NamedCells, Stored
  <2>6. view.cells \subseteq Stored(r)'
      BY <1>1, <2>3 DEF PageHolds
  <2> QED
      BY <1>2, <1>3, <1>4, <2>3, <2>5, <2>6 DEF PageHolds
<1>9. CASE ReadClaim
  <2>1. /\ view'.pc = "steps" /\ view'.keys = view.keys /\ view'.names = view.names
        /\ view'.range = view.range /\ view'.broken = view.broken /\ view'.count = view.count
        /\ view'.cells = view.cells /\ view'.n = hcount[view.run] /\ view.run = r
        /\ view.pc = "claim" /\ UNCHANGED <<points, steps>>
      BY <1>2, <1>9 DEF ReadClaim, ViewRecords, dbVars
  <2>2. ShownCells(r) \subseteq ShownCells(r)' /\ NamedCells(r) \subseteq NamedCells(r)'
      BY <2>1 DEF ShownCells, NamedCells, Stored
  <2>3. steps[r] = {} => hcount[r] = 0
    <3>1. StepsAt(ListedCells(r)) \subseteq steps[r]
        BY DEF StepsInv, ScalarSteps, StepsAt, ListedCells
    <3>2. Cardinality({}) = 0
        BY FS_EmptySet
    <3>3. steps[r] = {} => Cardinality(StepsAt(ListedCells(r))) = 0
        BY <3>1, <3>2
    <3> QED
        BY <1>2, <3>3, BoundsAssumption
  <2>4. view.cells \subseteq Stored(r)'
      BY <1>1, <2>1 DEF PageHolds
  <2>5. view'.n # 0 => steps'[r] # {}
      BY <2>1, <2>3
  <2> QED
      BY <1>2, <1>3, <1>4, <2>1, <2>2, <2>4, <2>5 DEF PageHolds
<1>10. CASE ReadSteps
  <2>1. /\ view'.keys = view.keys /\ view'.names = view.names /\ view'.range = view.range
        /\ view'.broken = view.broken /\ view'.count = view.count /\ view'.cells = view.cells
        /\ view.run = r /\ view.pc = "steps" /\ UNCHANGED points
        /\ view'.pc = IF steps[r] # {} \/ view.n = 0 THEN "data" ELSE "backfill"
      BY <1>2, <1>10 DEF ReadSteps, ViewRecords, dbVars
  <2>2. view'.pc = "data"
      BY <2>1 DEF PageHolds
  <2>3. ShownCells(r) \subseteq ShownCells(r)' /\ NamedCells(r) \subseteq NamedCells(r)'
      BY <2>1 DEF ShownCells, NamedCells, Stored
  <2>4. view.cells \subseteq Stored(r)'
      BY <1>1, <2>1 DEF PageHolds
  <2> QED
      BY <1>2, <1>3, <1>4, <2>1, <2>2, <2>3, <2>4 DEF PageHolds
<1>11. CASE Backfill \/ BackfillBusy \/ Recount \/ StoreRecount
  <2>1. view.run = r /\ view.pc \in {"backfill", "recount", "store"}
      BY <1>2, <1>11 DEF Backfill, BackfillBusy, Recount, StoreRecount, ViewRecords
  <2> QED
      BY <2>1 DEF PageHolds
<1>12. ASSUME NEW k \in Keys, StreamKey(k) PROVE PageHolds(r)'
  <2>1. /\ view'.pc = "data" /\ view.pc = "data" /\ view'.keys = view.keys \ {k} /\ k \in view.keys
        /\ view'.names = view.names /\ view'.range = view.range /\ view'.broken = view.broken
        /\ view'.count = view.count /\ view.run = r /\ UNCHANGED points
        /\ view'.cells = view.cells \cup {c \in Stored(r) : c[2] = k /\ c[1] \in view.range}
      BY <1>2, <1>12 DEF StreamKey, Selected, ViewRecords, dbVars
  <2>2. NamedCells(r) \subseteq NamedCells(r)'
      BY <2>1 DEF NamedCells, Stored
  <2>3. view.count # None => ShownCells(r) \subseteq ShownCells(r)'
    <3>1. view.count # None => k \in view.names
        BY <2>1 DEF PageHolds
    <3> QED
        BY <2>1, <3>1 DEF ShownCells, Stored
  <2>4. view'.cells \subseteq Stored(r)'
      BY <1>1, <2>1 DEF PageHolds
  <2> QED
      BY <1>2, <1>3, <1>4, <2>1, <2>2, <2>3, <2>4 DEF PageHolds
<1>13. CASE KeepHistory
  <2>1. /\ view'.pc = "shown" /\ view.pc = "data" /\ view'.keys = view.keys
        /\ view'.names = view.names /\ view'.count = view.count /\ view.run = r
        /\ view'.cells = {} /\ UNCHANGED points
      BY <1>2, <1>13 DEF KeepHistory, ViewRecords, dbVars
  <2>2. NamedCells(r) \subseteq NamedCells(r)'
      BY <2>1 DEF NamedCells, Stored
  <2> QED
      BY <1>2, <1>3, <1>4, <2>1, <2>2 DEF PageHolds
<1>14. ~ShowHistory /\ ~KeysFail
    BY RunsAssumption DEF ShowHistory, KeysFail, IdleView
<1>15. ASSUME NEW R, view' = AskAgain(R), view.pc \in {"steps", "data", "shown"},
              view.count # None, UNCHANGED points
       PROVE  PageHolds(r)'
  <2>1. /\ view'.pc = "claim" /\ view'.keys = view.names /\ view'.names = view.names
        /\ view'.count = view.count /\ view'.cells = {} /\ view.run = r
      BY <1>2, <1>15 DEF AskAgain, ViewRecords
  <2>2. NamedCells(r) \subseteq NamedCells(r)' /\ NamedCells(r) \subseteq ShownCells(r)'
      BY <1>15, <2>1 DEF NamedCells, ShownCells, Stored
  <2> QED
      BY <1>2, <1>3, <1>4, <1>15, <2>1, <2>2 DEF PageHolds
<1>16. ASSUME NEW R \in Ranges, Zoom(R) PROVE PageHolds(r)'
    BY <1>15, <1>16 DEF Zoom, dbVars
<1>17. CASE RequestFails
  <2>1. view' = AskAgain(view.range) /\ view.count # None /\ UNCHANGED points
      BY <1>17 DEF RequestFails, dbVars
  <2>2. view.run = r
      BY <1>2, <2>1 DEF AskAgain, ViewRecords
  <2>3. view.pc \in {"steps", "data", "shown"}
      BY <1>17, <2>2 DEF RequestFails, PageHolds
  <2> QED
      BY <1>15, <2>1, <2>3
<1>18. ASSUME NEW k \in Keys, NEW D \in SUBSET Cells, AnswerBreaks(k, D) PROVE PageHolds(r)'
  <2>1. /\ view'.pc = "data" /\ view.pc = "data" /\ view'.keys = {} /\ view'.names = view.names
        /\ view'.broken = TRUE /\ view'.count = view.count /\ view.run = r /\ UNCHANGED points
        /\ view'.cells = view.cells \cup D /\ D \subseteq Stored(r)
      BY <1>2, <1>18 DEF AnswerBreaks, Selected, ViewRecords, dbVars
  <2>2. NamedCells(r) \subseteq NamedCells(r)'
      BY <2>1 DEF NamedCells, Stored
  <2>3. view'.cells \subseteq Stored(r)'
      BY <1>1, <2>1 DEF PageHolds
  <2> QED
      BY <1>2, <1>3, <1>4, <2>1, <2>2, <2>3 DEF PageHolds
<1> QED
    BY <1>5, <1>6, <1>7, <1>8, <1>9, <1>10, <1>11, <1>12, <1>13, <1>14, <1>16, <1>17, <1>18,
       WhoBrowses DEF Browser

LEMMA WhoKeeps ==
    ASSUME OnlyErrors, [Next]_vars
    PROVE  UNCHANGED cache \/ KeepHistory \/ KeysFail
BY WhoBrowses DEF Browser, OpenPage, OpenProject, GetHistoryKeys, ReadClaim, ReadSteps, Backfill,
   BackfillBusy, Recount, StoreRecount, StreamKey, ShowHistory, Zoom, RequestFails, AnswerBreaks

(* What is kept stays as good as it was. *)
LEMMA KeptStays ==
    ASSUME TypeInv, [Next]_vars, NEW r \in Runs, CacheHolds(r), cache'[r] = cache[r]
    PROVE  CacheHolds(r)'
<1>1. Stored(r) \in SUBSET Cells /\ Stored(r)' \in SUBSET Cells /\ Stored(r) \subseteq Stored(r)'
    BY StoredGrow DEF Stored
<1>2. /\ KeptCells(r) \in SUBSET Cells /\ KeptCells(r)' \in SUBSET Cells
      /\ KeptCells(r) \subseteq KeptCells(r)'
    BY <1>1 DEF KeptCells
<1>3. ASSUME cache[r] # None, cache[r].within # {}
      PROVE  cache[r].count <= Cardinality(StepsAt(KeptCells(r)'))
  <2>1. cache[r].count \in 0..MaxStep + 1
      BY <1>3 DEF TypeInv, TypeOK
  <2> QED
      BY <1>2, <1>3, <2>1, EnoughStays DEF CacheHolds
<1>4. StepsAt(KeptCells(r)') = StepsAt(KeptCells(r))'
    BY DEF StepsAt
<1> QED
    BY <1>1, <1>3, <1>4 DEF CacheHolds

LEMMA CacheHoldsStep ==
    ASSUME OnlyErrors, TypeInv, [Next]_vars, NEW r \in Runs,
           view.run = r => PageHolds(r), CacheHolds(r)
    PROVE  CacheHolds(r)'
<1>1. CASE cache'[r] = cache[r]
    BY <1>1, KeptStays
<1>2. CASE KeysFail /\ view.run = r
  <2>1. cache'[r].within = {} /\ cache'[r].cells = {}
      BY <1>2 DEF KeysFail, Keep, TypeInv, TypeOK
  <2> QED
      BY <2>1 DEF CacheHolds
<1>3. CASE KeepHistory /\ view.run = r
  <2> DEFINE within == IF view.broken THEN {} ELSE view.range
  <2>1. /\ cache' = [cache EXCEPT ![r] = [count |-> view.count, cells |-> view.cells,
                                          within |-> within]]
        /\ view.pc = "data" /\ view.keys = {} /\ view.count # None /\ UNCHANGED points
      BY <1>3 DEF KeepHistory, Keep, dbVars
  <2>2. /\ cache'[r].count = view.count /\ cache'[r].cells = view.cells
        /\ cache'[r].within = within
      BY <2>1 DEF TypeInv, TypeOK
  <2>3. view.cells \subseteq Stored(r)'
      BY <1>3, <2>1 DEF PageHolds, Stored
  <2>4. ASSUME within # {} PROVE view.count <= Cardinality(StepsAt(KeptCells(r)'))
    <3>1. ~view.broken /\ within = view.range
        BY <2>4
    <3>2. view.count <= Cardinality(StepsAt(ShownCells(r)))
        BY <1>3, <2>1, <3>1 DEF PageHolds
    <3>3. ShownCells(r) \subseteq KeptCells(r)'
        BY <2>1, <2>2, <3>1 DEF ShownCells, KeptCells, Stored
    <3>4. ShownCells(r) \in SUBSET Cells /\ KeptCells(r)' \in SUBSET Cells
        BY DEF ShownCells, KeptCells, Stored
    <3>5. view.count \in 0..MaxStep + 1
        BY <2>1 DEF TypeInv, TypeOK
    <3> QED
        BY <3>2, <3>3, <3>4, <3>5, EnoughStays
  <2>5. StepsAt(KeptCells(r)') = StepsAt(KeptCells(r))'
      BY DEF StepsAt
  <2> QED
      BY <2>2, <2>3, <2>4, <2>5 DEF CacheHolds
<1>4. CASE (KeepHistory \/ KeysFail) /\ view.run # r
  <2>1. cache'[r] = cache[r]
      BY <1>4 DEF KeepHistory, KeysFail, Keep, TypeInv, TypeOK
  <2> QED
      BY <1>1, <2>1
<1> QED
    BY <1>1, <1>2, <1>3, <1>4, WhoKeeps

LEMMA CacheAllStep == ASSUME OnlyErrors, CacheAll, [Next]_vars PROVE CacheAll'
<1>1. CountAll'
    BY CountAllStep DEF CacheAll
<1>2. ASSUME NEW r \in Runs, Clean(r)'
      PROVE  PointsHold(r)' /\ CountHolds(r)' /\ (view'.run = r => PageHolds(r)') /\ CacheHolds(r)'
  <2>1. Clean(r) /\ TypeInv /\ StepsInv /\ GroupsInv
      BY <1>2, CleanBefore DEF CacheAll, CountAll
  <2>2. PointsHold(r) /\ CountHolds(r) /\ (view.run = r => PageHolds(r)) /\ CacheHolds(r)
      BY <2>1 DEF CacheAll, CacheInv
  <2> QED
      BY <1>2, <2>1, <2>2, PointsHoldStep, CountHoldsStep, PageHoldsStep, CacheHoldsStep
<1> QED
    BY <1>1, <1>2 DEF CacheAll, CacheInv

(* What is kept, with what the database has outside the range it was kept for, has
   as many steps as the count it is kept under, and the run has no more than its
   count says. *)
LEMMA CurrentHoldsItsRange ==
    ASSUME CacheAll, NEW r \in Runs \ deleted, Settled(r), Clean(r), r \notin hurtCount, CacheHit(r)
    PROVE  LET held == {c[1] : c \in cache[r].cells} IN
           steps[r] \cap cache[r].within \subseteq held /\ held \subseteq steps[r]
<1> DEFINE held == StepsAt(cache[r].cells)
           kept == StepsAt(KeptCells(r))
<1>1. CountHolds(r) /\ CacheHolds(r) /\ cache[r] # None
    BY DEF CacheAll, CacheInv, CacheHit
<1>2. hcount[r] = Cardinality(steps[r])
    BY <1>1, SettledOwesNothing DEF CacheAll, CountAll, CountInv, Right, CountHolds
<1>3. held \subseteq steps[r]
    BY <1>1 DEF CacheHolds, StepsAt, CacheAll, CountAll, StepsInv, ScalarSteps
<1>4. kept \subseteq steps[r]
    BY DEF KeptCells, StepsAt, CacheAll, CountAll, StepsInv, ScalarSteps
<1>5. steps[r] \in SUBSET Steps
    BY DEF CacheAll, CountAll, TypeInv, TypeOK
<1>6. IsFiniteSet(steps[r]) /\ Cardinality(steps[r]) \in 0..MaxStep + 1
    BY <1>5, CountOfSteps
<1>7. ASSUME cache[r].within # {} PROVE kept = steps[r]
  <2>1. kept \in SUBSET Steps
      BY <1>4, <1>5
  <2>2. Cardinality(kept) \in 0..MaxStep + 1
      BY <2>1, CountOfSteps
  <2>3. Cardinality(steps[r]) <= Cardinality(kept)
      BY <1>1, <1>2, <1>7 DEF CacheHit, CacheHolds
  <2>4. Cardinality(kept) <= Cardinality(steps[r])
      BY <1>4, <1>6, FS_Subset
  <2>5. Cardinality(kept) = Cardinality(steps[r])
      BY <1>6, <2>2, <2>3, <2>4, BoundsAssumption
  <2> QED
      BY <1>4, <1>6, <2>5, FS_Subset
<1>8. kept \cap cache[r].within \subseteq held
    BY DEF KeptCells, StepsAt
<1>9. steps[r] \cap cache[r].within \subseteq held
    BY <1>7, <1>8
<1> QED
    BY <1>3, <1>9 DEF StepsAt

(* run.html:1245: whatever a browser keeps of a run that is not a fork has all
   of its steps in the range it was loaded for if the count is current and the
   run is settled; between its requests the flusher may go as far as it likes,
   the range may change, and statements may fail. *)
THEOREM CacheKeepsItsRange == ASSUME OnlyErrors PROVE Spec => []CacheHoldsItsRange
<1>1. CacheAll => CacheHoldsItsRange
    BY CurrentHoldsItsRange DEF CacheHoldsItsRange, Clean
<1>2. CacheAll /\ [Next]_vars => CacheAll'
    BY CacheAllStep
<1>3. Init => CacheAll
    BY CacheInvInit, TypeInvInit, StepsInvInit, GroupsInvInit, RowInvInit, CountInvInit
    DEF CacheAll, CountAll
<1> QED
    BY <1>1, <1>2, <1>3, PTL DEF Spec

-----------------------------------------------------------------------------
(* The lines are read like LineReader. *)

Held == {i \in batch : HasItem(i)}

LEMMA ReadingInit == Init => Reading!Init
BY DEF Init, Reading!Init

LEMMA WhoReads ==
    ASSUME [Next]_vars
    PROVE  \/ UNCHANGED logVars
           \/ \E l \in Payloads : LogLine(l)
           \/ ForkAppend \/ ReadLine \/ SavePos \/ ForksDone \/ Crash
<1> USE DEF dbVars, ghosts, bounds
<1>1. CASE UNCHANGED vars
    BY <1>1 DEF vars
<1>2. CASE Browser
    BY <1>2 DEF Browser, OpenPage, OpenProject, GetHistoryKeys, ReadClaim, ReadSteps, Backfill,
        BackfillBusy, Recount, StoreRecount, StreamKey, KeepHistory, ShowHistory,
        Zoom, KeysFail, RequestFails, AnswerBreaks
<1>3. CASE StartFlush \/ Errors
    BY <1>3 DEF StartFlush, Errors, FlushScalarsFails, FlushHistogramsFails, FlushKeysFails,
        SetCountFails, ForkFails
<1>4. CASE Groups
    BY <1>4 DEF Groups, FlushScalars, FlushHistograms, CountSteps, FlushKeys, ScalarsDone,
        HistogramsDone, SetCount, CountersDone
<1>5. CASE Copy
    BY <1>5 DEF Copy, ForkCheck, ForkInvalid, CopyScalars, CopyKeys, CopyHistograms,
        CopyRunKeys, ForkCount, SetForkCount
<1>6. CASE ForkRow \/ ForkClaim \/ ForkRefused
    BY <1>6 DEF ForkRow, ForkClaim, ForkRefused
<1>7. ASSUME NEW r \in Runs, NEW parent \in Runs, NEW s \in Steps, BeginFork(r, parent, s)
      PROVE  UNCHANGED logVars
    BY <1>7 DEF BeginFork
<1>8. ASSUME NEW r \in Deletable, DeleteRun(r) PROVE UNCHANGED logVars
    BY <1>8 DEF DeleteRun
<1> QED
    BY <1>1, <1>2, <1>3, <1>4, <1>5, <1>6, <1>7, <1>8 DEF Next, Client, Flusher, Batch

LEMMA AppendingIsWriting ==
    ASSUME TypeInv, NEW l \in Payloads \cup Forks, log' = Append(log, l),
           UNCHANGED <<saved, pos, batch>>
    PROVE  Reading!Write
<1>1. l \in Rows \cup Forks
    BY PayloadsAssumption
<1>2. \A i \in 1..Len(log) : log'[i] = log[i]
    BY <1>1, AppendKeepsLines DEF TypeInv
<1>3. Held' = Held
    BY <1>2, BatchLines DEF Held, HasItem, TypeInv
<1> QED
    BY <1>3 DEF Reading!Write, Held

LEMMA ReadingStep ==
    ASSUME TypeInv, [Next]_vars
    PROVE  [Reading!Next]_Reading!vars
<1>1. CASE UNCHANGED logVars
  <2>1. Held' = Held
      BY <1>1 DEF Held, HasItem, logVars
  <2> QED
      BY <1>1, <2>1 DEF Reading!vars, logVars, Held
<1>2. ASSUME NEW l \in Payloads, LogLine(l) PROVE Reading!Write
    BY <1>2, AppendingIsWriting DEF LogLine
<1>3. CASE ForkAppend
  <2> DEFINE l == [run |-> rq.run, step |-> rq.upto, scalars |-> {},
                   histograms |-> {}, parent |-> rq.parent]
  <2>1. l \in Forks
      BY <1>3 DEF ForkAppend, TypeInv, TypeOK, LocalsInv, Forks
  <2>2. log' = Append(log, l) /\ UNCHANGED <<saved, pos, batch>>
      BY <1>3 DEF ForkAppend
  <2> HIDE DEF l
  <2>3. Reading!Write
      BY <2>1, <2>2, AppendingIsWriting
  <2> QED
      BY <2>3 DEF Reading!Next
<1>4. CASE ReadLine
  <2>1. /\ pos < Len(log) /\ pos' = pos + 1
        /\ batch' = batch \cup {pos + 1}
        /\ UNCHANGED <<log, saved>>
      BY <1>4 DEF ReadLine
  <2>2. Held' = IF HoldsItems(log[pos + 1]) THEN Held \cup {pos + 1} ELSE Held
      BY <2>1 DEF Held, HasItem
  <2> QED
      BY <2>1, <2>2 DEF Reading!Next, Reading!Read, Held
<1>5. CASE SavePos
  <2>1. saved' = pos /\ UNCHANGED <<log, pos, batch>>
      BY <1>5 DEF SavePos
  <2>2. Held' = Held
      BY <2>1 DEF Held, HasItem
  <2> QED
      BY <2>1, <2>2 DEF Reading!Next, Reading!Save, Held
<1>6. CASE ForksDone
  <2>1. batch' = {} /\ UNCHANGED <<log, saved, pos>>
      BY <1>6 DEF ForksDone
  <2> QED
      BY <2>1 DEF Reading!Next, Reading!Leave
<1>7. CASE Crash
  <2>1. PICK s \in 0..saved : CrashAt(s)
      BY <1>7 DEF Crash
  <2>2. saved' = s /\ pos' = s /\ batch' = {} /\ log' = log
      BY <2>1 DEF CrashAt
  <2> QED
      BY <2>2 DEF Reading!Next, Reading!Restart
<1> QED
    BY <1>1, <1>2, <1>3, <1>4, <1>5, <1>6, <1>7, WhoReads DEF Reading!Next

(* What this module takes for the log is what module Wal shows the log to be
   while no compaction is torn: flushes, failures and crashes included, lines are
   read in turn and once in a life, and again from a saved position on. *)
THEOREM HistoryIsLineReader == Spec => ImplementsLineReader
<1>1. TypeInv /\ [Next]_vars => [Reading!Next]_Reading!vars
    BY ReadingStep
<1> QED
    BY <1>1, ReadingInit, TypeInvHolds, PTL DEF Spec, ImplementsLineReader, Reading!Spec

=============================================================================
