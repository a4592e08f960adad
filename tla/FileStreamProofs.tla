-------------------------- MODULE FileStreamProofs --------------------------
(***************************************************************************)
(* Theorems about FileStream, for any clients, handlers, runs and plan,    *)
(* with every fault of the model.                                          *)
(***************************************************************************)
EXTENDS FileStream, FiniteSetTheorems, TLAPS

Creation == {"byName", "insert", "update", "fetch"}
Writing  == {"files", "count", "reply"}
Posting  == {"find"} \cup Writing

LEMMA PlanFacts ==
    /\ Last \in Nat
    /\ \A k \in 1..Last : /\ Plan[k].steps \subseteq Nat
                          /\ FilesOf(k) \subseteq Files
                          /\ Parts(k) = FilesOf(k) \ {"summary"}
<1>1. Last \in Nat  BY PlanAssumption DEF Last
<1>2. ASSUME NEW k \in 1..Last PROVE Plan[k] \in [steps : SUBSET Nat, others : SUBSET OtherFiles]
  <2> DEFINE Chunk == [steps : SUBSET Nat, others : SUBSET OtherFiles]
  <2>1. Plan \in Seq(Chunk)  BY PlanAssumption
  <2> HIDE DEF Chunk
  <2>2. Plan[k] \in Chunk  BY <2>1 DEF Last
  <2> QED BY <2>2 DEF Chunk
<1>3. ASSUME NEW k \in 1..Last
      PROVE  Plan[k].steps \subseteq Nat /\ FilesOf(k) \subseteq Files
  <2>1. Plan[k].steps \in SUBSET Nat /\ Plan[k].others \in SUBSET OtherFiles  BY <1>2
  <2> QED BY <2>1 DEF FilesOf, Files
<1> QED BY <1>1, <1>3 DEF Parts

LEMMA IdleType == IdleReq \in Requests
BY PlanFacts DEF IdleReq, Requests, ReqPCs

-----------------------------------------------------------------------------
(* What a handler knows: it serves a chunk its client has reached, and what it
   no longer has to log is in the log.  The operators take the contents of the
   variables as arguments. *)

Kept(q, lg) ==
    /\ q.run \in Runs
    /\ q.files \subseteq FilesOf(q.chunk)
    /\ \A f \in Parts(q.chunk) \ q.files : <<q.client, q.chunk, f>> \in lg[q.run]

Serves(q, nx, lg) ==
    /\ q.pc # "idle" => q.client \in Clients /\ q.chunk <= nx[q.client]
    /\ q.pc \in Creation => q.chunk = 0
    /\ q.pc \in Posting => q.chunk \in 1..Last
    /\ q.pc \in {"update", "fetch"} => q.run \in Runs
    /\ q.pc \in Writing => Kept(q, lg)
    /\ q.pc = "reply" => q.files = {}
    /\ q.pc = "count" => "history" \notin q.files /\ <<q.client, q.chunk, "history">> \in lg[q.run]

(* A client waits for a handler that serves the chunk it is at. *)
Linked(c, nx, wt, rq) ==
    wt[c] # None => /\ rq[wt[c]].pc # "idle"
                    /\ rq[wt[c]].client = c
                    /\ rq[wt[c]].chunk = nx[c]

Core == /\ TypeOK
        /\ \A h \in Handlers : Serves(req[h], next, logged)
        /\ \A c \in Clients : Linked(c, next, waiting, req)

(* What a handler knows stays true while the log grows and clients advance. *)
LEMMA StillServes ==
    ASSUME TypeOK, logged' \in [Runs -> SUBSET (Clients \X (1..Last) \X Files)],
           next' \in [Clients -> 0..Last + 1],
           NEW q \in Requests, Serves(q, next, logged),
           \A r \in Runs : logged[r] \subseteq logged'[r],
           \A c \in Clients : next[c] <= next'[c]
    PROVE  Serves(q, next', logged')
<1>1. q.pc # "idle" => q.chunk <= next'[q.client]
  BY PlanFacts DEF Serves, TypeOK, Requests
<1>2. q.pc \in Writing => Kept(q, logged')
  BY DEF Serves, Kept
<1>3. q.pc = "count" => <<q.client, q.chunk, "history">> \in logged'[q.run]
  BY DEF Serves, Kept, Writing
<1> QED BY <1>1, <1>2, <1>3 DEF Serves

(* A handler goes on with its request, to q. *)
MovesTo(h, q) ==
    /\ q \in Requests
    /\ req[h].pc # "idle" /\ q.pc # "idle"
    /\ q.client = req[h].client /\ q.chunk = req[h].chunk
    /\ req' = [req EXCEPT ![h] = q]
    /\ UNCHANGED clientVars

LEMMA MoveKeeps ==
    ASSUME Core, NEW h \in Handlers, NEW q, MovesTo(h, q), TypeOK',
           Serves(q, next, logged'),
           \A r \in Runs : logged[r] \subseteq logged'[r]
    PROVE  Core'
<1>1. next' = next /\ waiting' = waiting  BY DEF MovesTo, clientVars
<1>2. ASSUME NEW g \in Handlers PROVE Serves(req'[g], next', logged')
  <2>1. CASE g = h  BY <1>1, <2>1 DEF MovesTo, Core, TypeOK
  <2>2. CASE g # h
    <3>1. req'[g] = req[g] /\ req[g] \in Requests  BY <2>2 DEF MovesTo, Core, TypeOK
    <3>2. \A c \in Clients : next[c] <= next'[c]  BY <1>1, PlanFacts DEF Core, TypeOK
    <3>3. Serves(req[g], next', logged')
      BY <3>1, <3>2, StillServes DEF Core, TypeOK
    <3> QED BY <3>1, <3>3
  <2> QED BY <2>1, <2>2
<1>3. ASSUME NEW c \in Clients PROVE Linked(c, next', waiting', req')
  BY <1>1 DEF MovesTo, Core, TypeOK, Linked
<1> QED BY <1>2, <1>3 DEF Core

(* A handler is done with its request, and answers. *)
LEMMA AnswerTypes ==
    ASSUME Core, NEW h \in Handlers, NEW s \in BOOLEAN, req[h].pc # "idle", Answer(h, s)
    PROVE  /\ next' \in [Clients -> 0..Last + 1]
           /\ tries' \in [Clients -> 0..MaxTries]
           /\ waiting' \in [Clients -> Handlers \cup {None}]
           /\ req' \in [Handlers -> Requests]
           /\ \A c \in Clients : next[c] <= next'[c]
<1>1. req' \in [Handlers -> Requests]  BY IdleType DEF Answer, Core, TypeOK
<1>2. CASE waiting[req[h].client] # h
  BY <1>1, <1>2, PlanFacts DEF Answer, clientVars, Core, TypeOK
<1>3. CASE waiting[req[h].client] = h
  <2> DEFINE c == req[h].client
  <2>1. c \in Clients /\ h # None  BY NoneAssumption DEF Core, Serves
  <2>2. next[c] = req[h].chunk  BY <1>3, <2>1 DEF Core, Linked
  <2>3. next[c] \in 0..Last  BY <2>2 DEF Core, TypeOK, Requests
  <2>4. /\ next' = [next EXCEPT ![c] = IF s THEN @ + 1 ELSE @]
        /\ tries' = [tries EXCEPT ![c] = IF s THEN 0 ELSE @]
        /\ waiting' = [waiting EXCEPT ![c] = None]
    BY <1>3 DEF Answer
  <2> HIDE DEF c
  <2>5. next' \in [Clients -> 0..Last + 1] /\ \A d \in Clients : next[d] <= next'[d]
    BY <2>1, <2>3, <2>4, PlanFacts DEF Core, TypeOK
  <2>6. tries' \in [Clients -> 0..MaxTries]  BY <2>1, <2>4, TriesAssumption DEF Core, TypeOK
  <2>7. waiting' \in [Clients -> Handlers \cup {None}]  BY <2>4 DEF Core, TypeOK
  <2> QED BY <1>1, <2>5, <2>6, <2>7
<1> QED BY <1>2, <1>3

LEMMA AnswerKeeps ==
    ASSUME Core, NEW h \in Handlers, NEW s \in BOOLEAN, req[h].pc # "idle", Answer(h, s),
           TypeOK', logged' = logged
    PROVE  Core'
<1>1. \A c \in Clients : next[c] <= next'[c]  BY AnswerTypes
<1>2. ASSUME NEW g \in Handlers PROVE Serves(req'[g], next', logged')
  <2>1. CASE g = h
    <3>1. req'[g] = IdleReq  BY <2>1 DEF Answer, Core, TypeOK
    <3> QED BY <3>1 DEF Serves, IdleReq, Creation, Posting, Writing
  <2>2. CASE g # h
    <3>1. req'[g] = req[g] /\ req[g] \in Requests  BY <2>2 DEF Answer, Core, TypeOK
    <3>2. Serves(req[g], next', logged')
      BY <1>1, <3>1, StillServes DEF Core, TypeOK
    <3> QED BY <3>1, <3>2
  <2> QED BY <2>1, <2>2
<1>3. ASSUME NEW c \in Clients PROVE Linked(c, next', waiting', req')
  <2>1. CASE waiting'[c] = None  BY <2>1 DEF Linked
  <2>2. CASE waiting'[c] # None
    <3>1. waiting'[c] = waiting[c] /\ next'[c] = next[c]
      BY <2>2 DEF Answer, clientVars, Core, TypeOK
    <3>2. waiting[c] # h
      BY <2>2, <3>1 DEF Answer, clientVars, Core, TypeOK, Linked
    <3>3. req'[waiting[c]] = req[waiting[c]]
      BY <2>2, <3>1, <3>2 DEF Answer, Core, TypeOK
    <3> QED BY <3>1, <3>3, <2>2 DEF Core, Linked
  <2> QED BY <2>1, <2>2
<1> QED BY <1>2, <1>3 DEF Core

-----------------------------------------------------------------------------
(* What each step of a handler does, in these words. *)

Moves(h) ==
    \E q \in Requests :
        /\ MovesTo(h, q)
        /\ Serves(q, next, logged')
        /\ \A r \in Runs : logged[r] \subseteq logged'[r]

Answers(h) ==
    /\ req[h].pc # "idle"
    /\ \E s \in BOOLEAN : Answer(h, s)
    /\ logged' = logged

(* The types of what requests leave alone. *)
OthersTyped ==
    /\ state' \in [Runs -> States]
    /\ deleted' \subseteq Runs
    /\ received' \in [Runs -> Nat]
    /\ logged' \in [Runs -> SUBSET (Clients \X (1..Last) \X Files)]
    /\ overlaps' \in Nat
    /\ missed' \in Nat
    /\ hurt' \subseteq Runs
    /\ faults' \in Nat

LEMMA UpsertSteps ==
    ASSUME Core, NEW h \in Handlers, Upsert(h)
    PROVE  OthersTyped /\ (Moves(h) \/ Answers(h))
<1>1. CASE FindByName(h)
  <2>1. OthersTyped /\ logged' = logged
    BY <1>1 DEF FindByName, OthersTyped, dbVars, ghosts, Core, TypeOK
  <2> DEFINE To(q) == q = [req[h] EXCEPT !.pc = "insert"]
                      \/ \E r \in Live : q = [req[h] EXCEPT !.pc = "update", !.run = r]
  <2>2. PICK q : req' = [req EXCEPT ![h] = q] /\ To(q)
    <3>1. CASE req' = [req EXCEPT ![h].pc = "insert"]
      <4> DEFINE p == [req[h] EXCEPT !.pc = "insert"]
      <4>1. req' = [req EXCEPT ![h] = p] /\ To(p)  BY <3>1
      <4> QED BY <4>1
    <3>2. CASE \E r \in Live : req' = [req EXCEPT ![h].pc = "update", ![h].run = r]
      <4>1. PICK r \in Live : req' = [req EXCEPT ![h].pc = "update", ![h].run = r]  BY <3>2
      <4> DEFINE p == [req[h] EXCEPT !.pc = "update", !.run = r]
      <4>2. req' = [req EXCEPT ![h] = p] /\ To(p)  BY <4>1
      <4> QED BY <4>2
    <3> QED BY <1>1, <3>1, <3>2 DEF FindByName, Goto
  <2>3. req[h].pc = "byName" /\ req[h] \in Requests /\ Serves(req[h], next, logged) /\ Live \subseteq Runs
    BY <1>1 DEF FindByName, Core, TypeOK, Live
  <2>4. q \in Requests /\ q.pc # "idle" /\ q.client = req[h].client /\ q.chunk = req[h].chunk
    BY <2>2, <2>3 DEF Requests, ReqPCs
  <2>5. Serves(q, next, logged')
    <3>1. req[h].chunk = 0 /\ q.chunk = 0
      BY <2>3, <2>4 DEF Serves, Creation
    <3>2. q.client \in Clients /\ q.chunk <= next[q.client]
      BY <2>3, <2>4 DEF Serves
    <3>3. q.pc = "insert" \/ (q.pc = "update" /\ q.run \in Runs)
      BY <2>2, <2>3 DEF Requests
    <3> QED BY <3>1, <3>2, <3>3 DEF Serves, Creation, Posting, Writing
  <2>6. MovesTo(h, q)  BY <1>1, <2>2, <2>3, <2>4 DEF MovesTo, FindByName
  <2> QED BY <2>1, <2>4, <2>5, <2>6 DEF Moves
<1>l. CASE LookupFails(h)
  <2>1. OthersTyped /\ logged' = logged
    BY <1>l DEF LookupFails, Fault, OthersTyped, dbVars, Core, TypeOK
  <2> DEFINE q == [req[h] EXCEPT !.pc = "insert"]
  <2>3. req[h].pc = "byName" /\ req[h] \in Requests /\ Serves(req[h], next, logged)
    BY <1>l DEF LookupFails, Core, TypeOK
  <2>4. q \in Requests /\ q.pc = "insert" /\ q.client = req[h].client /\ q.chunk = req[h].chunk
    BY <2>3 DEF Requests, ReqPCs
  <2>5. req' = [req EXCEPT ![h] = q]  BY <1>l DEF LookupFails, Goto
  <2> HIDE DEF q
  <2>6. Serves(q, next, logged')  BY <2>1, <2>3, <2>4 DEF Serves, Creation, Posting, Writing
  <2>7. MovesTo(h, q)  BY <1>l, <2>3, <2>4, <2>5 DEF MovesTo, LookupFails
  <2> QED BY <2>1, <2>4, <2>6, <2>7 DEF Moves
<1>2. CASE \E r \in Runs : InsertRun(h, r)
  <2>1. PICK r \in Runs : InsertRun(h, r)  BY <1>2
  <2> DEFINE q == [req[h] EXCEPT !.pc = "fetch", !.run = r]
  <2>2. OthersTyped /\ logged' = logged
    <3>1. Given[req[h].client] \in States
      BY <2>1, GivenAssumption DEF InsertRun, Core, Serves
    <3>2. state' \in [Runs -> States]  BY <2>1, <3>1 DEF InsertRun, Core, TypeOK, States
    <3> QED BY <2>1, <3>2 DEF InsertRun, OthersTyped, ghosts, Core, TypeOK
  <2>3. req[h].pc = "insert" /\ req[h] \in Requests /\ Serves(req[h], next, logged)
    BY <2>1 DEF InsertRun, Core, TypeOK
  <2>4. q \in Requests /\ q.pc = "fetch" /\ q.client = req[h].client /\ q.chunk = req[h].chunk /\ q.run = r
    BY <2>3 DEF Requests, ReqPCs
  <2>5. req' = [req EXCEPT ![h] = q]  BY <2>1 DEF InsertRun
  <2> HIDE DEF q
  <2>6. Serves(q, next, logged')  BY <2>2, <2>3, <2>4 DEF Serves, Creation, Posting, Writing
  <2>7. MovesTo(h, q)  BY <2>1, <2>3, <2>4, <2>5 DEF MovesTo, InsertRun
  <2> QED BY <2>2, <2>4, <2>6, <2>7 DEF Moves
<1>3. CASE UpdateRun(h)
  <2> DEFINE q == [req[h] EXCEPT !.pc = "fetch"]
  <2>2. OthersTyped /\ logged' = logged
    <3>1. Given[req[h].client] \in States /\ req[h].run \in Runs
      BY <1>3, GivenAssumption DEF UpdateRun, Core, Serves
    <3>2. state' \in [Runs -> States]  BY <1>3, <3>1 DEF UpdateRun, Core, TypeOK
    <3> QED BY <1>3, <3>2 DEF UpdateRun, OthersTyped, ghosts, Core, TypeOK
  <2>3. req[h].pc = "update" /\ req[h] \in Requests /\ Serves(req[h], next, logged)
    BY <1>3 DEF UpdateRun, Core, TypeOK
  <2>4. /\ q \in Requests /\ q.pc = "fetch" /\ q.client = req[h].client
        /\ q.chunk = req[h].chunk /\ q.run = req[h].run
    BY <2>3 DEF Requests, ReqPCs
  <2>5. req' = [req EXCEPT ![h] = q]  BY <1>3 DEF UpdateRun, Goto
  <2> HIDE DEF q
  <2>6. Serves(q, next, logged')  BY <2>2, <2>3, <2>4 DEF Serves, Creation, Posting, Writing
  <2>7. MovesTo(h, q)  BY <1>3, <2>3, <2>4, <2>5 DEF MovesTo, UpdateRun
  <2> QED BY <2>2, <2>4, <2>6, <2>7 DEF Moves
<1>4. CASE FetchRun(h)
  <2>1. OthersTyped /\ logged' = logged /\ req[h].pc # "idle"
    BY <1>4 DEF FetchRun, OthersTyped, dbVars, ghosts, Core, TypeOK
  <2>2. (req[h].run \in Live) \in BOOLEAN /\ Answer(h, req[h].run \in Live)
    BY <1>4 DEF FetchRun
  <2>3. \E s \in BOOLEAN : Answer(h, s)  BY <2>2, Zenon
  <2> QED BY <2>1, <2>3 DEF Answers
<1> QED BY <1>1, <1>l, <1>2, <1>3, <1>4 DEF Upsert

(* The steps in which a handler is through with file f, and goes on at pc. *)
LEMMA FileSteps ==
    ASSUME Core, NEW h \in Handlers, req[h].pc = "files", NEW f \in req[h].files,
           NEW pc \in {"files", "count"}, pc = "count" => f = "history",
           f # "summary" => AppendFile(h, f),
           f = "summary" => logged' = logged,
           req' = [req EXCEPT ![h].pc = pc, ![h].files = @ \ {f}],
           UNCHANGED clientVars
    PROVE  Moves(h) /\ logged' \in [Runs -> SUBSET (Clients \X (1..Last) \X Files)]
<1> DEFINE q == [req[h] EXCEPT !.pc = pc, !.files = @ \ {f}]
<1>1. /\ req[h] \in Requests /\ Serves(req[h], next, logged)
      /\ logged \in [Runs -> SUBSET (Clients \X (1..Last) \X Files)]
  BY DEF Core, TypeOK
<1>2. /\ req[h].client \in Clients /\ req[h].chunk \in 1..Last /\ req[h].run \in Runs
      /\ Kept(req[h], logged)
  BY <1>1 DEF Serves, Kept, Posting, Writing
<1>3. /\ q \in Requests /\ q.pc = pc /\ q.client = req[h].client
      /\ q.chunk = req[h].chunk /\ q.run = req[h].run /\ q.files = req[h].files \ {f}
  BY <1>1 DEF Requests, ReqPCs
<1>4. req' = [req EXCEPT ![h] = q]  OBVIOUS
<1> HIDE DEF q
<1>5. f \in Files /\ Parts(q.chunk) = FilesOf(q.chunk) \ {"summary"}
  BY <1>1, <1>2, <1>3, PlanFacts DEF Requests
<1>6. /\ logged' \in [Runs -> SUBSET (Clients \X (1..Last) \X Files)]
      /\ \A r \in Runs : logged[r] \subseteq logged'[r]
      /\ f # "summary" => <<q.client, q.chunk, f>> \in logged'[q.run]
  <2>1. CASE f = "summary"  BY <1>1, <2>1
  <2>2. CASE f # "summary"
    <3>1. logged' = [logged EXCEPT ![q.run] = @ \cup {<<q.client, q.chunk, f>>}]
      BY <2>2, <1>3 DEF AppendFile
    <3>2. <<q.client, q.chunk, f>> \in Clients \X (1..Last) \X Files
      BY <1>2, <1>3, <1>5
    <3> QED BY <1>1, <1>2, <1>3, <3>1, <3>2
  <2> QED BY <2>1, <2>2
<1>7. Kept(q, logged')
  BY <1>2, <1>3, <1>5, <1>6 DEF Kept
<1>8. pc = "count" => "history" \notin q.files /\ <<q.client, q.chunk, "history">> \in logged'[q.run]
  BY <1>3, <1>6
<1>9. Serves(q, next, logged')
  BY <1>1, <1>2, <1>3, <1>7, <1>8 DEF Serves, Creation, Posting, Writing
<1>10. MovesTo(h, q)  BY <1>3, <1>4 DEF MovesTo
<1> QED BY <1>3, <1>6, <1>9, <1>10 DEF Moves

(* The steps in which a handler goes on at pc, with nothing logged. *)
LEMMA GoSteps ==
    ASSUME Core, NEW h \in Handlers, NEW pc \in {"files", "reply"},
           \/ req[h].pc = "count"
           \/ req[h].pc = "files" /\ req[h].files = {},
           pc = "reply" => req[h].files = {},
           Goto(h, pc), logged' = logged, UNCHANGED clientVars
    PROVE  Moves(h)
<1> DEFINE q == [req[h] EXCEPT !.pc = pc]
<1>1. req[h] \in Requests /\ Serves(req[h], next, logged)
  BY DEF Core, TypeOK
<1>3. /\ q \in Requests /\ q.pc = pc /\ q.client = req[h].client
      /\ q.chunk = req[h].chunk /\ q.run = req[h].run /\ q.files = req[h].files
  BY <1>1 DEF Requests, ReqPCs
<1>4. req' = [req EXCEPT ![h] = q]  BY DEF Goto
<1> HIDE DEF q
<1>5. Serves(q, next, logged')
  BY <1>1, <1>3 DEF Serves, Kept, Creation, Posting, Writing
<1>6. MovesTo(h, q)  BY <1>3, <1>4 DEF MovesTo
<1> QED BY <1>3, <1>5, <1>6 DEF Moves

LEMMA ServeSteps ==
    ASSUME Core, NEW h \in Handlers, ServeHTTP(h)
    PROVE  OthersTyped /\ (Moves(h) \/ Answers(h))
<1>c. /\ req[h] \in Requests /\ Serves(req[h], next, logged)
      /\ logged \in [Runs -> SUBSET (Clients \X (1..Last) \X Files)]
  BY DEF Core, TypeOK
<1>f. \A kind : Fault(kind) => faults' \in Nat  BY DEF Fault, Core, TypeOK
<1>r. req[h].pc \in Writing => req[h].run \in Runs /\ req[h].chunk \in 1..Last
  BY <1>c DEF Serves, Kept, Posting
<1>1. CASE FindRun(h)
  <2>1. PICK r \in Runs : req' = [req EXCEPT ![h].pc = "files", ![h].run = r, ![h].files = FilesOf(req[h].chunk)]
    BY <1>1 DEF FindRun, Live
  <2> DEFINE q == [req[h] EXCEPT !.pc = "files", !.run = r, !.files = FilesOf(req[h].chunk)]
  <2>2. OthersTyped /\ logged' = logged
    BY <1>1 DEF FindRun, OthersTyped, dbVars, ghosts, Core, TypeOK
  <2>3. req[h].chunk \in 1..Last /\ req[h].pc = "find"  BY <1>1, <1>c DEF FindRun, Serves, Posting
  <2>4. /\ q \in Requests /\ q.pc = "files" /\ q.client = req[h].client
        /\ q.chunk = req[h].chunk /\ q.run = r /\ q.files = FilesOf(req[h].chunk)
    BY <1>c, <2>3, PlanFacts DEF Requests, ReqPCs
  <2>5. req' = [req EXCEPT ![h] = q]  BY <2>1
  <2> HIDE DEF q
  <2>6. Kept(q, logged')  BY <2>3, <2>4, PlanFacts DEF Kept
  <2>7. Serves(q, next, logged')
    BY <1>c, <2>3, <2>4, <2>6 DEF Serves, Creation, Posting, Writing
  <2>8. MovesTo(h, q)  BY <1>1, <2>3, <2>4, <2>5 DEF MovesTo, FindRun
  <2> QED BY <2>2, <2>4, <2>7, <2>8 DEF Moves
<1>2. CASE RunNotFound(h)
  BY <1>2 DEF RunNotFound, OthersTyped, Answers, dbVars, ghosts, Core, TypeOK
<1>3. CASE LogHistory(h)
  <2>1. /\ req[h].pc = "files" /\ "history" \in req[h].files /\ AppendFile(h, "history")
        /\ UNCHANGED clientVars
        /\ req' = [req EXCEPT ![h].pc = "count", ![h].files = @ \ {"history"}]
    BY <1>3 DEF LogHistory
  <2>2. Moves(h) /\ logged' \in [Runs -> SUBSET (Clients \X (1..Last) \X Files)]
    BY <2>1, FileSteps
  <2> QED BY <1>3, <2>2 DEF LogHistory, OthersTyped, ghosts, Core, TypeOK
<1>4. CASE CountReceived(h)
  <2>1. Moves(h)  BY <1>4, GoSteps DEF CountReceived
  <2>2. LinesOf(h) \in Nat
    BY <1>4, <1>r, StepsAssumption, FS_CardinalityType DEF CountReceived, LinesOf, Writing
  <2>3. received \in [Runs -> Nat] /\ req[h].run \in Runs
    BY <1>4, <1>r DEF CountReceived, Writing, Core, TypeOK
  <2>4. received' = [received EXCEPT ![req[h].run] = @ + LinesOf(h)]
    BY <1>4 DEF CountReceived
  <2>5. received' \in [Runs -> Nat]  BY <2>2, <2>3, <2>4
  <2> QED BY <1>4, <2>1, <2>5 DEF CountReceived, OthersTyped, ghosts, Core, TypeOK
<1>5. CASE CountFails(h)
  <2>1. Moves(h)  BY <1>5, GoSteps DEF CountFails, dbVars
  <2>2. hurt' \subseteq Runs  BY <1>5, <1>r DEF CountFails, Writing, Core, TypeOK
  <2> QED BY <1>5, <1>f, <2>1, <2>2 DEF CountFails, dbVars, OthersTyped, Core, TypeOK
<1>6. CASE \E f \in OtherFiles : LogOther(h, f)
  <2>0. PICK f \in OtherFiles : LogOther(h, f)  BY <1>6
  <2>1. /\ req[h].pc = "files" /\ f \in req[h].files /\ f # "summary" /\ AppendFile(h, f)
        /\ UNCHANGED clientVars
        /\ req' = [req EXCEPT ![h].files = @ \ {f}]
    BY <2>0 DEF LogOther
  <2>2. req' = [req EXCEPT ![h].pc = "files", ![h].files = @ \ {f}]
    BY <2>1, <1>c DEF Requests, Core, TypeOK
  <2>3. Moves(h) /\ logged' \in [Runs -> SUBSET (Clients \X (1..Last) \X Files)]
    BY <2>1, <2>2, FileSteps
  <2> QED BY <2>0, <2>3 DEF LogOther, OthersTyped, ghosts, Core, TypeOK
<1>7. CASE LogFull(h)
  BY <1>7, <1>f DEF LogFull, OthersTyped, Answers, dbVars, Core, TypeOK
<1>8. CASE StoreSummary(h)
  <2>1. /\ req[h].pc = "files" /\ "summary" \in req[h].files /\ logged' = logged
        /\ UNCHANGED clientVars
        /\ req' = [req EXCEPT ![h].files = @ \ {"summary"}]
    BY <1>8 DEF StoreSummary, dbVars
  <2>2. req' = [req EXCEPT ![h].pc = "files", ![h].files = @ \ {"summary"}]
    BY <2>1, <1>c DEF Requests, Core, TypeOK
  <2>3. Moves(h)  BY <2>1, <2>2, FileSteps
  <2> QED BY <1>8, <2>3 DEF StoreSummary, dbVars, OthersTyped, ghosts, Core, TypeOK
<1>9. CASE Complete(h)
  <2>1. Moves(h)  BY <1>9, GoSteps DEF Complete
  <2>2. state' \in [Runs -> States] /\ faults' \in Nat
    BY <1>9, <1>f, <1>r DEF Complete, States, Writing, Core, TypeOK
  <2> QED BY <1>9, <2>1, <2>2 DEF Complete, OthersTyped, Core, TypeOK
<1>10. CASE Reply(h)
  BY <1>10 DEF Reply, OthersTyped, Answers, dbVars, ghosts, Core, TypeOK
<1>11. CASE StatementFails(h)
  BY <1>11, <1>f DEF StatementFails, OthersTyped, Answers, dbVars, Core, TypeOK
<1> QED BY <1>1, <1>2, <1>3, <1>4, <1>5, <1>6, <1>7, <1>8, <1>9, <1>10, <1>11 DEF ServeHTTP

-----------------------------------------------------------------------------
(* The invariant. *)

LEMMA CoreInit == Init => Core
<1> SUFFICES ASSUME Init PROVE Core  OBVIOUS
<1>1. TypeOK
  <2>1. 0 \in 0..Last + 1 /\ 0 \in 0..MaxTries  BY PlanFacts, TriesAssumption
  <2>2. next \in [Clients -> 0..Last + 1] /\ tries \in [Clients -> 0..MaxTries]
    BY <2>1 DEF Init
  <2> QED BY <2>2, IdleType DEF Init, TypeOK, States
<1>2. \A h \in Handlers : Serves(req[h], next, logged)
  BY DEF Init, Serves, IdleReq, Creation, Posting, Writing
<1>3. \A c \in Clients : Linked(c, next, waiting, req)  BY DEF Init, Linked
<1> QED BY <1>1, <1>2, <1>3 DEF Core

LEMMA HandlerKeepsCore ==
    ASSUME Core, NEW h \in Handlers, OthersTyped, Moves(h) \/ Answers(h)
    PROVE  Core'
<1>1. CASE Moves(h)
  <2>1. PICK q \in Requests : /\ MovesTo(h, q)
                              /\ Serves(q, next, logged')
                              /\ \A r \in Runs : logged[r] \subseteq logged'[r]
    BY <1>1 DEF Moves
  <2>2. TypeOK'  BY <2>1 DEF MovesTo, clientVars, OthersTyped, Core, TypeOK
  <2> QED BY <2>1, <2>2, MoveKeeps
<1>2. CASE Answers(h)
  <2>1. PICK s \in BOOLEAN : Answer(h, s)  BY <1>2 DEF Answers
  <2>2. TypeOK'  BY <1>2, <2>1, AnswerTypes DEF Answers, OthersTyped, TypeOK
  <2> QED BY <1>2, <2>1, <2>2, AnswerKeeps DEF Answers
<1> QED BY <1>1, <1>2

LEMMA SendKeepsCore ==
    ASSUME Core, NEW c \in Clients, NEW h \in Handlers, Send(c, h)
    PROVE  Core'
<1> DEFINE q == [IdleReq EXCEPT !.pc = IF next[c] = 0 THEN "byName" ELSE "find",
                                !.client = c, !.chunk = next[c]]
<1>1. /\ req' = [req EXCEPT ![h] = q]
      /\ waiting[c] = None /\ waiting' = [waiting EXCEPT ![c] = h]
      /\ next' = next /\ logged' = logged /\ req[h] = IdleReq
  BY DEF Send, dbVars
<1>2. next[c] \in 0..Last  BY PlanFacts DEF Send, Core, TypeOK
<1>3. /\ q \in Requests /\ q.pc = (IF next[c] = 0 THEN "byName" ELSE "find")
      /\ q.client = c /\ q.chunk = next[c]
  BY <1>2 DEF IdleReq, Requests, ReqPCs
<1> HIDE DEF q
<1>4. TypeOK'
  <2>1. tries' \in [Clients -> 0..MaxTries]  BY TriesAssumption DEF Send, MayTry, Core, TypeOK
  <2> QED BY <1>1, <1>3, <2>1 DEF Send, dbVars, Core, TypeOK
<1>5. ASSUME NEW g \in Handlers PROVE Serves(req'[g], next', logged')
  <2>1. CASE g = h
    <3>1. req'[g] = q  BY <1>1, <2>1 DEF Core, TypeOK
    <3>2. Serves(q, next, logged)
      BY <1>2, <1>3, PlanFacts DEF Serves, Creation, Posting, Writing
    <3> QED BY <1>1, <3>1, <3>2
  <2>2. CASE g # h  BY <1>1, <2>2 DEF Core, TypeOK
  <2> QED BY <2>1, <2>2
<1>6. ASSUME NEW d \in Clients PROVE Linked(d, next', waiting', req')
  <2>1. CASE d = c  BY <1>1, <1>3, <2>1 DEF Linked, Core, TypeOK
  <2>2. CASE d # c
    <3>1. waiting'[d] = waiting[d] /\ waiting[d] # h
      BY <1>1, <2>2, NoneAssumption DEF Core, TypeOK, Linked, IdleReq
    <3> QED BY <1>1, <3>1 DEF Linked, Core, TypeOK
  <2> QED BY <2>1, <2>2
<1> QED BY <1>4, <1>5, <1>6 DEF Core

LEMMA CoreStep == Core /\ [Next]_vars => Core'
<1> SUFFICES ASSUME Core, [Next]_vars PROVE Core'  OBVIOUS
<1>1. ASSUME NEW c \in Clients, NEW h \in Handlers, Send(c, h) PROVE Core'
  BY <1>1, SendKeepsCore
<1>2. ASSUME NEW c \in Clients, LoseConnection(c) PROVE Core'
  <2>1. TypeOK'  BY <1>2 DEF LoseConnection, Fault, dbVars, Core, TypeOK
  <2>2. next' = next /\ req' = req /\ logged' = logged
        /\ \A d \in Clients : waiting'[d] # None => waiting'[d] = waiting[d]
    BY <1>2 DEF LoseConnection, dbVars, Core, TypeOK
  <2> QED BY <2>1, <2>2 DEF Core, Linked
<1>3. ASSUME NEW h \in Handlers, Upsert(h) \/ ServeHTTP(h) PROVE Core'
  BY <1>3, UpsertSteps, ServeSteps, HandlerKeepsCore
<1>4. ASSUME NEW r \in Deletable, DeleteRun(r) PROVE Core'
  <2>1. TypeOK' /\ next' = next /\ waiting' = waiting /\ req' = req /\ logged' = logged
    BY <1>4, RunsAssumption DEF DeleteRun, clientVars, ghosts, Core, TypeOK
  <2> QED BY <2>1 DEF Core, Linked
<1>5. ASSUME Crash PROVE Core'
  <2>1. /\ req' = [h \in Handlers |-> IdleReq] /\ waiting' = [c \in Clients |-> None]
        /\ next' = next /\ logged' = logged
    BY <1>5 DEF Crash, dbVars
  <2>2. hurt' \subseteq Runs /\ faults' \in Nat
    <3>1. \A h \in Handlers : req[h].pc = "count" => req[h].run \in Runs
      BY DEF Core, Serves, Kept, Writing
    <3> QED BY <1>5, <3>1 DEF Crash, Fault, Core, TypeOK
  <2>3. TypeOK'  BY <1>5, <2>1, <2>2, IdleType DEF Crash, dbVars, Core, TypeOK
  <2>4. \A h \in Handlers : Serves(req'[h], next', logged')
    BY <2>1 DEF Serves, IdleReq, Creation, Posting, Writing
  <2>5. \A c \in Clients : Linked(c, next', waiting', req')  BY <2>1 DEF Linked
  <2> QED BY <2>3, <2>4, <2>5 DEF Core
<1>6. ASSUME UNCHANGED vars PROVE Core'
  BY <1>6 DEF vars, dbVars, clientVars, ghosts, Core, TypeOK, Linked
<1> QED BY <1>1, <1>2, <1>3, <1>4, <1>5, <1>6 DEF Next, Done

LEMMA CoreAlways == Spec => []Core
BY CoreInit, CoreStep, PTL DEF Spec

(* The variables always have their types. *)
THEOREM StreamTypes == Spec => []TypeOK
<1>1. Core => TypeOK  BY DEF Core
<1> QED BY <1>1, CoreAlways, PTL

-----------------------------------------------------------------------------
(* The refinement. *)

LEMMA AckedType ==
    ASSUME Core
    PROVE  /\ Acked \in [Clients -> 0..Last]
           /\ \A h \in Handlers : req[h].pc \in Posting => req[h].chunk <= Acked[req[h].client] + 1
<1>1. Acked \in [Clients -> 0..Last]  BY PlanFacts DEF Core, TypeOK, Acked
<1>2. ASSUME NEW h \in Handlers, req[h].pc \in Posting
      PROVE  req[h].chunk <= Acked[req[h].client] + 1
  <2>1. Serves(req[h], next, logged) /\ req[h].pc # "idle"  BY <1>2 DEF Core, Posting, Writing
  <2>2. req[h].client \in Clients /\ req[h].chunk <= next[req[h].client] /\ req[h].chunk \in 1..Last
    BY <1>2, <2>1 DEF Serves
  <2>3. next[req[h].client] \in 0..Last + 1  BY <2>2 DEF Core, TypeOK
  <2> QED BY <2>2, <2>3, PlanFacts DEF Acked
<1> QED BY <1>1, <1>2

LEMMA StutterMaps ==
    ASSUME next' = next, logged' = logged, Finished' = Finished
    PROVE  UNCHANGED Promise!vars
BY DEF Promise!vars, Acked

(* An answer acknowledges a chunk only when all of it is in the log. *)
LEMMA AnswerMaps ==
    ASSUME Core, NEW h \in Handlers, NEW s \in BOOLEAN, Answer(h, s),
           req[h].pc # "idle", logged' = logged, Finished' = Finished,
           s => \/ req[h].chunk = 0
                \/ req[h].pc \in Writing /\ req[h].files = {}
    PROVE  [Promise!Next]_(Promise!vars)
<1> DEFINE c == req[h].client
           k == req[h].chunk
<1>1. CASE next' = next  BY <1>1, StutterMaps
<1>2. CASE next' # next
  <2>1. s /\ waiting[c] = h /\ next' = [next EXCEPT ![c] = @ + 1]
    BY <1>2 DEF Answer, clientVars, Core, TypeOK
  <2>2. c \in Clients /\ next[c] = k /\ h # None
    <3>1. h # None  BY NoneAssumption
    <3>2. Serves(req[h], next, logged)  BY DEF Core
    <3>3. c \in Clients  BY <3>2 DEF Serves
    <3>4. Linked(c, next, waiting, req)  BY <3>3 DEF Core
    <3> QED BY <2>1, <3>1, <3>3, <3>4 DEF Linked
  <2>3. k \in 0..Last  BY DEF Core, TypeOK, Requests
  <2>4. CASE k = 0
    <3>1. Acked' = Acked  BY <2>1, <2>2, <2>4 DEF Acked, Core, TypeOK
    <3> QED BY <3>1 DEF Promise!vars
  <2>5. CASE k # 0
    <3>1. /\ req[h].pc \in Writing /\ req[h].files = {} /\ Kept(req[h], logged)
      BY <2>1, <2>5 DEF Core, Serves
    <3>2. Acked[c] = k - 1 /\ Acked[c] < Last /\ Acked[c] + 1 = k
      BY <2>2, <2>3, <2>5, PlanFacts DEF Acked
    <3>3. Promise!Pieces(c, k) \subseteq logged[req[h].run] /\ req[h].run \in Runs
      BY <3>1 DEF Kept, Promise!Pieces
    <3>4. Acked' = [Acked EXCEPT ![c] = @ + 1]
      BY <2>1, <2>2, <2>3, <2>5, PlanFacts DEF Acked, Core, TypeOK
    <3>5. Promise!Ack(c)
      BY <3>2, <3>3, <3>4 DEF Promise!Ack
    <3> QED BY <2>2, <3>5 DEF Promise!Next
  <2> QED BY <2>4, <2>5
<1> QED BY <1>1, <1>2

LEMMA AppendMaps ==
    ASSUME Core, NEW h \in Handlers, req[h].pc = "files", NEW f \in req[h].files \ {"summary"},
           AppendFile(h, f), next' = next, Finished' = Finished
    PROVE  [Promise!Next]_(Promise!vars)
<1> DEFINE c == req[h].client
           k == req[h].chunk
           r == req[h].run
<1>1. Serves(req[h], next, logged) /\ req[h].pc \in Writing /\ req[h].pc \in Posting
  BY DEF Core, Writing, Posting
<1>2. c \in Clients /\ k \in 1..Last /\ r \in Runs /\ f \in FilesOf(k)
  BY <1>1 DEF Serves, Kept
<1>3. f \in Parts(k) /\ k <= Acked[c] + 1  BY <1>1, <1>2, PlanFacts, AckedType
<1>4. logged' = [logged EXCEPT ![r] = @ \cup {<<c, k, f>>}]  BY DEF AppendFile
<1>5. Acked' = Acked  BY DEF Acked
<1> HIDE DEF c, k, r
<1>6. Promise!Log(c, r, k, f)  BY <1>3, <1>4, <1>5 DEF Promise!Log
<1> QED BY <1>2, <1>3, <1>6 DEF Promise!Next

LEMMA UploadStep == Core /\ [Next]_vars => [Promise!Next]_(Promise!vars)
<1> SUFFICES ASSUME Core, [Next]_vars PROVE [Promise!Next]_(Promise!vars)  OBVIOUS
<1>s. ASSUME state' = state PROVE Finished' = Finished  BY <1>s DEF Finished
<1>2. ASSUME NEW h \in Handlers, Upsert(h) PROVE [Promise!Next]_(Promise!vars)
  <2>1. CASE FindByName(h) \/ LookupFails(h)
    BY <1>s, <2>1, StutterMaps DEF FindByName, LookupFails, dbVars, clientVars
  <2> DEFINE c == req[h].client
  <2>d. ASSUME NEW r \in Runs, c \in Clients, state'[r] = Given[c], Given[c] # "none",
               \A p \in Runs : p # r => state'[p] = state[p],
               next' = next, logged' = logged
        PROVE  Promise!Declare(c, r)
    <3>1. Finished' = IF Given[c] = "finished" THEN Finished \cup {r} ELSE Finished \ {r}
      BY <2>d DEF Finished
    <3>2. Acked' = Acked  BY <2>d DEF Acked
    <3> QED BY <2>d, <3>1, <3>2 DEF Promise!Declare
  <2>2. CASE \E r \in Runs : InsertRun(h, r)
    <3>1. PICK r \in Runs : InsertRun(h, r)  BY <2>2
    <3>2. /\ c \in Clients /\ state[r] = "none" /\ next' = next /\ logged' = logged
          /\ state' = [state EXCEPT ![r] = IF Given[c] = "none" THEN "running" ELSE Given[c]]
      BY <3>1 DEF InsertRun, clientVars, Core, Serves
    <3> HIDE DEF c
    <3>3. CASE Given[c] = "none"
      <4>1. Finished' = Finished  BY <3>2, <3>3 DEF Finished, Core, TypeOK
      <4> QED BY <3>2, <4>1, StutterMaps
    <3>4. CASE Given[c] # "none"
      <4>1. state'[r] = Given[c] /\ \A p \in Runs : p # r => state'[p] = state[p]
        BY <3>2, <3>4 DEF Core, TypeOK
      <4>2. Promise!Declare(c, r)  BY <2>d, <3>2, <3>4, <4>1
      <4> QED BY <3>2, <4>2 DEF Promise!Next
    <3> QED BY <3>3, <3>4
  <2>u. CASE UpdateRun(h)
    <3> DEFINE r == req[h].run
    <3>2. /\ c \in Clients /\ r \in Runs /\ next' = next /\ logged' = logged
          /\ state' = [state EXCEPT ![r] = IF Given[c] = "none" THEN @ ELSE Given[c]]
      BY <2>u DEF UpdateRun, clientVars, Core, Serves
    <3> HIDE DEF c, r
    <3>3. CASE Given[c] = "none"
      <4>1. Finished' = Finished  BY <3>2, <3>3 DEF Finished, Core, TypeOK
      <4> QED BY <3>2, <4>1, StutterMaps
    <3>4. CASE Given[c] # "none"
      <4>1. state'[r] = Given[c] /\ \A p \in Runs : p # r => state'[p] = state[p]
        BY <3>2, <3>4 DEF Core, TypeOK
      <4>2. Promise!Declare(c, r)  BY <2>d, <3>2, <3>4, <4>1
      <4> QED BY <3>2, <4>2 DEF Promise!Next
    <3> QED BY <3>3, <3>4
  <2>3. CASE FetchRun(h)
    <3>1. req[h].pc = "fetch" /\ req[h].chunk = 0  BY <2>3 DEF FetchRun, Core, Serves, Creation
    <3>2. (req[h].run \in Live) \in BOOLEAN /\ Answer(h, req[h].run \in Live)
      BY <2>3 DEF FetchRun
    <3>3. \E s \in BOOLEAN : Answer(h, s)  BY <3>2, Zenon
    <3> QED BY <1>s, <2>3, <3>1, <3>3, AnswerMaps DEF FetchRun, dbVars
  <2> QED BY <1>2, <2>1, <2>2, <2>u, <2>3 DEF Upsert
<1>3. ASSUME NEW h \in Handlers, ServeHTTP(h) PROVE [Promise!Next]_(Promise!vars)
  <2>1. CASE FindRun(h) \/ CountReceived(h) \/ CountFails(h) \/ StoreSummary(h)
    BY <1>s, <2>1, StutterMaps
    DEF FindRun, CountReceived, CountFails, StoreSummary, dbVars, clientVars
  <2>2. CASE RunNotFound(h) \/ StatementFails(h) \/ LogFull(h)
    BY <1>s, <2>2, AnswerMaps DEF RunNotFound, StatementFails, LogFull, dbVars
  <2>3. CASE LogHistory(h)
    BY <1>s, <2>3, AppendMaps DEF LogHistory, clientVars
  <2>4. CASE \E f \in OtherFiles : LogOther(h, f)
    BY <1>s, <2>4, AppendMaps DEF LogOther, clientVars
  <2>5. CASE Complete(h)
    <3>1. /\ req[h].pc = "files" /\ req[h].files = {} /\ req[h].chunk = Last
          /\ next' = next /\ logged' = logged
      BY <2>5 DEF Complete, clientVars
    <3>2. CASE state' = state  BY <1>s, <3>1, <3>2, StutterMaps
    <3>3. CASE state' = [state EXCEPT ![req[h].run] = "finished"]
      <4>1. req[h].client \in Clients /\ Kept(req[h], logged)
        BY <3>1 DEF Core, Serves, Writing
      <4>2. Promise!Pieces(req[h].client, Last) \subseteq logged[req[h].run] /\ req[h].run \in Runs
        BY <3>1, <4>1 DEF Kept, Promise!Pieces
      <4>3. Finished' = Finished \cup {req[h].run}
        BY <3>3, <4>2 DEF Finished, Core, TypeOK
      <4>4. Promise!Finish(req[h].run)
        BY <3>1, <4>1, <4>2, <4>3 DEF Promise!Finish, Acked
      <4> QED BY <4>2, <4>4 DEF Promise!Next
    <3> QED BY <2>5, <3>2, <3>3 DEF Complete
  <2>6. CASE Reply(h)
    BY <1>s, <2>6, AnswerMaps DEF Reply, dbVars, Writing, Core, Serves
  <2> QED BY <1>3, <2>1, <2>2, <2>3, <2>4, <2>5, <2>6 DEF ServeHTTP
<1>4. ASSUME NEW r \in Deletable, DeleteRun(r) PROVE UNCHANGED Promise!vars
  BY <1>s, <1>4, StutterMaps DEF DeleteRun, clientVars
<1>5. ASSUME Crash PROVE UNCHANGED Promise!vars
  BY <1>s, <1>5, StutterMaps DEF Crash, dbVars
<1>6. ASSUME UNCHANGED vars PROVE UNCHANGED Promise!vars
  BY <1>s, <1>6, StutterMaps DEF vars, dbVars, clientVars
<1>7. CASE \E c \in Clients : LoseConnection(c) \/ \E h \in Handlers : Send(c, h)
  <2>1. PICK c \in Clients : LoseConnection(c) \/ \E h \in Handlers : Send(c, h)  BY <1>7
  <2>2. CASE LoseConnection(c)
    BY <1>s, <2>2, StutterMaps DEF LoseConnection, dbVars
  <2>3. CASE \E h \in Handlers : Send(c, h)
    BY <1>s, <2>3, StutterMaps DEF Send, dbVars
  <2> QED BY <2>1, <2>2, <2>3
<1>8. CASE \E h \in Handlers : Upsert(h) \/ ServeHTTP(h)  BY <1>2, <1>3, <1>8
<1>9. CASE \E r \in Deletable : DeleteRun(r)  BY <1>4, <1>9
<1> QED BY <1>5, <1>6, <1>7, <1>8, <1>9 DEF Next, Done

LEMMA UploadInit == Init => Promise!Init
BY DEF Init, Promise!Init, Acked, Finished

(* Every step of clients and handlers, with any loss, refusal and crash, is a
   step of Upload or a stutter: an acknowledged chunk is whole in one run, and a
   run is finished by its last lines or by a creation that says so
   (handler.go:59-143, runs.go:135-151). *)
THEOREM StreamIsUpload == Spec => ImplementsUpload
BY CoreAlways, UploadInit, UploadStep, PTL DEF Spec, ImplementsUpload, Promise!Spec

-----------------------------------------------------------------------------
(* How many runs of the name there are.  Each creation that is about to insert
   is counted with the runs that were made: it may be one more of them. *)

Holding == Writing \cup {"update"}

Made(st)      == {r \in Runs : st[r] # "none"}
Creators(rq)  == {h \in Handlers : rq[h].pc \in Creation}
Inserters(rq) == {h \in Handlers : rq[h].pc = "insert"}

Known(st, rq, lg) ==
    /\ \A r \in Runs : lg[r] # {} => st[r] # "none"
    /\ \A h \in Handlers : rq[h].pc \in Holding => st[rq[h].run] # "none"

FewCreations(rq, n) ==
    IsFiniteSet(Creators(rq)) /\ Cardinality(Creators(rq)) <= 1 + n

FewRuns(st, del, rq, n) ==
    /\ IsFiniteSet(Made(st)) /\ IsFiniteSet(del)
    /\ Cardinality(Made(st)) + Cardinality(Inserters(rq)) <= 1 + Cardinality(del) + n

Together ==
    /\ Known(state, req, logged)
    /\ FewCreations(req, overlaps)
    /\ FewRuns(state, deleted, req, overlaps + missed)

(* The sets counted are finite, and their sizes numbers. *)
LEMMA Counts ==
    ASSUME Core, Together
    PROVE  /\ Inserters(req) \subseteq Creators(req) /\ IsFiniteSet(Inserters(req))
           /\ Cardinality(Inserters(req)) <= Cardinality(Creators(req))
           /\ Cardinality(Inserters(req)) \in Nat /\ Cardinality(Creators(req)) \in Nat
           /\ Cardinality(Made(state)) \in Nat /\ Cardinality(deleted) \in Nat
           /\ overlaps \in Nat /\ missed \in Nat
<1>1. Inserters(req) \subseteq Creators(req)  BY DEF Inserters, Creators, Creation
<1>2. IsFiniteSet(Creators(req)) /\ IsFiniteSet(Made(state)) /\ IsFiniteSet(deleted)
  BY DEF Together, FewCreations, FewRuns
<1>3. IsFiniteSet(Inserters(req)) /\ Cardinality(Inserters(req)) <= Cardinality(Creators(req))
  BY <1>1, <1>2, FS_Subset
<1> QED BY <1>1, <1>2, <1>3, FS_CardinalityType DEF Core, TypeOK

(* A handler goes on, or ends, in the middle of its request, and writes only to
   a run that is there. *)
LEMMA KnownGoesOn ==
    ASSUME Core, Together, NEW h \in Handlers, NEW q \in Requests,
           req' = [req EXCEPT ![h] = q],
           q.pc \in Holding => q.run \in Runs /\ state[q.run] # "none",
           \A r \in Runs : logged'[r] # {} => state[r] # "none",
           \A r \in Runs : state'[r] = "none" <=> state[r] = "none"
    PROVE  Known(state', req', logged')
<1>1. \A g \in Handlers : req'[g] = IF g = h THEN q ELSE req[g]  BY DEF Core, TypeOK
<1>2. ASSUME NEW g \in Handlers, req'[g].pc \in Holding PROVE state'[req'[g].run] # "none"
  <2>1. CASE g = h  BY <1>1, <1>2, <2>1
  <2>2. CASE g # h
    <3>1. req'[g] = req[g] /\ req[g].run \in Runs
      <4>1. req'[g] = req[g] /\ Serves(req[g], next, logged)  BY <1>1, <2>2 DEF Core
      <4> QED BY <1>2, <4>1 DEF Holding, Serves, Kept
    <3>2. state[req[g].run] # "none"  BY <1>2, <3>1 DEF Together, Known
    <3> QED BY <3>1, <3>2
  <2> QED BY <2>1, <2>2
<1> QED BY <1>2 DEF Known

(* It starts no creation and is not about to insert. *)
LEMMA GoesOnTogether ==
    ASSUME Core, Together, NEW h \in Handlers, NEW q \in Requests,
           req' = [req EXCEPT ![h] = q],
           q.pc \in Creation => req[h].pc \in Creation,
           q.pc # "insert",
           q.pc \in Holding => q.run \in Runs /\ state[q.run] # "none",
           \A r \in Runs : logged'[r] # {} => state[r] # "none",
           \A r \in Runs : state'[r] = "none" <=> state[r] = "none",
           overlaps' = overlaps, missed' = missed, deleted' = deleted
    PROVE  Together'
<1>1. \A g \in Handlers : req'[g] = IF g = h THEN q ELSE req[g]  BY DEF Core, TypeOK
<1>2. /\ Creators(req') \subseteq Creators(req) /\ Inserters(req') \subseteq Inserters(req)
      /\ Made(state') = Made(state)
  BY <1>1 DEF Creators, Inserters, Made
<1>3. IsFiniteSet(Creators(req)) /\ IsFiniteSet(Inserters(req))  BY Counts DEF Together, FewCreations
<1>4. /\ IsFiniteSet(Creators(req')) /\ Cardinality(Creators(req')) <= Cardinality(Creators(req))
      /\ IsFiniteSet(Inserters(req')) /\ Cardinality(Inserters(req')) <= Cardinality(Inserters(req))
  BY <1>2, <1>3, FS_Subset
<1>5. Cardinality(Creators(req')) \in Nat /\ Cardinality(Inserters(req')) \in Nat
  BY <1>4, FS_CardinalityType
<1>6. FewCreations(req', overlaps')  BY <1>4, <1>5, Counts DEF Together, FewCreations
<1>7. FewRuns(state', deleted', req', overlaps' + missed')
  BY <1>2, <1>4, <1>5, Counts DEF Together, FewRuns
<1> QED BY <1>6, <1>7, KnownGoesOn DEF Together

(* A creation is about to insert: every run that was made is deleted, or its
   lookup failed. *)
LEMMA InsertsTogether ==
    ASSUME Core, Together, NEW h \in Handlers, req[h].pc = "byName", Goto(h, "insert"),
           UNCHANGED dbVars, overlaps' = overlaps,
           (Live = {} /\ missed' = missed) \/ missed' = missed + 1
    PROVE  Together'
<1> DEFINE q == [req[h] EXCEPT !.pc = "insert"]
<1>1. q \in Requests /\ q.pc = "insert"  BY DEF Core, TypeOK, Requests, ReqPCs
<1>2. req' = [req EXCEPT ![h] = q]  BY DEF Goto
<1> HIDE DEF q
<1>3. \A g \in Handlers : req'[g] = IF g = h THEN q ELSE req[g]  BY <1>2 DEF Core, TypeOK
<1>4. Creators(req') = Creators(req) /\ Inserters(req') = Inserters(req) \cup {h} /\ h \notin Inserters(req)
  BY <1>1, <1>3 DEF Creators, Inserters, Creation
<1>5. Known(state', req', logged')
  BY <1>1, <1>2, KnownGoesOn DEF dbVars, Holding, Writing, Together, Known
<1>6. FewCreations(req', overlaps')  BY <1>4 DEF Together, FewCreations
<1>7. Cardinality(Inserters(req')) = Cardinality(Inserters(req)) + 1
  BY <1>4, Counts, FS_AddElement
<1>8. FewRuns(state', deleted', req', overlaps' + missed')
  <2>1. state' = state /\ deleted' = deleted  BY DEF dbVars
  <2>2. CASE missed' = missed + 1
    BY <1>7, <2>1, <2>2, Counts DEF Together, FewRuns
  <2>3. CASE Live = {} /\ missed' = missed
    <3>1. Made(state) \subseteq deleted  BY <2>3 DEF Made, Live
    <3>2. Cardinality(Made(state)) <= Cardinality(deleted)
      BY <3>1, FS_Subset DEF Together, FewRuns
    <3>3. Inserters(req') \subseteq Creators(req')  BY DEF Inserters, Creators, Creation
    <3>4. Cardinality(Inserters(req')) <= Cardinality(Creators(req))
      BY <1>4, <3>3, FS_Subset DEF Together, FewCreations
    <3>5. Cardinality(Creators(req)) <= 1 + overlaps  BY DEF Together, FewCreations
    <3> QED BY <1>7, <2>1, <2>3, <3>2, <3>4, <3>5, Counts DEF Together, FewRuns
  <2> QED BY <2>2, <2>3
<1> QED BY <1>5, <1>6, <1>8 DEF Together

LEMMA TogetherInit == Init => Together
<1> SUFFICES ASSUME Init PROVE Together  OBVIOUS
<1>1. Made(state) = {} /\ Creators(req) = {} /\ Inserters(req) = {} /\ deleted = {}
  BY DEF Init, Made, Creators, Inserters, IdleReq, Creation
<1>2. overlaps = 0 /\ missed = 0 /\ Known(state, req, logged)
  BY DEF Init, Known, IdleReq, Holding, Writing
<1>3. IsFiniteSet({}) /\ Cardinality({}) = 0  BY FS_EmptySet
<1> QED BY <1>1, <1>2, <1>3 DEF Together, FewCreations, FewRuns

LEMMA AnswerTogether ==
    ASSUME Core, Together, NEW h \in Handlers, NEW s, Answer(h, s),
           UNCHANGED dbVars, overlaps' = overlaps, missed' = missed
    PROVE  Together'
<1>1. req' = [req EXCEPT ![h] = IdleReq]  BY DEF Answer
<1>2. IdleReq.pc \notin Creation \cup Holding \cup {"insert"}  BY DEF IdleReq, Creation, Holding, Writing
<1>3. state' = state /\ logged' = logged /\ deleted' = deleted
      /\ \A r \in Runs : logged[r] # {} => state[r] # "none"
  BY DEF dbVars, Together, Known
<1> HIDE DEF IdleReq
<1> QED BY <1>1, <1>2, <1>3, IdleType, GoesOnTogether

LEMMA UpsertTogether ==
    ASSUME Core, Together, NEW h \in Handlers, Upsert(h)
    PROVE  Together'
<1>c. /\ req[h] \in Requests /\ Serves(req[h], next, logged)
      /\ \A r \in Runs : logged[r] # {} => state[r] # "none"
  BY DEF Core, TypeOK, Together, Known
<1>1. CASE FindByName(h)
  <2>2. /\ state' = state /\ logged' = logged /\ deleted' = deleted /\ overlaps' = overlaps /\ missed' = missed
        /\ req[h].pc = "byName"
    BY <1>1 DEF FindByName, dbVars, ghosts
  <2>3. CASE Live = {} /\ Goto(h, "insert")
    BY <1>1, <2>2, <2>3, InsertsTogether DEF FindByName
  <2>4. ASSUME NEW r \in Live, req' = [req EXCEPT ![h].pc = "update", ![h].run = r]
        PROVE  Together'
    <3> DEFINE q == [req[h] EXCEPT !.pc = "update", !.run = r]
    <3>1. q \in Requests /\ q.pc = "update" /\ q.run = r  BY <1>c DEF Requests, ReqPCs, Live
    <3>2. /\ req' = [req EXCEPT ![h] = q]
          /\ r \in Runs /\ state[r] # "none" /\ req[h].pc \in Creation
      BY <2>2, <2>4 DEF Live, Creation
    <3> HIDE DEF q
    <3> QED BY <1>c, <2>2, <3>1, <3>2, GoesOnTogether DEF Creation, Holding, Writing
  <2> QED BY <1>1, <2>3, <2>4 DEF FindByName
<1>l. CASE LookupFails(h)
  <2>1. /\ req[h].pc = "byName" /\ Goto(h, "insert") /\ UNCHANGED dbVars
        /\ overlaps' = overlaps
        /\ (Live = {} /\ missed' = missed) \/ missed' = missed + 1
    BY <1>l DEF LookupFails
  <2> QED BY <2>1, InsertsTogether
<1>2. CASE \E r \in Runs : InsertRun(h, r)
  <2>1. PICK r \in Runs : InsertRun(h, r)  BY <1>2
  <2> DEFINE given == IF Given[req[h].client] = "none" THEN "running" ELSE Given[req[h].client]
  <2>2. /\ req[h].pc = "insert" /\ state[r] = "none" /\ state' = [state EXCEPT ![r] = given]
        /\ req' = [req EXCEPT ![h].pc = "fetch", ![h].run = r]
        /\ logged' = logged /\ deleted' = deleted /\ overlaps' = overlaps /\ missed' = missed
    BY <2>1 DEF InsertRun, ghosts
  <2>n. given # "none"  OBVIOUS
  <2> HIDE DEF given
  <2>3. \A g \in Handlers : IF g = h THEN req'[g].pc = "fetch" ELSE req'[g] = req[g]
    BY <1>c, <2>2 DEF Core, TypeOK, Requests
  <2>4. \A s \in Runs : state'[s] = IF s = r THEN given ELSE state[s]
    BY <2>2 DEF Core, TypeOK
  <2>5. /\ Creators(req') = Creators(req)
        /\ Inserters(req') = Inserters(req) \ {h} /\ h \in Inserters(req)
        /\ Made(state') = Made(state) \cup {r} /\ r \notin Made(state)
    <3>1. Creators(req') = Creators(req)  BY <2>2, <2>3 DEF Creators, Creation
    <3>2. Inserters(req') = Inserters(req) \ {h} /\ h \in Inserters(req)
      BY <2>2, <2>3 DEF Inserters
    <3>3. Made(state') = Made(state) \cup {r} /\ r \notin Made(state)
      BY <2>1, <2>2, <2>4, <2>n DEF Made
    <3> QED BY <3>1, <3>2, <3>3
  <2>6. Known(state', req', logged')
    <3>1. \A g \in Handlers : req[g].pc \in Holding => req[g].run \in Runs
      BY DEF Holding, Core, Serves, Kept
    <3>2. \A s \in Runs : logged'[s] # {} => state'[s] # "none"
      BY <2>2, <2>4, <2>n DEF Together, Known
    <3>3. ASSUME NEW g \in Handlers, req'[g].pc \in Holding PROVE state'[req'[g].run] # "none"
      <4>1. g # h  BY <2>3, <3>3 DEF Holding, Writing
      <4>2. req'[g] = req[g] /\ req[g].run \in Runs  BY <2>3, <3>1, <3>3, <4>1
      <4>3. state[req[g].run] # "none"  BY <3>3, <4>2 DEF Together, Known
      <4> QED BY <2>4, <2>n, <4>2, <4>3
    <3> QED BY <3>2, <3>3 DEF Known
  <2>7. FewCreations(req', overlaps')  BY <2>2, <2>5 DEF Together, FewCreations
  <2>8. FewRuns(state', deleted', req', overlaps' + missed')
    <3>1. IsFiniteSet(Made(state)) /\ IsFiniteSet(deleted)  BY DEF Together, FewRuns
    <3>2. /\ IsFiniteSet(Made(state'))
          /\ Cardinality(Made(state')) = Cardinality(Made(state)) + 1
      BY <2>5, <3>1, FS_AddElement
    <3>3. Cardinality(Inserters(req')) = Cardinality(Inserters(req)) - 1
      BY <2>5, Counts, FS_RemoveElement
    <3> QED BY <2>2, <3>1, <3>2, <3>3, Counts DEF Together, FewRuns
  <2> QED BY <2>6, <2>7, <2>8 DEF Together
<1>3. CASE UpdateRun(h)
  <2> DEFINE q == [req[h] EXCEPT !.pc = "fetch"]
  <2>1. q \in Requests /\ q.pc = "fetch"  BY <1>c DEF Requests, ReqPCs
  <2>2. /\ logged' = logged /\ deleted' = deleted /\ overlaps' = overlaps /\ missed' = missed
        /\ req[h].pc = "update" /\ req' = [req EXCEPT ![h] = q]
    BY <1>3 DEF UpdateRun, Goto, ghosts
  <2> HIDE DEF q
  <2>3. \A r \in Runs : state'[r] = "none" <=> state[r] = "none"
    <3>1. req[h].run \in Runs /\ state[req[h].run] # "none"  BY <1>c, <2>2 DEF Holding, Serves, Together, Known
    <3> QED BY <1>3, <3>1 DEF UpdateRun, Core, TypeOK
  <2> QED BY <1>c, <2>1, <2>2, <2>3, GoesOnTogether DEF Creation, Holding, Writing
<1>4. CASE FetchRun(h)
  <2>1. \E s : Answer(h, s)  BY <1>4 DEF FetchRun
  <2> QED BY <1>4, <2>1, AnswerTogether DEF FetchRun, ghosts
<1> QED BY <1>1, <1>l, <1>2, <1>3, <1>4 DEF Upsert

LEMMA ServeTogether ==
    ASSUME Core, Together, NEW h \in Handlers, ServeHTTP(h)
    PROVE  Together'
<1>c. /\ req[h] \in Requests /\ Serves(req[h], next, logged)
      /\ \A r \in Runs : logged[r] # {} => state[r] # "none"
  BY DEF Core, TypeOK, Together, Known
<1>w. req[h].pc \in Writing => req[h].run \in Runs /\ state[req[h].run] # "none"
  BY <1>c DEF Holding, Serves, Kept, Together, Known
(* The answers, and the other steps, which leave the run as it is. *)
<1>1. CASE RunNotFound(h) \/ StatementFails(h) \/ LogFull(h) \/ Reply(h)
  BY <1>1, AnswerTogether DEF RunNotFound, StatementFails, LogFull, Reply, ghosts
<1>2. CASE FindRun(h)
  <2>1. PICK r \in Live : req' = [req EXCEPT ![h].pc = "files", ![h].run = r, ![h].files = FilesOf(req[h].chunk)]
    BY <1>2 DEF FindRun
  <2> DEFINE q == [req[h] EXCEPT !.pc = "files", !.run = r, !.files = FilesOf(req[h].chunk)]
  <2>2. req[h].chunk \in 1..Last  BY <1>2, <1>c DEF FindRun, Serves, Posting
  <2>3. q \in Requests /\ q.pc = "files" /\ q.run = r
    BY <1>c, <2>1, <2>2, PlanFacts DEF Requests, ReqPCs, Live
  <2>4. /\ state' = state /\ logged' = logged /\ deleted' = deleted /\ overlaps' = overlaps /\ missed' = missed
        /\ req' = [req EXCEPT ![h] = q] /\ r \in Runs /\ state[r] # "none"
    BY <1>2, <2>1 DEF FindRun, dbVars, ghosts, Live
  <2> HIDE DEF q
  <2> QED BY <1>c, <2>3, <2>4, GoesOnTogether DEF Creation, Holding
<1>3. ASSUME req[h].pc \in Writing, NEW pc \in Writing, NEW fs \in SUBSET Files,
             req' = [req EXCEPT ![h].pc = pc, ![h].files = fs],
             \A r \in Runs : logged'[r] # {} => state[r] # "none",
             \A r \in Runs : state'[r] = "none" <=> state[r] = "none",
             overlaps' = overlaps /\ missed' = missed, deleted' = deleted
      PROVE  Together'
  <2> DEFINE q == [req[h] EXCEPT !.pc = pc, !.files = fs]
  <2>1. q \in Requests /\ q.pc = pc /\ q.run = req[h].run
    BY <1>c, <1>3 DEF Requests, ReqPCs, Writing
  <2>2. req' = [req EXCEPT ![h] = q]  BY <1>3
  <2> HIDE DEF q
  <2>3. q.pc \notin Creation /\ q.pc # "insert"  BY <1>3, <2>1 DEF Creation, Writing
  <2>4. q.run \in Runs /\ state[q.run] # "none"  BY <1>3, <1>w, <2>1
  <2> QED BY <1>3, <2>1, <2>2, <2>3, <2>4, GoesOnTogether
<1>g. ASSUME NEW pc, Goto(h, pc)
      PROVE  req' = [req EXCEPT ![h].pc = pc, ![h].files = req[h].files] /\ req[h].files \in SUBSET Files
  BY <1>g, <1>c DEF Goto, Requests, Core, TypeOK
<1>4. ASSUME NEW f, req[h].pc = "files", AppendFile(h, f)
      PROVE  \A r \in Runs : logged'[r] # {} => state[r] # "none"
  BY <1>4, <1>c, <1>w DEF AppendFile, Writing, Core, TypeOK
<1>5. CASE CountReceived(h) \/ CountFails(h)
  <2>1. /\ req[h].pc = "count" /\ Goto(h, "files")
        /\ state' = state /\ logged' = logged /\ deleted' = deleted /\ overlaps' = overlaps /\ missed' = missed
    BY <1>5 DEF CountReceived, CountFails, dbVars, ghosts
  <2> QED BY <1>c, <1>g, <1>3, <2>1 DEF Writing
<1>6. CASE LogHistory(h)
  <2>1. /\ req[h].pc = "files" /\ AppendFile(h, "history")
        /\ req' = [req EXCEPT ![h].pc = "count", ![h].files = req[h].files \ {"history"}]
        /\ state' = state /\ deleted' = deleted /\ overlaps' = overlaps /\ missed' = missed
    BY <1>6 DEF LogHistory, ghosts, Core, TypeOK
  <2>2. req[h].files \ {"history"} \in SUBSET Files  BY <1>c DEF Requests
  <2> QED BY <1>3, <1>4, <2>1, <2>2 DEF Writing
<1>7. ASSUME NEW f \in OtherFiles, req[h].pc = "files", req' = [req EXCEPT ![h].files = @ \ {f}]
      PROVE  /\ req' = [req EXCEPT ![h].pc = "files", ![h].files = req[h].files \ {f}]
             /\ req[h].files \ {f} \in SUBSET Files
  BY <1>7, <1>c DEF Requests, Core, TypeOK
<1>8. CASE \E f \in OtherFiles : LogOther(h, f)
  <2>1. PICK f \in OtherFiles : LogOther(h, f)  BY <1>8
  <2>2. /\ req[h].pc = "files" /\ AppendFile(h, f) /\ req' = [req EXCEPT ![h].files = @ \ {f}]
        /\ state' = state /\ deleted' = deleted /\ overlaps' = overlaps /\ missed' = missed
    BY <2>1 DEF LogOther, ghosts
  <2> QED BY <1>3, <1>4, <1>7, <2>2 DEF Writing
<1>9. CASE StoreSummary(h)
  <2>1. /\ req[h].pc = "files" /\ req' = [req EXCEPT ![h].files = @ \ {"summary"}]
        /\ state' = state /\ logged' = logged /\ deleted' = deleted /\ overlaps' = overlaps /\ missed' = missed
    BY <1>9 DEF StoreSummary, dbVars, ghosts
  <2>2. "summary" \in OtherFiles  BY DEF OtherFiles
  <2> QED BY <1>c, <1>3, <1>7, <2>1, <2>2 DEF Writing
<1>10. CASE Complete(h)
  <2>1. /\ req[h].pc = "files" /\ Goto(h, "reply")
        /\ logged' = logged /\ deleted' = deleted /\ overlaps' = overlaps /\ missed' = missed
    BY <1>10 DEF Complete
  <2>2. \A r \in Runs : state'[r] = "none" <=> state[r] = "none"
    BY <1>10, <1>w DEF Complete, Writing, Core, TypeOK
  <2> QED BY <1>c, <1>g, <1>3, <2>1, <2>2 DEF Writing
<1> QED BY <1>1, <1>2, <1>5, <1>6, <1>8, <1>9, <1>10 DEF ServeHTTP

LEMMA TogetherStep == Core /\ Together /\ [Next]_vars => Together'
<1> SUFFICES ASSUME Core, Together, [Next]_vars PROVE Together'  OBVIOUS
<1>1. ASSUME NEW c \in Clients, NEW h \in Handlers, Send(c, h) PROVE Together'
  <2> DEFINE pc == IF next[c] = 0 THEN "byName" ELSE "find"
  <2>1. /\ state' = state /\ logged' = logged /\ deleted' = deleted /\ missed' = missed
        /\ overlaps' = IF next[c] = 0 /\ Creating THEN overlaps + 1 ELSE overlaps
    BY <1>1 DEF Send, dbVars
  <2>2. /\ \A g \in Handlers : IF g = h THEN req'[g].pc = pc ELSE req'[g] = req[g]
        /\ req[h].pc = "idle"
    BY <1>1 DEF Send, IdleReq, Core, TypeOK
  <2>3. Inserters(req') = Inserters(req)  BY <2>2 DEF Inserters
  <2>4. Known(state', req', logged')  BY <2>1, <2>2 DEF Together, Known, Holding, Writing
  <2>5. FewRuns(state', deleted', req', overlaps' + missed')
    BY <2>1, <2>3, Counts DEF Together, FewRuns
  <2>6. FewCreations(req', overlaps')
    <3>1. CASE next[c] # 0
      <4>1. Creators(req') = Creators(req)  BY <2>2, <3>1 DEF Creators, Creation
      <4> QED BY <2>1, <3>1, <4>1 DEF Together, FewCreations
    <3>2. CASE next[c] = 0
      <4>1. Creators(req') = Creators(req) \cup {h} /\ h \notin Creators(req)
        BY <2>2, <3>2 DEF Creators, Creation
      <4>2. /\ IsFiniteSet(Creators(req'))
            /\ Cardinality(Creators(req')) = Cardinality(Creators(req)) + 1
        BY <4>1, FS_AddElement DEF Together, FewCreations
      <4>3. CASE Creating
        BY <2>1, <3>2, <4>2, <4>3, Counts DEF Together, FewCreations
      <4>4. CASE ~Creating
        <5>1. Creators(req) = {}
          <6>1. ASSUME NEW g \in Handlers, req[g].pc \in Creation PROVE FALSE
            <7>1. Serves(req[g], next, logged)  BY DEF Core
            <7> QED BY <4>4, <6>1, <7>1 DEF Creating, Serves, Creation
          <6> QED BY <6>1 DEF Creators
        <5>2. Cardinality(Creators(req)) = 0  BY <5>1, FS_EmptySet
        <5> QED BY <2>1, <4>2, <4>4, <5>2, Counts DEF FewCreations
      <4> QED BY <4>3, <4>4
    <3> QED BY <3>1, <3>2
  <2> QED BY <2>4, <2>5, <2>6 DEF Together
<1>2. ASSUME NEW c \in Clients, LoseConnection(c) PROVE Together'
  BY <1>2 DEF LoseConnection, dbVars, Together
<1>3. ASSUME NEW h \in Handlers, Upsert(h) \/ ServeHTTP(h) PROVE Together'
  BY <1>3, UpsertTogether, ServeTogether
<1>4. ASSUME NEW r \in Deletable, DeleteRun(r) PROVE Together'
  <2>1. /\ state' = state /\ logged' = logged /\ req' = req /\ deleted' = deleted \cup {r}
        /\ overlaps' = overlaps /\ missed' = missed /\ r \notin deleted
    BY <1>4 DEF DeleteRun, ghosts, Live
  <2>2. IsFiniteSet(deleted') /\ Cardinality(deleted') = Cardinality(deleted) + 1
    BY <2>1, FS_AddElement DEF Together, FewRuns
  <2> QED BY <2>1, <2>2, Counts DEF Together, FewRuns
<1>5. ASSUME Crash PROVE Together'
  <2>1. /\ state' = state /\ logged' = logged /\ deleted' = deleted
        /\ overlaps' = overlaps /\ missed' = missed
        /\ \A h \in Handlers : req'[h].pc = "idle"
    BY <1>5 DEF Crash, dbVars, IdleReq
  <2>2. Creators(req') = {} /\ Inserters(req') = {}  BY <2>1 DEF Creators, Inserters, Creation
  <2>3. IsFiniteSet({}) /\ Cardinality({}) = 0  BY FS_EmptySet
  <2>4. Known(state', req', logged')  BY <2>1 DEF Together, Known, Holding, Writing
  <2> QED BY <2>1, <2>2, <2>3, <2>4, Counts DEF Together, FewCreations, FewRuns
<1>6. ASSUME UNCHANGED vars PROVE Together'
  BY <1>6 DEF vars, dbVars, clientVars, ghosts, Together
<1> QED BY <1>1, <1>2, <1>3, <1>4, <1>5, <1>6 DEF Next, Done

(* runs.go:112-138.  An upload is in one run, and in one more at most for each
   run deleted, each creation sent while another was under way and each failed
   lookup of a name that was taken. *)
THEOREM StaysTogether == Spec => []UploadStaysTogether
<1>1. Core /\ Together => UploadStaysTogether
  <2> SUFFICES ASSUME Core, Together, NEW c \in Clients
               PROVE  Cardinality(Homes(c)) <= 1 + Cardinality(deleted) + overlaps + missed
    BY DEF UploadStaysTogether
  <2>1. Homes(c) \subseteq Made(state)  BY DEF Homes, Made, Together, Known
  <2>2. IsFiniteSet(Homes(c)) /\ Cardinality(Homes(c)) <= Cardinality(Made(state))
    BY <2>1, FS_Subset DEF Together, FewRuns
  <2>3. Cardinality(Homes(c)) \in Nat  BY <2>2, FS_CardinalityType
  <2> QED BY <2>2, <2>3, Counts DEF Together, FewRuns
<1> QED BY <1>1, CoreAlways, TogetherInit, TogetherStep, PTL DEF Spec

-----------------------------------------------------------------------------
(* The count of received lines.  The operators take the contents of the log
   and the requests as arguments. *)

StepsIn(ps) == UNION {Plan[p[2]].steps : p \in {q \in ps : q[3] = "history"}}

Counting(rq, r) == {h \in Handlers : rq[h].pc = "count" /\ rq[h].run = r}

StepsHeld(rq, r) == UNION {Plan[rq[h].chunk].steps : h \in Counting(rq, r)}

Covered(ps, rq, r) == StepsIn(ps) \ StepsHeld(rq, r)

OneClient(ps) == \A p, q \in ps : p[1] = q[1]

CountCovers(ps, rq, r, n, bad) ==
    /\ Cardinality(Covered(ps, rq, r)) <= n
    /\ bad = 0 /\ OneClient(ps) => n = Cardinality(Covered(ps, rq, r))

LEMMA CoversMeans ==
    ReceivedCovers <=>
        \A r \in Runs \ hurt : CountCovers(logged[r], req, r, received[r], faults)
BY DEF ReceivedCovers, CountCovers, Covered, StepsIn, StepsHeld, Counting, OneClient,
       StepsLogged, Uncounted

LEMMA CoversMeansNext ==
    ReceivedCovers' <=>
        \A r \in Runs \ hurt' : CountCovers(logged'[r], req', r, received'[r], faults')
BY DEF ReceivedCovers, CountCovers, Covered, StepsIn, StepsHeld, Counting, OneClient,
       StepsLogged, Uncounted

AllSteps == UNION {Plan[k].steps : k \in 1..Last}

LEMMA StepsAreFinite == IsFiniteSet(AllSteps)
<1> DEFINE S == {Plan[k].steps : k \in 1..Last}
           f == [k \in 1..Last |-> Plan[k].steps]
<1>1. IsFiniteSet(1..Last)  BY PlanFacts, FS_Interval
<1>2. f \in Surjection(1..Last, S)  BY DEF Surjection
<1> HIDE DEF f
<1>3. IsFiniteSet(S)  BY <1>1, <1>2, FS_Surjection
<1>4. \A T \in S : IsFiniteSet(T)  BY StepsAssumption
<1> HIDE DEF S
<1>5. IsFiniteSet(UNION S)  BY <1>3, <1>4, FS_UNION
<1> QED BY <1>5 DEF S, AllSteps

Pieces == Clients \X (1..Last) \X Files

LEMMA CoveredIsFinite ==
    ASSUME NEW ps \in SUBSET Pieces, NEW rq, NEW r
    PROVE  IsFiniteSet(Covered(ps, rq, r)) /\ Cardinality(Covered(ps, rq, r)) \in Nat
<1>1. Covered(ps, rq, r) \in SUBSET AllSteps  BY DEF Covered, StepsIn, AllSteps, Pieces
<1>2. IsFiniteSet(Covered(ps, rq, r))  BY <1>1, StepsAreFinite, FS_Subset
<1> QED BY <1>2, FS_CardinalityType

(* What the lines of a set of pieces depend on. *)
LEMMA SameSteps ==
    ASSUME NEW ps \in SUBSET Pieces, NEW qs \in SUBSET Pieces,
           {p \in ps : p[3] = "history"} = {p \in qs : p[3] = "history"}
    PROVE  StepsIn(ps) = StepsIn(qs)
BY DEF StepsIn

LEMMA SameHeld ==
    ASSUME NEW rq, NEW rp, NEW r, Counting(rq, r) = Counting(rp, r),
           \A h \in Counting(rq, r) : rq[h].chunk = rp[h].chunk
    PROVE  StepsHeld(rq, r) = StepsHeld(rp, r)
BY DEF StepsHeld

(* While nothing has gone wrong each chunk is sent once. *)
Once(nx, wt, rq, lg) ==
    /\ \A h \in Handlers : rq[h].pc # "idle" => wt[rq[h].client] = h
    /\ \A r \in Runs, c \in Clients, k \in 1..Last :
          <<c, k, "history">> \in lg[r] =>
              /\ k <= nx[c]
              /\ k = nx[c] => /\ wt[c] # None
                              /\ rq[wt[c]].pc \in Writing
                              /\ "history" \notin rq[wt[c]].files

SentOnce == faults = 0 => Once(next, waiting, req, logged)

(* A handler goes on: what it wrote stays written, and it adds history lines
   of its own chunk only, once. *)
LEMMA OnceGoesOn ==
    ASSUME Core, SentOnce, faults' = 0 => faults = 0, NEW h \in Handlers,
           UNCHANGED clientVars, req[h].pc # "idle",
           \A g \in Handlers : g # h => req'[g] = req[g],
           req'[h].client = req[h].client, req'[h].chunk = req[h].chunk,
           req[h].pc \in Writing => req'[h].pc \in Writing /\ req'[h].files \subseteq req[h].files,
           \A r \in Runs, c \in Clients, k \in 1..Last :
              <<c, k, "history">> \in logged'[r] =>
                 \/ <<c, k, "history">> \in logged[r]
                 \/ /\ c = req[h].client /\ k = req[h].chunk
                    /\ req'[h].pc \in Writing /\ "history" \notin req'[h].files
    PROVE  SentOnce'
<1> SUFFICES ASSUME faults' = 0 PROVE Once(next', waiting', req', logged')  BY DEF SentOnce
<1>1. Once(next, waiting, req, logged)  BY DEF SentOnce
<1>2. next' = next /\ waiting' = waiting  BY DEF clientVars
<1>3. ASSUME NEW g \in Handlers, req'[g].pc # "idle" PROVE waiting'[req'[g].client] = g
  BY <1>1, <1>2, <1>3 DEF Once
<1>4. ASSUME NEW r \in Runs, NEW c \in Clients, NEW k \in 1..Last, <<c, k, "history">> \in logged'[r]
      PROVE  /\ k <= next'[c]
             /\ k = next'[c] => /\ waiting'[c] # None
                                /\ req'[waiting'[c]].pc \in Writing
                                /\ "history" \notin req'[waiting'[c]].files
  <2>1. waiting[c] # None => waiting[c] \in Handlers  BY DEF Core, TypeOK
  <2>2. CASE <<c, k, "history">> \in logged[r]
    <3>1. k <= next[c] /\ (k = next[c] => /\ waiting[c] # None
                                          /\ req[waiting[c]].pc \in Writing
                                          /\ "history" \notin req[waiting[c]].files)
      BY <1>1, <2>2 DEF Once
    <3> QED BY <1>2, <2>1, <3>1
  <2>3. CASE <<c, k, "history">> \notin logged[r]
    <3>1. /\ c = req[h].client /\ k = req[h].chunk
          /\ req'[h].pc \in Writing /\ "history" \notin req'[h].files
      BY <1>4, <2>3
    <3>2. waiting[c] = h /\ h # None /\ k <= next[c]
      BY <1>1, <3>1, NoneAssumption DEF Once, Core, Serves
    <3> QED BY <1>2, <3>1, <3>2
  <2> QED BY <2>2, <2>3
<1> QED BY <1>3, <1>4 DEF Once

(* A handler answers: with success to the chunk, or before it wrote. *)
LEMMA OnceAnswer ==
    ASSUME Core, SentOnce, faults' = 0 => faults = 0, NEW h \in Handlers, NEW s \in BOOLEAN,
           Answer(h, s), req[h].pc # "idle", logged' = logged,
           s \/ req[h].pc \notin Writing \/ faults' # 0
    PROVE  SentOnce'
<1> SUFFICES ASSUME faults' = 0 PROVE Once(next', waiting', req', logged')  BY DEF SentOnce
<1>1. Once(next, waiting, req, logged)  BY DEF SentOnce
<1> DEFINE d == req[h].client
<1>2. waiting[d] = h /\ d \in Clients /\ h # None  BY <1>1, NoneAssumption DEF Once, Core, Serves
<1>3. /\ req' = [req EXCEPT ![h] = IdleReq]
      /\ waiting' = [waiting EXCEPT ![d] = None]
      /\ next' = [next EXCEPT ![d] = IF s THEN @ + 1 ELSE @]
  BY <1>2 DEF Answer
<1> HIDE DEF d
<1>4. /\ \A g \in Handlers : req'[g] = IF g = h THEN IdleReq ELSE req[g]
      /\ \A c \in Clients : waiting'[c] = IF c = d THEN None ELSE waiting[c]
      /\ \A c \in Clients : next'[c] = IF c = d /\ s THEN next[c] + 1 ELSE next[c]
  BY <1>3 DEF Core, TypeOK
<1>5. ASSUME NEW g \in Handlers, req'[g].pc # "idle" PROVE waiting'[req'[g].client] = g
  <2>1. g # h /\ req'[g] = req[g]  BY <1>4, <1>5 DEF IdleReq
  <2>2. waiting[req[g].client] = g /\ req[g].client \in Clients
    BY <1>1, <1>5, <2>1 DEF Once, Core, Serves
  <2> QED BY <1>2, <1>4, <2>1, <2>2
<1>6. ASSUME NEW r \in Runs, NEW c \in Clients, NEW k \in 1..Last, <<c, k, "history">> \in logged'[r]
      PROVE  /\ k <= next'[c]
             /\ k = next'[c] => /\ waiting'[c] # None
                                /\ req'[waiting'[c]].pc \in Writing
                                /\ "history" \notin req'[waiting'[c]].files
  <2>1. k <= next[c] /\ (k = next[c] => /\ waiting[c] # None
                                        /\ req[waiting[c]].pc \in Writing
                                        /\ "history" \notin req[waiting[c]].files)
    BY <1>1, <1>6 DEF Once
  <2>2. k \in Nat /\ next[c] \in Nat  BY PlanFacts DEF Core, TypeOK
  <2>3. CASE c = d /\ s  BY <1>4, <2>1, <2>2, <2>3
  <2>4. CASE c = d /\ ~s  BY <1>2, <1>4, <2>1, <2>4
  <2>5. CASE c # d
    <3>1. k = next[c] => waiting[c] \in Handlers /\ waiting[c] # h
      BY <1>2, <2>1, <2>5 DEF Core, TypeOK, Linked
    <3> QED BY <1>4, <2>1, <2>5, <3>1
  <2> QED BY <2>3, <2>4, <2>5
<1> QED BY <1>5, <1>6 DEF Once

LEMMA OnceInit == Init => SentOnce
BY DEF Init, SentOnce, Once, IdleReq

(* What the steps of a handler do to its request. *)
OnlyMoves(h) ==
    /\ \A g \in Handlers : g # h => req'[g] = req[g]
    /\ req'[h].client = req[h].client /\ req'[h].chunk = req[h].chunk

LEMMA RequestGoes ==
    ASSUME Core, NEW h \in Handlers, NEW pc, req' = [req EXCEPT ![h].pc = pc]
    PROVE  OnlyMoves(h) /\ req'[h].pc = pc /\ req'[h].run = req[h].run /\ req'[h].files = req[h].files
BY DEF Core, TypeOK, Requests, OnlyMoves

LEMMA RequestWrites ==
    ASSUME Core, NEW h \in Handlers, NEW pc, NEW fs,
           req' = [req EXCEPT ![h].pc = pc, ![h].files = fs]
    PROVE  OnlyMoves(h) /\ req'[h].pc = pc /\ req'[h].run = req[h].run /\ req'[h].files = fs
BY DEF Core, TypeOK, Requests, OnlyMoves

LEMMA RequestFinds ==
    ASSUME Core, NEW h \in Handlers, NEW pc, NEW r, NEW fs,
           req' = [req EXCEPT ![h].pc = pc, ![h].run = r, ![h].files = fs]
    PROVE  OnlyMoves(h) /\ req'[h].pc = pc
BY DEF Core, TypeOK, Requests, OnlyMoves

LEMMA RequestTakes ==
    ASSUME Core, NEW h \in Handlers, NEW pc, NEW r,
           req' = [req EXCEPT ![h].pc = pc, ![h].run = r]
    PROVE  OnlyMoves(h) /\ req'[h].pc = pc
BY DEF Core, TypeOK, Requests, OnlyMoves

(* LogHistory, LogOther and StoreSummary. *)
LEMMA RequestDrops ==
    ASSUME Core, NEW h \in Handlers, NEW f, req[h].pc = "files",
           req' = [req EXCEPT ![h].files = @ \ {f}]
    PROVE  OnlyMoves(h) /\ req'[h].pc = "files" /\ req'[h].run = req[h].run /\ req'[h].files = req[h].files \ {f}
BY DEF Core, TypeOK, Requests, OnlyMoves

LEMMA Appended ==
    ASSUME Core, NEW h \in Handlers, NEW f, req[h].pc = "files", AppendFile(h, f)
    PROVE  /\ req[h].run \in Runs /\ req[h].client \in Clients /\ req[h].chunk \in 1..Last
           /\ \A r \in Runs : logged'[r] = IF r = req[h].run
                                           THEN logged[r] \cup {<<req[h].client, req[h].chunk, f>>}
                                           ELSE logged[r]
<1>1. Serves(req[h], next, logged)  BY DEF Core
<1>2. req[h].run \in Runs /\ req[h].client \in Clients /\ req[h].chunk \in 1..Last
  BY <1>1 DEF Serves, Kept, Writing, Posting
<1> QED BY <1>2 DEF AppendFile, Core, TypeOK

LEMMA FaultCounts == ASSUME Core, NEW kind, Fault(kind) PROVE faults' # 0
BY DEF Fault, Core, TypeOK

LEMMA OnceStep == Core /\ SentOnce /\ [Next]_vars => SentOnce'
<1> SUFFICES ASSUME Core, SentOnce, [Next]_vars PROVE SentOnce'  OBVIOUS
<1>1. ASSUME NEW c \in Clients, NEW h \in Handlers, Send(c, h) PROVE SentOnce'
  <2> SUFFICES ASSUME faults' = 0 PROVE Once(next', waiting', req', logged')  BY DEF SentOnce
  <2>1. next' = next /\ logged' = logged /\ faults' = faults /\ waiting[c] = None
    BY <1>1 DEF Send, dbVars
  <2>2. Once(next, waiting, req, logged)  BY <2>1 DEF SentOnce
  <2>3. /\ \A g \in Handlers : IF g = h THEN req'[g].client = c ELSE req'[g] = req[g]
        /\ \A d \in Clients : waiting'[d] = IF d = c THEN h ELSE waiting[d]
    BY <1>1 DEF Send, IdleReq, Core, TypeOK
  <2>4. req[h].pc = "idle"  BY <1>1 DEF Send, IdleReq
  <2>5. ASSUME NEW g \in Handlers, req'[g].pc # "idle" PROVE waiting'[req'[g].client] = g
    <3>1. CASE g = h  BY <2>3, <3>1
    <3>2. CASE g # h
      <4>1. req'[g] = req[g] /\ req[g].client \in Clients /\ waiting[req[g].client] = g /\ g # None
        BY <2>2, <2>3, <2>5, <3>2, NoneAssumption DEF Once, Core, Serves
      <4> QED BY <2>1, <2>3, <4>1
    <3> QED BY <3>1, <3>2
  <2>6. ASSUME NEW r \in Runs, NEW d \in Clients, NEW k \in 1..Last, <<d, k, "history">> \in logged'[r]
        PROVE  /\ k <= next'[d]
               /\ k = next'[d] => /\ waiting'[d] # None
                                  /\ req'[waiting'[d]].pc \in Writing
                                  /\ "history" \notin req'[waiting'[d]].files
    <3>1. /\ k <= next[d]
          /\ k = next[d] => /\ waiting[d] # None
                            /\ req[waiting[d]].pc \in Writing
                            /\ "history" \notin req[waiting[d]].files
      BY <2>1, <2>2, <2>6 DEF Once
    <3>2. k = next[d] => d # c /\ waiting[d] \in Handlers /\ waiting[d] # h
      BY <2>1, <2>4, <3>1 DEF Writing, Core, TypeOK
    <3> QED BY <2>1, <2>3, <3>1, <3>2
  <2> QED BY <2>5, <2>6 DEF Once
<1>2. ASSUME NEW c \in Clients, LoseConnection(c) PROVE SentOnce'
  BY <1>2, FaultCounts DEF LoseConnection, SentOnce
<1>3. ASSUME NEW h \in Handlers, Upsert(h) PROVE SentOnce'
  <2>0. faults' = 0 => faults = 0
    BY <1>3, FaultCounts DEF Upsert, FindByName, LookupFails, InsertRun, UpdateRun, FetchRun, ghosts
  <2>l. CASE LookupFails(h)
    <3>1. OnlyMoves(h)  BY <2>l, RequestGoes DEF LookupFails, Goto
    <3> QED BY <2>0, <2>l, <3>1, OnceGoesOn DEF LookupFails, dbVars, OnlyMoves, Writing
  <2>1. CASE FindByName(h)
    <3>1. OnlyMoves(h)
      BY <2>1, RequestGoes, RequestTakes DEF FindByName, Goto
    <3> QED BY <2>0, <2>1, <3>1, OnceGoesOn DEF FindByName, dbVars, OnlyMoves, Writing
  <2>2. CASE \E r \in Runs : InsertRun(h, r)
    <3>1. OnlyMoves(h)  BY <2>2, RequestTakes DEF InsertRun
    <3> QED BY <2>0, <2>2, <3>1, OnceGoesOn DEF InsertRun, OnlyMoves, Writing
  <2>3. CASE UpdateRun(h)
    <3>1. OnlyMoves(h)  BY <2>3, RequestGoes DEF UpdateRun, Goto
    <3> QED BY <2>0, <2>3, <3>1, OnceGoesOn DEF UpdateRun, OnlyMoves, Writing
  <2>4. CASE FetchRun(h)
    <3>1. (req[h].run \in Live) \in BOOLEAN /\ Answer(h, req[h].run \in Live)
      BY <2>4 DEF FetchRun
    <3>2. \E s \in BOOLEAN : Answer(h, s)  BY <3>1, Zenon
    <3> QED BY <2>0, <2>4, <3>2, OnceAnswer DEF FetchRun, dbVars, Writing
  <2> QED BY <1>3, <2>l, <2>1, <2>2, <2>3, <2>4 DEF Upsert
<1>4. ASSUME NEW h \in Handlers, ServeHTTP(h) PROVE SentOnce'
  <2>0. faults' = 0 => faults = 0
    BY <1>4, FaultCounts DEF ServeHTTP, FindRun, RunNotFound, StatementFails, LogHistory, CountReceived, CountFails,
                LogOther, LogFull, StoreSummary, Complete, Reply, ghosts
  <2>1. CASE FindRun(h)
    <3>1. OnlyMoves(h)  BY <2>1, RequestFinds DEF FindRun
    <3> QED BY <2>0, <2>1, <3>1, OnceGoesOn DEF FindRun, dbVars, OnlyMoves, Writing
  <2>2. CASE RunNotFound(h) \/ StatementFails(h)
    BY <2>0, <2>2, OnceAnswer DEF RunNotFound, StatementFails, dbVars, Writing
  <2>3. CASE LogFull(h)
    BY <2>0, <2>3, OnceAnswer, FaultCounts DEF LogFull, dbVars
  <2>4. CASE Reply(h)
    BY <2>0, <2>4, OnceAnswer DEF Reply, dbVars
  <2>5. CASE LogHistory(h)
    <3>1. /\ OnlyMoves(h) /\ req'[h].pc = "count" /\ req'[h].files = req[h].files \ {"history"}
      <4>1. req' = [req EXCEPT ![h].pc = "count", ![h].files = req[h].files \ {"history"}]
        BY <2>5 DEF LogHistory
      <4> QED BY <4>1, RequestWrites
    <3>2. \A r \in Runs, c \in Clients, k \in 1..Last :
              <<c, k, "history">> \in logged'[r] =>
                 <<c, k, "history">> \in logged[r] \/ (c = req[h].client /\ k = req[h].chunk)
      <4>1. req[h].pc = "files" /\ AppendFile(h, "history")  BY <2>5 DEF LogHistory
      <4>2. \A r \in Runs : logged'[r] = IF r = req[h].run
                                         THEN logged[r] \cup {<<req[h].client, req[h].chunk, "history">>}
                                         ELSE logged[r]
        BY <4>1, Appended
      <4>3. ASSUME NEW r \in Runs, NEW c, NEW k, <<c, k, "history">> \in logged'[r],
                   <<c, k, "history">> \notin logged[r]
            PROVE  c = req[h].client /\ k = req[h].chunk
        <5>1. <<c, k, "history">> = <<req[h].client, req[h].chunk, "history">>  BY <4>2, <4>3
        <5> QED BY <5>1
      <4> QED BY <4>3
    <3> QED BY <2>0, <2>5, <3>1, <3>2, OnceGoesOn DEF LogHistory, OnlyMoves, Writing
  <2>6. CASE CountReceived(h) \/ CountFails(h)
    <3>1. /\ OnlyMoves(h) /\ req'[h].pc = "files" /\ req'[h].files = req[h].files
          /\ logged' = logged /\ req[h].pc = "count" /\ UNCHANGED clientVars
      BY <2>6, RequestGoes DEF CountReceived, CountFails, Goto, dbVars
    <3> QED BY <2>0, <3>1, OnceGoesOn DEF OnlyMoves, Writing
  <2>7. CASE \E f \in OtherFiles : LogOther(h, f)
    <3>1. PICK f \in OtherFiles : LogOther(h, f)  BY <2>7
    <3>2. /\ OnlyMoves(h) /\ req'[h].pc = "files" /\ req'[h].files \subseteq req[h].files
          /\ req[h].pc = "files" /\ UNCHANGED clientVars
      BY <3>1, RequestDrops DEF LogOther
    <3>3. \A r \in Runs, c \in Clients, k \in 1..Last :
              <<c, k, "history">> \in logged'[r] => <<c, k, "history">> \in logged[r]
      <4>1. req[h].pc = "files" /\ AppendFile(h, f) /\ f # "history"  BY <3>1 DEF LogOther
      <4>2. \A r \in Runs : logged'[r] = IF r = req[h].run
                                         THEN logged[r] \cup {<<req[h].client, req[h].chunk, f>>}
                                         ELSE logged[r]
        BY <4>1, Appended
      <4>3. ASSUME NEW r \in Runs, NEW c, NEW k, <<c, k, "history">> \in logged'[r],
                   <<c, k, "history">> \notin logged[r]
            PROVE  FALSE
        <5>1. <<c, k, "history">> = <<req[h].client, req[h].chunk, f>>  BY <4>2, <4>3
        <5> QED BY <4>1, <5>1
      <4> QED BY <4>3
    <3> QED BY <2>0, <3>2, <3>3, OnceGoesOn DEF OnlyMoves, Writing
  <2>8. CASE StoreSummary(h)
    <3>1. /\ OnlyMoves(h) /\ req'[h].pc = "files" /\ req'[h].files \subseteq req[h].files
          /\ logged' = logged /\ req[h].pc = "files" /\ UNCHANGED clientVars
      BY <2>8, RequestDrops DEF StoreSummary, dbVars
    <3> QED BY <2>0, <3>1, OnceGoesOn DEF OnlyMoves, Writing
  <2>9. CASE Complete(h)
    <3>1. /\ OnlyMoves(h) /\ req'[h].pc = "reply" /\ req'[h].files = req[h].files
          /\ logged' = logged /\ req[h].pc = "files" /\ UNCHANGED clientVars
      BY <2>9, RequestGoes DEF Complete, Goto
    <3> QED BY <2>0, <3>1, OnceGoesOn DEF OnlyMoves, Writing
  <2> QED BY <1>4, <2>1, <2>2, <2>3, <2>4, <2>5, <2>6, <2>7, <2>8, <2>9 DEF ServeHTTP
<1>5. ASSUME NEW r \in Deletable, DeleteRun(r) PROVE SentOnce'
  BY <1>5 DEF DeleteRun, clientVars, ghosts, SentOnce
<1>6. ASSUME Crash PROVE SentOnce'  BY <1>6, FaultCounts DEF Crash, SentOnce
<1>7. ASSUME UNCHANGED vars PROVE SentOnce'
  BY <1>7 DEF vars, dbVars, clientVars, ghosts, SentOnce
<1> QED BY <1>1, <1>2, <1>3, <1>4, <1>5, <1>6, <1>7 DEF Next, Done

(* A run of which neither the history lines in the log change nor the handlers
   that are about to count. *)
SameFor(r) ==
    /\ {p \in logged'[r] : p[3] = "history"} = {p \in logged[r] : p[3] = "history"}
    /\ Counting(req', r) = Counting(req, r)
    /\ \A h \in Counting(req, r) : req'[h].chunk = req[h].chunk
    /\ received'[r] = received[r]

LEMMA SameForKeeps ==
    ASSUME ReceivedCovers, NEW r \in Runs \ hurt, SameFor(r),
           logged[r] \in SUBSET Pieces, logged'[r] \in SUBSET Pieces,
           logged[r] \subseteq logged'[r], faults' = 0 => faults = 0
    PROVE  CountCovers(logged'[r], req', r, received'[r], faults')
<1>1. StepsIn(logged'[r]) = StepsIn(logged[r])  BY SameSteps DEF SameFor
<1>2. StepsHeld(req', r) = StepsHeld(req, r)  BY SameHeld DEF SameFor
<1>3. Covered(logged'[r], req', r) = Covered(logged[r], req, r)  BY <1>1, <1>2 DEF Covered
<1>4. OneClient(logged'[r]) => OneClient(logged[r])  BY DEF OneClient
<1>5. CountCovers(logged[r], req, r, received[r], faults)  BY CoversMeans
<1> QED BY <1>3, <1>4, <1>5 DEF CountCovers, SameFor

LEMMA QuietCovers ==
    ASSUME Core, Core', ReceivedCovers, hurt \subseteq hurt', faults' = 0 => faults = 0,
           \A r \in Runs \ hurt' : SameFor(r),
           \A r \in Runs : logged[r] \subseteq logged'[r]
    PROVE  ReceivedCovers'
<1>1. ASSUME NEW r \in Runs \ hurt'
      PROVE  CountCovers(logged'[r], req', r, received'[r], faults')
  <2>1. logged[r] \in SUBSET Pieces /\ logged'[r] \in SUBSET Pieces
    BY DEF Core, TypeOK, Pieces
  <2> QED BY <2>1, SameForKeeps
<1> QED BY <1>1, CoversMeansNext

(* The steps that log no history and count nothing. *)
LEMMA OtherSteps ==
    ASSUME Core, Core', ReceivedCovers, hurt \subseteq hurt', faults' = 0 => faults = 0,
           \A h \in Handlers : \/ req[h].pc # "count" /\ req'[h].pc # "count"
                               \/ req'[h] = req[h],
           logged' = logged, received' = received
    PROVE  ReceivedCovers'
<1>1. ASSUME NEW r \in Runs PROVE SameFor(r)
  BY DEF SameFor, Counting
<1> QED BY <1>1, QuietCovers

(* LogHistory: the new lines are about to be counted; without faults they are
   lines the run did not have. *)
LEMMA HistoryCovers ==
    ASSUME Core, Core', SentOnce, ReceivedCovers, NEW h \in Handlers, LogHistory(h)
    PROVE  ReceivedCovers'
<1> DEFINE c == req[h].client
           k == req[h].chunk
           r == req[h].run
           new == Plan[k].steps
<1>1. /\ req[h].pc = "files" /\ "history" \in req[h].files /\ AppendFile(h, "history")
      /\ received' = received /\ hurt' = hurt /\ faults' = faults
      /\ req' = [req EXCEPT ![h].pc = "count", ![h].files = @ \ {"history"}]
  BY DEF LogHistory, ghosts
<1>2. /\ r \in Runs /\ c \in Clients /\ k \in 1..Last
      /\ \A s \in Runs : logged'[s] = IF s = r THEN logged[s] \cup {<<c, k, "history">>} ELSE logged[s]
  BY <1>1, Appended
<1>3. OnlyMoves(h) /\ req'[h].pc = "count" /\ req'[h].run = r
  BY <1>1, RequestWrites
<1> HIDE DEF c, k, r
<1>4. \A s \in Runs : logged[s] \in SUBSET Pieces /\ logged'[s] \in SUBSET Pieces
  BY DEF Core, TypeOK, Pieces
<1>5. ASSUME NEW s \in Runs \ hurt', s # r
      PROVE  CountCovers(logged'[s], req', s, received'[s], faults')
  <2>1. Counting(req', s) = Counting(req, s) /\ \A g \in Counting(req, s) : req'[g] = req[g]
    BY <1>1, <1>3, <1>5 DEF Counting, OnlyMoves
  <2>2. SameFor(s)  BY <1>1, <1>2, <1>5, <2>1 DEF SameFor
  <2> QED BY <1>1, <1>2, <1>4, <1>5, <2>2, SameForKeeps
<1>6. ASSUME r \notin hurt'
      PROVE  CountCovers(logged'[r], req', r, received'[r], faults')
  <2>1. StepsIn(logged'[r]) = StepsIn(logged[r]) \cup new
    <3> DEFINE x == <<c, k, "history">>
    <3>1. x[1] = c /\ x[2] = k /\ x[3] = "history"  OBVIOUS
    <3>2. logged'[r] = logged[r] \cup {x}  BY <1>2
    <3> HIDE DEF x
    <3>3. {p \in logged'[r] : p[3] = "history"} = {p \in logged[r] : p[3] = "history"} \cup {x}
      BY <3>1, <3>2
    <3> QED BY <3>1, <3>3 DEF StepsIn
  <2>2. StepsHeld(req', r) = StepsHeld(req, r) \cup new
    <3>1. Counting(req', r) = Counting(req, r) \cup {h}  BY <1>3 DEF Counting, OnlyMoves
    <3>2. \A g \in Counting(req, r) : g # h /\ req'[g] = req[g]
      BY <1>1, <1>3 DEF Counting, OnlyMoves
    <3>3. req'[h].chunk = k  BY <1>3 DEF OnlyMoves, k
    <3> QED BY <3>1, <3>2, <3>3 DEF StepsHeld
  <2>3. Covered(logged'[r], req', r) \subseteq Covered(logged[r], req, r)
    BY <2>1, <2>2 DEF Covered
  <2>4. /\ IsFiniteSet(Covered(logged[r], req, r))
        /\ Cardinality(Covered(logged[r], req, r)) \in Nat
        /\ Cardinality(Covered(logged'[r], req', r)) \in Nat
    BY <1>2, <1>4, CoveredIsFinite
  <2>5. Cardinality(Covered(logged'[r], req', r)) <= Cardinality(Covered(logged[r], req, r))
    BY <2>3, <2>4, FS_Subset
  <2>6. CountCovers(logged[r], req, r, received[r], faults)
    BY <1>1, <1>2, <1>6, CoversMeans
  <2>7. received[r] \in Nat  BY <1>2 DEF Core, TypeOK
  <2>8. ASSUME faults' = 0, OneClient(logged'[r])
        PROVE  Covered(logged'[r], req', r) = Covered(logged[r], req, r) /\ OneClient(logged[r])
    <3>1. Once(next, waiting, req, logged) /\ OneClient(logged[r])
      BY <1>1, <1>2, <2>8 DEF SentOnce, OneClient
    <3>2. waiting[c] = h /\ next[c] = k
      BY <1>1, <1>2, <3>1, NoneAssumption DEF Once, c, k, Core, Linked
    <3>3. ASSUME NEW p \in logged[r], p[3] = "history" PROVE Plan[p[2]].steps \cap new = {}
      <4>1. p \in Pieces /\ p[1] = c
        <5>1. p \in logged'[r] /\ <<c, k, "history">> \in logged'[r]  BY <1>2, <3>3
        <5>2. p[1] = <<c, k, "history">>[1]  BY <2>8, <5>1 DEF OneClient
        <5> QED BY <1>2, <1>4, <3>3, <5>2
      <4>2. PICK j \in 1..Last : p = <<c, j, "history">>
        BY <3>3, <4>1 DEF Pieces
      <4>3. j # k  BY <1>1, <1>2, <3>1, <3>2, <3>3, <4>2 DEF Once
      <4> QED BY <1>2, <4>2, <4>3, StepsAssumption
    <3>4. StepsIn(logged[r]) \cap new = {}  BY <3>3 DEF StepsIn
    <3> QED BY <2>1, <2>2, <3>1, <3>4 DEF Covered
  <2> QED BY <1>1, <2>4, <2>5, <2>6, <2>7, <2>8 DEF CountCovers
<1> QED BY <1>5, <1>6, CoversMeansNext

(* IncrReceivedHistoryCount: at most these lines become visible; without faults
   all of them. *)
LEMMA CountingCovers ==
    ASSUME Core, Core', SentOnce, ReceivedCovers, NEW h \in Handlers, CountReceived(h)
    PROVE  ReceivedCovers'
<1> DEFINE c == req[h].client
           k == req[h].chunk
           r == req[h].run
           new == Plan[k].steps
<1>1. /\ req[h].pc = "count" /\ Goto(h, "files")
      /\ received' = [received EXCEPT ![r] = @ + Cardinality(new)]
      /\ logged' = logged /\ hurt' = hurt /\ faults' = faults
  BY DEF CountReceived, LinesOf, ghosts
<1>2. /\ r \in Runs /\ c \in Clients /\ k \in 1..Last /\ <<c, k, "history">> \in logged[r]
  BY <1>1 DEF Core, Serves, Kept, Writing, Posting
<1>3. OnlyMoves(h) /\ req'[h].pc = "files" /\ req'[h].run = r
  BY <1>1, RequestGoes DEF Goto
<1>n. IsFiniteSet(new) /\ Cardinality(new) \in Nat
  BY <1>2, StepsAssumption, FS_CardinalityType
<1> HIDE DEF c, k, r
<1>4. \A s \in Runs : /\ logged[s] \in SUBSET Pieces /\ logged'[s] \in SUBSET Pieces
                      /\ received'[s] = IF s = r THEN received[s] + Cardinality(new) ELSE received[s]
                      /\ received[s] \in Nat
  BY <1>1 DEF Core, TypeOK, Pieces
<1>5. ASSUME NEW s \in Runs \ hurt', s # r
      PROVE  CountCovers(logged'[s], req', s, received'[s], faults')
  <2>1. Counting(req', s) = Counting(req, s) /\ \A g \in Counting(req, s) : req'[g] = req[g]
    BY <1>1, <1>3, <1>5 DEF Counting, OnlyMoves, r
  <2>2. SameFor(s)  BY <1>1, <1>4, <1>5, <2>1 DEF SameFor
  <2> QED BY <1>1, <1>4, <1>5, <2>2, SameForKeeps
<1>6. ASSUME r \notin hurt'
      PROVE  CountCovers(logged'[r], req', r, received'[r], faults')
  <2> DEFINE A == Covered(logged[r], req, r)
             B == Covered(logged'[r], req', r)
  <2>1. /\ Counting(req, r) = Counting(req', r) \cup {h} /\ h \notin Counting(req', r)
        /\ \A g \in Counting(req', r) : req'[g] = req[g]
    BY <1>1, <1>3 DEF Counting, OnlyMoves, r
  <2>2. StepsHeld(req, r) = StepsHeld(req', r) \cup new
    BY <2>1 DEF StepsHeld, k
  <2>3. B \subseteq A \cup new  BY <1>1, <2>2 DEF Covered
  <2>4. /\ IsFiniteSet(A) /\ Cardinality(A) \in Nat /\ Cardinality(B) \in Nat
    BY <1>2, <1>4, CoveredIsFinite
  <2>d. A \cap new = {}  BY <2>2 DEF Covered
  <2>6. CountCovers(logged[r], req, r, received[r], faults)
    BY <1>1, <1>2, <1>6, CoversMeans
  <2>8. ASSUME faults' = 0, OneClient(logged'[r]) PROVE B = A \cup new
    <3>1. Once(next, waiting, req, logged)  BY <1>1, <2>8 DEF SentOnce
    <3>2. ASSUME NEW g \in Counting(req, r) PROVE g = h
      <4>1. <<req[g].client, req[g].chunk, "history">> \in logged[r]
        BY <3>2 DEF Counting, Core, Serves
      <4>2. req[g].client = c  BY <1>1, <1>2, <2>8, <4>1 DEF OneClient
      <4> QED BY <1>1, <3>1, <3>2, <4>2 DEF Once, Counting, c
    <3>3. Counting(req', r) = {}  BY <2>1, <3>2
    <3>4. StepsHeld(req', r) = {} /\ StepsHeld(req, r) = new
      BY <2>2, <3>3 DEF StepsHeld
    <3>5. new \subseteq StepsIn(logged[r])  BY <1>2 DEF StepsIn
    <3> QED BY <1>1, <3>4, <3>5 DEF Covered
  <2> HIDE DEF A, B, new
  <2>5. /\ IsFiniteSet(A \cup new)
        /\ Cardinality(A \cup new) = Cardinality(A) + Cardinality(new)
    <3>1. Cardinality(A \cap new) = 0  BY <2>d, FS_EmptySet
    <3> QED BY <1>n, <2>4, <3>1, FS_Union
  <2>7. Cardinality(B) <= Cardinality(A) + Cardinality(new)
    BY <2>3, <2>5, FS_Subset
  <2>9. OneClient(logged'[r]) => OneClient(logged[r])  BY <1>1
  <2>10. Cardinality(A) <= received[r]
         /\ (faults = 0 /\ OneClient(logged[r]) => received[r] = Cardinality(A))
    BY <2>6 DEF CountCovers, A
  <2>11. received'[r] = received[r] + Cardinality(new) /\ received[r] \in Nat  BY <1>2, <1>4
  <2>12. Cardinality(B) <= received'[r]
    BY <1>n, <2>4, <2>7, <2>10, <2>11
  <2>13. faults' = 0 /\ OneClient(logged'[r]) => received'[r] = Cardinality(B)
    BY <1>1, <2>5, <2>8, <2>9, <2>10, <2>11
  <2> QED BY <2>12, <2>13 DEF CountCovers, B
<1> QED BY <1>5, <1>6, CoversMeansNext

LEMMA CoversStep == Core /\ Core' /\ SentOnce /\ ReceivedCovers /\ [Next]_vars => ReceivedCovers'
<1> SUFFICES ASSUME Core, Core', SentOnce, ReceivedCovers, [Next]_vars PROVE ReceivedCovers'
  OBVIOUS
<1>1. ASSUME NEW c \in Clients, NEW h \in Handlers, Send(c, h) PROVE ReceivedCovers'
  <2>1. \A g \in Handlers : IF g = h THEN req[g].pc = "idle" /\ req'[g].pc \in {"byName", "find"}
                                     ELSE req'[g] = req[g]
    BY <1>1 DEF Send, IdleReq, Core, TypeOK
  <2>2. logged' = logged /\ received' = received /\ hurt' = hurt /\ faults' = faults
    BY <1>1 DEF Send, dbVars
  <2> QED BY <2>1, <2>2, OtherSteps
<1>2. ASSUME NEW c \in Clients, LoseConnection(c) PROVE ReceivedCovers'
  <2>1. req' = req /\ logged' = logged /\ received' = received /\ hurt' = hurt /\ faults' # 0
    BY <1>2, FaultCounts DEF LoseConnection, dbVars
  <2> QED BY <2>1, OtherSteps
<1>a. ASSUME NEW h \in Handlers, NEW s, Answer(h, s), req[h].pc # "count"
      PROVE  \A g \in Handlers : \/ req[g].pc # "count" /\ req'[g].pc # "count"
                                 \/ req'[g] = req[g]
  BY <1>a DEF Answer, IdleReq, Core, TypeOK
<1>o. ASSUME NEW h \in Handlers, OnlyMoves(h), req[h].pc # "count", req'[h].pc # "count"
      PROVE  \A g \in Handlers : \/ req[g].pc # "count" /\ req'[g].pc # "count"
                                 \/ req'[g] = req[g]
  BY <1>o DEF OnlyMoves
<1>3. ASSUME NEW h \in Handlers, Upsert(h) PROVE ReceivedCovers'
  <2>1. /\ logged' = logged /\ received' = received /\ hurt' = hurt
        /\ faults' = 0 => faults = 0
    BY <1>3, FaultCounts
    DEF Upsert, FindByName, LookupFails, InsertRun, UpdateRun, FetchRun, dbVars, ghosts
  <2>2. CASE FetchRun(h)
    <3>1. req[h].pc # "count" /\ \E s : Answer(h, s)  BY <2>2 DEF FetchRun
    <3> QED BY <1>a, <2>1, <3>1, OtherSteps
  <2>3. CASE FindByName(h) \/ LookupFails(h) \/ UpdateRun(h) \/ \E r \in Runs : InsertRun(h, r)
    <3>1. OnlyMoves(h) /\ req[h].pc # "count" /\ req'[h].pc # "count"
      BY <2>3, RequestGoes, RequestTakes DEF FindByName, LookupFails, UpdateRun, InsertRun, Goto
    <3> QED BY <1>o, <2>1, <3>1, OtherSteps
  <2> QED BY <1>3, <2>2, <2>3 DEF Upsert
<1>4. ASSUME NEW h \in Handlers, ServeHTTP(h) PROVE ReceivedCovers'
  <2>1. CASE FindRun(h)
    <3>0. PICK r \in Live : req' = [req EXCEPT ![h].pc = "files", ![h].run = r,
                                              ![h].files = FilesOf(req[h].chunk)]
      BY <2>1 DEF FindRun
    <3>1. OnlyMoves(h) /\ req[h].pc # "count" /\ req'[h].pc # "count"
      <4>1. OnlyMoves(h) /\ req'[h].pc = "files"  BY <3>0, RequestFinds
      <4> QED BY <2>1, <4>1 DEF FindRun
    <3> QED BY <1>o, <2>1, <3>1, OtherSteps DEF FindRun, dbVars, ghosts
  <2>2. CASE RunNotFound(h) \/ StatementFails(h) \/ LogFull(h) \/ Reply(h)
    <3>1. /\ logged' = logged /\ received' = received /\ hurt' = hurt
          /\ faults' = 0 => faults = 0
      BY <2>2, FaultCounts DEF RunNotFound, StatementFails, LogFull, Reply, dbVars, ghosts
    <3>2. req[h].pc # "count" /\ \E s : Answer(h, s)
      BY <2>2 DEF RunNotFound, StatementFails, LogFull, Reply
    <3> QED BY <1>a, <3>1, <3>2, OtherSteps
  <2>3. CASE LogHistory(h)  BY <2>3, HistoryCovers
  <2>4. CASE CountReceived(h)  BY <2>4, CountingCovers
  <2>5. CASE CountFails(h)
    <3>1. /\ req[h].pc = "count" /\ Goto(h, "files") /\ hurt' = hurt \cup {req[h].run}
          /\ logged' = logged /\ received' = received /\ faults' # 0
      BY <2>5, FaultCounts DEF CountFails, dbVars
    <3>2. OnlyMoves(h) /\ req'[h].pc = "files"  BY <3>1, RequestGoes DEF Goto
    <3>3. \A r \in Runs \ hurt' : SameFor(r)
      BY <3>1, <3>2 DEF SameFor, Counting, OnlyMoves
    <3> QED BY <3>1, <3>3, QuietCovers
  <2>6. CASE \E f \in OtherFiles : LogOther(h, f)
    <3>1. PICK f \in OtherFiles : LogOther(h, f)  BY <2>6
    <3>2. /\ req[h].pc = "files" /\ AppendFile(h, f) /\ f # "history"
          /\ req' = [req EXCEPT ![h].files = @ \ {f}]
          /\ received' = received /\ hurt' = hurt /\ faults' = faults
      BY <3>1 DEF LogOther, ghosts
    <3>3. OnlyMoves(h) /\ req'[h].pc = "files"  BY <3>2, RequestDrops
    <3> DEFINE x == <<req[h].client, req[h].chunk, f>>
    <3>4. \A r \in Runs : logged'[r] = IF r = req[h].run THEN logged[r] \cup {x} ELSE logged[r]
      BY <3>2, Appended
    <3>5. x[3] # "history"  BY <3>2
    <3> HIDE DEF x
    <3>6. ASSUME NEW r \in Runs
          PROVE  /\ {p \in logged'[r] : p[3] = "history"} = {p \in logged[r] : p[3] = "history"}
                 /\ logged[r] \subseteq logged'[r]
      BY <3>4, <3>5
    <3>7. \A r \in Runs : /\ Counting(req', r) = Counting(req, r)
                          /\ \A g \in Counting(req, r) : req'[g].chunk = req[g].chunk
      BY <3>2, <3>3 DEF Counting, OnlyMoves
    <3> QED BY <3>2, <3>6, <3>7, QuietCovers DEF SameFor
  <2>7. CASE StoreSummary(h)
    <3>1. OnlyMoves(h) /\ req[h].pc # "count" /\ req'[h].pc # "count"
      BY <2>7, RequestDrops DEF StoreSummary
    <3> QED BY <1>o, <2>7, <3>1, OtherSteps DEF StoreSummary, dbVars, ghosts
  <2>8. CASE Complete(h)
    <3>1. OnlyMoves(h) /\ req[h].pc # "count" /\ req'[h].pc # "count"
      BY <2>8, RequestGoes DEF Complete, Goto
    <3>2. faults' = 0 => faults = 0  BY <2>8, FaultCounts DEF Complete
    <3> QED BY <1>o, <2>8, <3>1, <3>2, OtherSteps DEF Complete
  <2> QED BY <1>4, <2>1, <2>2, <2>3, <2>4, <2>5, <2>6, <2>7, <2>8 DEF ServeHTTP
<1>5. ASSUME NEW r \in Deletable, DeleteRun(r) PROVE ReceivedCovers'
  BY <1>5, OtherSteps DEF DeleteRun, ghosts
<1>6. ASSUME Crash PROVE ReceivedCovers'
  <2>1. /\ logged' = logged /\ received' = received /\ faults' # 0
        /\ \A h \in Handlers : req'[h].pc = "idle"
        /\ hurt' = hurt \cup {req[h].run : h \in {g \in Handlers : req[g].pc = "count"}}
    BY <1>6, FaultCounts DEF Crash, dbVars, IdleReq
  <2>2. \A r \in Runs \ hurt' : Counting(req, r) = {} /\ Counting(req', r) = {}
    BY <2>1 DEF Counting
  <2>3. \A r \in Runs \ hurt' : SameFor(r)  BY <2>1, <2>2 DEF SameFor
  <2> QED BY <2>1, <2>3, QuietCovers
<1>7. ASSUME UNCHANGED vars PROVE ReceivedCovers'
  BY <1>7, OtherSteps DEF vars, dbVars, ghosts
<1> QED BY <1>1, <1>2, <1>3, <1>4, <1>5, <1>6, <1>7 DEF Next, Done

LEMMA CoversInit == Init => ReceivedCovers
<1> SUFFICES ASSUME Init, NEW r \in Runs
             PROVE  CountCovers(logged[r], req, r, received[r], faults)
  BY CoversMeans
<1>1. logged[r] = {} /\ received[r] = 0  BY DEF Init
<1>2. Covered(logged[r], req, r) = {}  BY <1>1 DEF Covered, StepsIn
<1>3. Cardinality(Covered(logged[r], req, r)) = 0  BY <1>2, FS_EmptySet
<1> QED BY <1>1, <1>3 DEF CountCovers

(* received_history_count covers the distinct steps in the log that are not
   about to be counted, and equals them while a single client meets no fault. *)
THEOREM CountCoversLog == Spec => []ReceivedCovers
<1>1. Core /\ SentOnce /\ ReceivedCovers /\ [Next]_vars => Core' /\ SentOnce' /\ ReceivedCovers'
  BY CoreStep, OnceStep, CoversStep
<1> QED BY <1>1, CoreInit, OnceInit, CoversInit, PTL DEF Spec
=============================================================================
