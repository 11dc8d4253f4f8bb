------------------------ MODULE InterviewTurnsProofs ------------------------
(* Theorems about InterviewTurns, for any number of answers, callbacks and     *)
(* faults: one folder of an answer at a time, an applied answer is in the      *)
(* stored state, the transcript closes with the session, an answer counts once *)
(* across a crash, and a stored re-analysis is kept.                           *)
EXTENDS InterviewTurns, TLAPS

\* A callback past its lookup has a turn key and one that folds holds the receipt; a
\* held receipt's lease has not lapsed.
Holds ==
    /\ \A t \in Tasks : task[t].pc # "idle" => task[t].turn \in Turns
    /\ \A t \in Tasks : task[t].pc \in Folding => Owns(t)
    /\ \A k \in Turns : receipt[k].owner # NoTask => receipt[k].live /\ receipt[k].state = "received"

\* What the process counts it has stored or is about to, and it never stores less.
Ahead ==
    /\ \A k \in Turns : row.folds[k] <= memory.folds[k]
    /\ \A t \in Tasks : task[t].pc \in {"load", "update"} => memory.folds[task[t].turn] >= 1
    /\ \A t \in Tasks : task[t].pc \in {"count", "counted", "settle"} => row.folds[task[t].turn] >= 1

\* The callbacks a drained submit leaves have no answer to add.
Drained ==
    /\ \A t \in Tasks : task[t].pc \in {"wait", "persist"} => task[t].counted
    /\ finish = "submitted" /\ ~history.late =>
          \A t \in Tasks : task[t].pc \in {"wait", "persist"} => receipt[task[t].turn].state # "none"

IInv == TypeOK /\ Holds /\ Ahead /\ AppliedIsFolded
-----------------------------------------------------------------------------
LEMMA Constants ==
  /\ NoTask \notin Tasks /\ NoTurn \notin Turns
  /\ 1 \in 1 .. SaveAttempts /\ 0 \in 0 .. MaxFolds /\ MaxFolds \in Nat \ {0}
  BY ConstantsAssumption

LEMMA NewRecords ==
  /\ NoReceipt \in ReceiptType /\ NoRow \in RowType /\ NoCallback \in CallbackType
  /\ NoAnalysis \in AnalysisType
  /\ NoHistory \in [crashes : Nat, failures : Nat, late : BOOLEAN, raced : BOOLEAN]
  /\ \A t \in Tasks \cup {NoTask} : Taken(t) \in ReceiptType
  /\ \A r \in RowType : Loaded(r) \in MemoryType /\ Loaded(r).folds = r.folds
<1>1. [k \in Turns |-> 0] \in Folds
  BY Constants DEF Folds
<1>2. QED
  BY <1>1, Constants
  DEF NoReceipt, NoRow, NoCallback, NoAnalysis, NoHistory, Taken, Loaded, ReceiptType, RowType,
      CallbackType, AnalysisType, MemoryType

LEMMA InitIInv == Init => IInv
<1> SUFFICES ASSUME Init PROVE IInv
  OBVIOUS
<1>1. TypeOK
  BY NewRecords DEF Init, TypeOK
<1>2. Holds
  BY DEF Init, Holds, NoCallback, NoReceipt, Folding
<1>3. Ahead /\ AppliedIsFolded
  BY Constants DEF Init, Ahead, AppliedIsFolded, NoCallback, NoReceipt, NoRow, Loaded
<1>4. QED
  BY <1>1, <1>2, <1>3 DEF IInv
-----------------------------------------------------------------------------
(* The steps of a callback *)

\* A callback that goes on within what the rows allow, or returns.
LEMMA GotoTask ==
  ASSUME TypeOK, NEW t \in Tasks, NEW pc \in {"persist", "claim", "reclaim"} \cup Folding,
         Goto(t, pc)
  PROVE  /\ task' \in [Tasks -> CallbackType] /\ mutex' \in Tasks \cup {NoTask}
         /\ task'[t].pc = pc /\ task'[t].turn = task[t].turn /\ task'[t].counted = task[t].counted
         /\ \A u \in Tasks : u # t => task'[u] = task[u]
  BY DEF TypeOK, CallbackType, Goto

LEMMA ReturnTask ==
  ASSUME TypeOK, NEW t \in Tasks, Return(t)
  PROVE  /\ task' \in [Tasks -> CallbackType] /\ mutex' \in Tasks \cup {NoTask}
         /\ task'[t].pc = "idle"
         /\ \A u \in Tasks : u # t => task'[u] = task[u]
  BY NewRecords DEF TypeOK, Return, NoCallback

\* A callback that takes no receipt and writes no state keeps the invariant if it does
\* not become a folder.
LEMMA OnlyTask ==
  ASSUME IInv, NEW t \in Tasks, task' \in [Tasks -> CallbackType],
         task'[t].pc \notin Folding, task'[t].pc # "idle" => task'[t].turn \in Turns,
         \A u \in Tasks : u # t => task'[u] = task[u],
         mutex' \in Tasks \cup {NoTask}, ledger' \subseteq Turns,
         UNCHANGED <<receipt, row, memory, finish, analysis, confirmed, history>>
  PROVE  IInv'
<1> USE DEF IInv
<1>1. TypeOK'
  BY DEF TypeOK
<1>2. Holds'
  BY DEF Holds, Owns
<1>3. Ahead' /\ AppliedIsFolded'
  BY DEF Ahead, AppliedIsFolded, Folding
<1>4. QED
  BY <1>1, <1>2, <1>3

\* A callback takes a receipt nobody holds and is the folder of its answer.
LEMMA TakeReceipt ==
  ASSUME IInv, NEW t \in Tasks, task[t].pc # "idle",
         \A u \in Tasks : receipt[task[t].turn].owner # u, receipt[task[t].turn].state # "applied",
         receipt' = [receipt EXCEPT ![task[t].turn] = Taken(t)], Goto(t, "probe"),
         UNCHANGED <<row, ledger, memory, finish, analysis, confirmed, history>>
  PROVE  IInv'
<1> USE DEF IInv
<1> DEFINE k == task[t].turn
<1>1. k \in Turns
  BY DEF Holds
<1>2. /\ task' \in [Tasks -> CallbackType] /\ mutex' \in Tasks \cup {NoTask}
      /\ task'[t].pc = "probe" /\ task'[t].turn = k
      /\ \A u \in Tasks : u # t => task'[u] = task[u]
  BY GotoTask DEF Folding
<1>3. /\ receipt' \in [Turns -> ReceiptType]
      /\ receipt'[k].state = "received" /\ receipt'[k].owner = t /\ receipt'[k].live
      /\ \A j \in Turns : j # k => receipt'[j] = receipt[j]
  BY <1>1, NewRecords DEF TypeOK, Taken
<1>4. TypeOK'
  BY <1>2, <1>3 DEF TypeOK
<1>5. Holds'
  <2>1. \A u \in Tasks : u # t /\ task[u].pc \in Folding => task[u].turn # k
    BY DEF Holds, Owns
  <2>2. QED
    BY <1>1, <1>2, <1>3, <2>1 DEF Holds, Owns, Folding
<1>6. Ahead' /\ AppliedIsFolded'
  BY <1>2, <1>3 DEF Ahead, AppliedIsFolded
<1>7. QED
  BY <1>4, <1>5, <1>6
LEMMA DoorStep ==
  ASSUME IInv, NEW t \in Tasks, (\E k \in Turns : Arrive(t, k)) \/ Acquire(t) \/ Lookup(t)
  PROVE  IInv'
<1> USE DEF IInv
<1>1. ASSUME NEW k \in Turns, Arrive(t, k) PROVE IInv'
  <2> DEFINE seen == k \in ledger
  <2> DEFINE free == mutex = NoTask /\ \A u \in Tasks : task[u].pc # "wait"
  <2> DEFINE pc == CASE seen -> "lookup" [] ~seen /\ free -> "persist" [] OTHER -> "wait"
  <2> DEFINE counted == ~seen
  <2>1. pc \in {"lookup", "persist", "wait"} /\ counted \in BOOLEAN
    OBVIOUS
  <2>2. /\ task' = [task EXCEPT ![t] = [NoCallback EXCEPT !.turn = k, !.counted = counted, !.pc = pc]]
        /\ mutex' = IF ~seen /\ free THEN t ELSE mutex
        /\ ledger' = ledger \cup {k}
    BY <1>1 DEF Arrive
  <2>3. UNCHANGED <<receipt, row, memory, finish, analysis, confirmed, history>>
    BY <1>1 DEF Arrive
  <2> HIDE DEF pc, counted
  <2>4. /\ task' \in [Tasks -> CallbackType]
        /\ task'[t].pc \notin Folding /\ task'[t].turn = k
        /\ \A u \in Tasks : u # t => task'[u] = task[u]
    BY <2>1, <2>2 DEF TypeOK, CallbackType, NoCallback, Folding
  <2>5. QED
    BY <2>2, <2>3, <2>4, OnlyTask DEF TypeOK
<1>2. CASE Acquire(t)
  <2>1. /\ task' \in [Tasks -> CallbackType]
        /\ task'[t].pc \notin Folding /\ task'[t].turn \in Turns
        /\ \A u \in Tasks : u # t => task'[u] = task[u]
    BY <1>2 DEF TypeOK, CallbackType, Acquire, Holds, Folding
  <2>2. QED
    BY <1>2, <2>1, OnlyTask DEF Acquire, TypeOK
<1>3. CASE Lookup(t)
  <2>1. CASE receipt[task[t].turn].state = "failed"
    <3>1. /\ task' \in [Tasks -> CallbackType]
          /\ task'[t].pc \notin Folding /\ task'[t].turn \in Turns
          /\ \A u \in Tasks : u # t => task'[u] = task[u]
      BY <1>3, <2>1 DEF TypeOK, CallbackType, Lookup, Holds, Folding
    <3>2. QED
      BY <1>3, <2>1, <3>1, OnlyTask DEF Lookup, TypeOK
  <2>2. CASE receipt[task[t].turn].state # "failed"
    BY <1>3, <2>2, ReturnTask, OnlyTask DEF Lookup, TypeOK, Folding
  <2>3. QED
    BY <2>1, <2>2
<1>4. QED
  BY <1>1, <1>2, <1>3

\* A callback that returns, or goes on to claim or reclaim, without writing.
LEMMA NoWrite ==
  ASSUME IInv, NEW t \in Tasks, task[t].pc # "idle",
         Return(t) \/ Goto(t, "claim") \/ Goto(t, "reclaim"),
         UNCHANGED <<receipt, row, ledger, memory, finish, analysis, confirmed, history>>
  PROVE  IInv'
<1>1. CASE Return(t)
  BY <1>1, ReturnTask, OnlyTask DEF IInv, TypeOK, Folding
<1>2. CASE Goto(t, "claim") \/ Goto(t, "reclaim")
  BY <1>2, GotoTask, OnlyTask DEF IInv, TypeOK, Holds, Folding
<1>3. QED
  BY <1>1, <1>2

LEMMA ReceiptStep ==
  ASSUME IInv, NEW t \in Tasks, Persist(t) \/ Claim(t) \/ Reclaim(t)
  PROVE  IInv'
<1> DEFINE k == task[t].turn
<1>1. k \in Turns /\ task[t].pc # "idle"
  BY DEF IInv, Holds, Persist, Claim, Reclaim
<1>2. \A u \in Tasks : receipt[k].owner = u => receipt[k].live /\ receipt[k].state = "received"
  BY <1>1, Constants DEF IInv, Holds
<1>3. CASE Persist(t)
  BY <1>1, <1>2, <1>3, TakeReceipt, NoWrite DEF Persist, Resume
<1>4. CASE Claim(t)
  BY <1>1, <1>2, <1>4, TakeReceipt, NoWrite DEF Claim
<1>5. CASE Reclaim(t)
  BY <1>1, <1>2, <1>5, TakeReceipt, NoWrite DEF Reclaim
<1>6. QED
  BY <1>3, <1>4, <1>5

\* A database call that raises is only counted.
LEMMA FailureCounted ==
  ASSUME TypeOK, DatabaseFails
  PROVE  /\ history' \in [crashes : Nat, failures : Nat, late : BOOLEAN, raced : BOOLEAN]
         /\ history'.late = history.late
  BY DEF TypeOK, DatabaseFails

LEMMA PersistFailsStep ==
  ASSUME IInv, NEW t \in Tasks, PersistFails(t)
  PROVE  IInv'
<1> USE DEF IInv
<1> DEFINE k == task[t].turn
<1>1. k \in Turns
  BY DEF PersistFails, Holds
<1>2. UNCHANGED <<row, ledger, memory, finish, analysis, confirmed>>
  BY DEF PersistFails
<1>3. \/ receipt' = receipt
      \/ receipt[k].state = "none" /\ receipt' = [receipt EXCEPT ![k] = Taken(NoTask)]
  BY DEF PersistFails
<1>4. /\ task' \in [Tasks -> CallbackType] /\ mutex' \in Tasks \cup {NoTask}
      /\ task'[t].pc \in {"idle", "claim"}
      /\ task'[t].pc = "claim" => task'[t].turn = k
      /\ \A u \in Tasks : u # t => task'[u] = task[u]
  BY GotoTask, ReturnTask DEF PersistFails
<1>5. TypeOK'
  BY <1>1, <1>2, <1>3, <1>4, NewRecords, FailureCounted DEF TypeOK, PersistFails
<1>6. Holds'
  <2>1. /\ \A j \in Turns : j # k => receipt'[j] = receipt[j]
        /\ \/ receipt'[k] = receipt[k]
           \/ receipt[k].state = "none" /\ receipt'[k].owner = NoTask
    BY <1>1, <1>3 DEF TypeOK, Taken
  <2>2. QED
    BY <1>1, <1>4, <2>1 DEF Holds, Owns, Folding
<1>7. Ahead'
  BY <1>2, <1>4 DEF Ahead
<1>8. AppliedIsFolded'
  BY <1>2, <1>3 DEF AppliedIsFolded, Taken, TypeOK
<1>9. QED
  BY <1>5, <1>6, <1>7, <1>8
-----------------------------------------------------------------------------
(* The fold *)

LEMMA ProbeStep ==
  ASSUME IInv, NEW t \in Tasks, Probe(t)
  PROVE  IInv'
<1> USE DEF IInv
<1> DEFINE k == task[t].turn
<1>1. k \in Turns /\ UNCHANGED <<receipt, row, ledger, finish, analysis, confirmed, history>>
  BY DEF Probe, Holds
<1>2. PICK pc \in {"fail", "load"} :
        /\ Goto(t, pc)
        /\ pc = "fail" => memory' = memory
        /\ pc = "load" => memory' = [memory EXCEPT !.folds[k] = IF @ < MaxFolds THEN @ + 1 ELSE @]
  BY DEF Probe
<1>3. /\ task' \in [Tasks -> CallbackType] /\ mutex' \in Tasks \cup {NoTask}
      /\ task'[t].pc = pc /\ task'[t].turn = k
      /\ \A u \in Tasks : u # t => task'[u] = task[u]
  BY <1>2, GotoTask DEF Folding
<1>4. /\ memory' \in MemoryType
      /\ \A j \in Turns : memory'.folds[j] >= memory.folds[j]
      /\ pc = "load" => memory'.folds[k] >= 1
  BY <1>1, <1>2, Constants DEF TypeOK, MemoryType, Folds
<1>5. TypeOK'
  BY <1>1, <1>3, <1>4 DEF TypeOK
<1>6. Holds'
  BY <1>1, <1>3 DEF Holds, Owns, Folding, Probe
<1>7. Ahead'
  <2>1. \A j \in Turns : row.folds[j] \in Nat /\ memory.folds[j] \in Nat /\ memory'.folds[j] \in Nat
    BY <1>4 DEF TypeOK, RowType, MemoryType, Folds
  <2>2. \A u \in Tasks : task[u].pc \in {"load", "update"} => task[u].turn \in Turns
    BY DEF Holds
  <2>3. QED
    BY <1>1, <1>3, <1>4, <2>1, <2>2 DEF Ahead
<1>8. AppliedIsFolded'
  BY <1>1 DEF AppliedIsFolded
<1>9. QED
  BY <1>5, <1>6, <1>7, <1>8

\* A save that raises, or is only begun, writes no row and forgets no fold.
LEMMA Unsaved ==
  ASSUME IInv, NEW t \in Tasks, task[t].pc \in {"load", "update", "count", "counted"},
         task' \in [Tasks -> CallbackType], mutex' \in Tasks \cup {NoTask},
         \/ task[t].pc \in {"load", "update"} /\ task'[t].pc \in {"update", "fail"}
         \/ task[t].pc \in {"count", "counted"} /\ task'[t].pc \in {"counted", "settle"},
         task'[t].turn = task[t].turn, \A u \in Tasks : u # t => task'[u] = task[u],
         memory' \in MemoryType, memory'.folds = memory.folds,
         history' \in [crashes : Nat, failures : Nat, late : BOOLEAN, raced : BOOLEAN],
         UNCHANGED <<receipt, row, ledger, finish, analysis, confirmed>>
  PROVE  IInv'
<1> USE DEF IInv
<1>1. TypeOK'
  BY DEF TypeOK
<1>2. Holds'
  BY DEF Holds, Owns, Folding
<1>3. Ahead'
  BY DEF Ahead
<1>4. AppliedIsFolded'
  BY DEF AppliedIsFolded
<1>5. QED
  BY <1>1, <1>2, <1>3, <1>4

LEMMA SaveLoadStep ==
  ASSUME IInv, NEW t \in Tasks, SaveLoad(t)
  PROVE  IInv'
<1> USE DEF IInv
<1>1. /\ task[t].pc \in {"load", "count"} /\ history' = history
      /\ UNCHANGED <<receipt, row, ledger, finish, analysis, confirmed>>
  BY DEF SaveLoad
<1>2. CASE memory' = [memory EXCEPT !.torn = TRUE] /\ Goto(t, Raised(t))
  <2>1. Raised(t) = IF task[t].pc = "load" THEN "fail" ELSE "settle"
    BY <1>1 DEF Raised
  <2>2. memory' \in MemoryType /\ memory'.folds = memory.folds
    BY <1>2 DEF TypeOK, MemoryType
  <2>3. QED
    BY <1>1, <1>2, <2>1, <2>2, GotoTask, Unsaved, ZenonT(30) DEF TypeOK, Folding
<1>3. CASE /\ task' = [task EXCEPT ![t].valid = TRUE,
                                   ![t].pc = IF @ = "load" THEN "update" ELSE "counted"]
           /\ UNCHANGED <<memory, mutex>>
  <2>1. /\ task' \in [Tasks -> CallbackType] /\ task'[t].turn = task[t].turn
        /\ task'[t].pc = IF task[t].pc = "load" THEN "update" ELSE "counted"
        /\ \A u \in Tasks : u # t => task'[u] = task[u]
    <3> DEFINE pc == IF task[t].pc = "load" THEN "update" ELSE "counted"
    <3> DEFINE saving == [task[t] EXCEPT !.valid = TRUE, !.pc = pc]
    <3>1. saving \in CallbackType /\ saving.pc = pc /\ saving.turn = task[t].turn
      BY ZenonT(30) DEF TypeOK, CallbackType, Folding
    <3>2. task' = [task EXCEPT ![t] = saving]
      BY <1>3 DEF TypeOK, CallbackType
    <3> HIDE DEF saving
    <3>3. QED
      BY <3>1, <3>2 DEF TypeOK
  <2>2. QED
    BY <1>1, <1>3, <2>1, Unsaved DEF TypeOK
<1>4. QED
  BY <1>2, <1>3 DEF SaveLoad

\* A save that is carried out stores every fold the process counts.
LEMMA Saved ==
  ASSUME IInv, NEW t \in Tasks, NEW key \in Turns \cup {NoTurn}, row' = Written(key),
         task[t].pc \in {"update", "counted"}, task' \in [Tasks -> CallbackType],
         mutex' \in Tasks \cup {NoTask}, task'[t].pc \in {"count", "settle", "fail"},
         task'[t].turn = task[t].turn, \A u \in Tasks : u # t => task'[u] = task[u],
         memory' \in MemoryType, memory'.folds = memory.folds,
         analysis' \in [Turns -> AnalysisType],
         history' \in [crashes : Nat, failures : Nat, late : BOOLEAN, raced : BOOLEAN],
         UNCHANGED <<receipt, ledger, finish, confirmed>>
  PROVE  IInv'
<1> USE DEF IInv
<1>1. row' \in RowType /\ row'.folds = memory.folds
  BY DEF TypeOK, MemoryType, RowType, Written
<1>2. \A j \in Turns : /\ row.folds[j] \in Nat /\ row'.folds[j] \in Nat
                       /\ row'.folds[j] >= row.folds[j]
  BY <1>1 DEF TypeOK, MemoryType, RowType, Folds, Ahead
<1>3. TypeOK'
  BY <1>1 DEF TypeOK
<1>4. Holds'
  BY DEF Holds, Owns, Folding
<1>5. Ahead'
  <2>1. \A j \in Turns : row'.folds[j] <= memory'.folds[j]
    BY <1>1, <1>2
  <2>2. \A u \in Tasks : task[u].pc # "idle" => task[u].turn \in Turns
    BY DEF Holds
  <2>3. row'.folds[task[t].turn] >= 1
    BY <1>1, <1>2, <2>2 DEF Ahead
  <2>4. \A u \in Tasks : task'[u].pc \in {"load", "update"} => memory'.folds[task'[u].turn] >= 1
    BY DEF Ahead
  <2>5. \A u \in Tasks : task'[u].pc \in {"count", "counted", "settle"}
                           => row'.folds[task'[u].turn] >= 1
    BY <1>2, <2>2, <2>3 DEF Ahead
  <2>6. QED
    BY <2>1, <2>4, <2>5 DEF Ahead
<1>6. AppliedIsFolded'
  BY <1>2 DEF AppliedIsFolded
<1>7. QED
  BY <1>3, <1>4, <1>5, <1>6
\* Another writer's version makes a re-analysis load again.
LEMMA OutdatedType ==
  ASSUME TypeOK
  PROVE  /\ Outdated \in [Turns -> AnalysisType]
         /\ \A k \in Turns : [Outdated EXCEPT ![k] = [NoAnalysis EXCEPT !.pc = "queued"]]
                               \in [Turns -> AnalysisType]
         /\ \A k \in Turns : [Outdated EXCEPT ![k].pc = "done"] \in [Turns -> AnalysisType]
<1>1. Outdated \in [Turns -> AnalysisType]
  BY DEF TypeOK, AnalysisType, Outdated
<1>2. [NoAnalysis EXCEPT !.pc = "queued"] \in AnalysisType
  BY NewRecords DEF AnalysisType
<1>3. \A k \in Turns : [Outdated[k] EXCEPT !.pc = "done"] \in AnalysisType
  BY <1>1 DEF AnalysisType
<1>4. QED
  BY <1>1, <1>2, <1>3

LEMMA SaveFoldStep ==
  ASSUME IInv, NEW t \in Tasks, SaveFold(t)
  PROVE  IInv'
<1> USE DEF IInv
<1>1. /\ task[t].pc = "update" /\ task[t].turn \in Turns
      /\ UNCHANGED <<receipt, ledger, finish, confirmed, history>>
  BY DEF SaveFold, Holds
<1>2. CASE task[t].valid
  <2>1. /\ row' = Written(task[t].turn) /\ memory' = [memory EXCEPT !.held = "current"]
        /\ Goto(t, "count")
    BY <1>2 DEF SaveFold
  <2>2. memory' \in MemoryType /\ memory'.folds = memory.folds
    BY <2>1 DEF TypeOK, MemoryType
  <2>3. analysis' \in [Turns -> AnalysisType]
    BY <1>1, <1>2, OutdatedType DEF SaveFold
  <2>4. QED
    BY <1>1, <2>1, <2>2, <2>3, GotoTask, Saved DEF TypeOK, Folding
<1>3. CASE ~task[t].valid
  <2>1. /\ memory' = [memory EXCEPT !.torn = TRUE, !.held = "none"] /\ Goto(t, "fail")
        /\ UNCHANGED <<row, analysis>>
    BY <1>3 DEF SaveFold
  <2>2. memory' \in MemoryType /\ memory'.folds = memory.folds
    BY <2>1 DEF TypeOK, MemoryType
  <2>3. QED
    BY <1>1, <2>1, <2>2, GotoTask, Unsaved DEF TypeOK, Folding
<1>4. QED
  BY <1>2, <1>3

LEMMA SaveCountersStep ==
  ASSUME IInv, NEW t \in Tasks, SaveCounters(t)
  PROVE  IInv'
<1> USE DEF IInv
<1>1. /\ task[t].pc = "counted" /\ Goto(t, "settle")
      /\ UNCHANGED <<receipt, ledger, finish, confirmed>>
  BY DEF SaveCounters
<1>2. CASE task[t].valid
  <2>1. /\ row' = Written(row.key) /\ memory' = [memory EXCEPT !.held = "current"]
        /\ analysis' = Outdated /\ history' = history
    BY <1>2 DEF SaveCounters
  <2>2. memory' \in MemoryType /\ memory'.folds = memory.folds
    BY <2>1 DEF TypeOK, MemoryType
  <2>3. row.key \in Turns \cup {NoTurn}
    BY DEF TypeOK, RowType
  <2>4. QED
    BY <1>1, <2>1, <2>2, <2>3, OutdatedType, GotoTask, Saved DEF TypeOK, Folding
<1>3. CASE ~task[t].valid
  <2>1. /\ memory' = [memory EXCEPT !.held = "none"] /\ UNCHANGED <<row, analysis>>
        /\ history' = [history EXCEPT !.raced = TRUE]
    BY <1>3 DEF SaveCounters
  <2>2. memory' \in MemoryType /\ memory'.folds = memory.folds
    BY <2>1 DEF TypeOK, MemoryType
  <2>3. history' \in [crashes : Nat, failures : Nat, late : BOOLEAN, raced : BOOLEAN]
    BY <2>1 DEF TypeOK
  <2>4. QED
    BY <1>1, <2>1, <2>2, <2>3, GotoTask, Unsaved, ZenonT(30) DEF TypeOK, Folding
<1>4. QED
  BY <1>2, <1>3

LEMMA SaveFailsStep ==
  ASSUME IInv, NEW t \in Tasks, SaveFails(t)
  PROVE  IInv'
<1> USE DEF IInv
<1>1. /\ task[t].pc \in {"update", "counted"} /\ task[t].turn \in Turns
      /\ Goto(t, Raised(t)) /\ DatabaseFails
      /\ UNCHANGED <<receipt, ledger, finish, confirmed>>
  BY DEF SaveFails, Holds
<1>2. Raised(t) = IF task[t].pc = "update" THEN "fail" ELSE "settle"
  BY <1>1 DEF Raised
<1>3. /\ task' \in [Tasks -> CallbackType] /\ mutex' \in Tasks \cup {NoTask}
      /\ task'[t].pc = Raised(t) /\ task'[t].turn = task[t].turn
      /\ \A u \in Tasks : u # t => task'[u] = task[u]
  BY <1>1, <1>2, GotoTask DEF Folding
<1>4. history' \in [crashes : Nat, failures : Nat, late : BOOLEAN, raced : BOOLEAN]
  BY <1>1, FailureCounted
<1>5. memory' \in MemoryType /\ memory'.folds = memory.folds
  BY DEF SaveFails, TypeOK, MemoryType
<1>6. CASE UNCHANGED <<row, analysis>>
  BY <1>1, <1>2, <1>3, <1>4, <1>5, <1>6, Unsaved
<1>7. CASE /\ row' = Written(IF task[t].pc = "update" THEN task[t].turn ELSE row.key)
           /\ analysis' = Outdated
  <2> DEFINE key == IF task[t].pc = "update" THEN task[t].turn ELSE row.key
  <2>1. key \in Turns \cup {NoTurn}
    BY <1>1 DEF TypeOK, RowType
  <2> HIDE DEF key
  <2>2. row' = Written(key)
    BY <1>7 DEF key
  <2>3. QED
    BY <1>1, <1>2, <1>3, <1>4, <1>5, <1>7, <2>1, <2>2, OutdatedType, Saved
<1>8. QED
  BY <1>6, <1>7 DEF SaveFails

LEMMA SettleStep ==
  ASSUME IInv, NEW t \in Tasks, SettleApplied(t) \/ SettleFailed(t) \/ SettleRaises(t)
  PROVE  IInv'
<1> USE DEF IInv
<1> DEFINE k == task[t].turn
<1>1. /\ task[t].pc \in {"settle", "fail"} /\ k \in Turns /\ Return(t)
      /\ UNCHANGED <<row, ledger, memory, finish, analysis>>
  BY DEF SettleApplied, SettleFailed, SettleRaises, Holds
<1>2. /\ task' \in [Tasks -> CallbackType] /\ mutex' \in Tasks \cup {NoTask}
      /\ task'[t].pc = "idle"
      /\ \A u \in Tasks : u # t => task'[u] = task[u]
  BY <1>1, ReturnTask
<1>3. Owns(t) /\ \A u \in Tasks : u # t /\ task[u].pc \in Folding => task[u].turn # k
  BY <1>1 DEF Holds, Owns, Folding
<1>4. PICK new \in ReceiptType :
        /\ receipt' = [receipt EXCEPT ![k] = new] /\ new.owner = NoTask
        /\ new.state = "applied" => task[t].pc = "settle"
  <2>1. CASE SettleApplied(t)
    <3>1. [NoReceipt EXCEPT !.state = "applied"] \in ReceiptType
      BY NewRecords DEF ReceiptType
    <3>2. QED
      BY <1>3, <2>1, <3>1 DEF SettleApplied, NoReceipt
  <2>2. CASE SettleFailed(t)
    <3>1. [NoReceipt EXCEPT !.state = "failed"] \in ReceiptType
      BY NewRecords DEF ReceiptType
    <3>2. QED
      BY <1>3, <2>2, <3>1 DEF SettleFailed, NoReceipt
  <2>3. CASE SettleRaises(t)
    <3> DEFINE new == [receipt[k] EXCEPT !.owner = NoTask]
    <3>1. new \in ReceiptType /\ new.owner = NoTask /\ new.state = "received"
      BY <1>1, <1>3 DEF TypeOK, ReceiptType, Owns
    <3>2. receipt' = [receipt EXCEPT ![k] = new]
      BY <1>1, <1>3, <2>3 DEF SettleRaises, Disowned, TypeOK, ReceiptType
    <3> HIDE DEF new
    <3>3. QED
      BY <3>1, <3>2
  <2>4. QED
    BY <2>1, <2>2, <2>3
<1>5. TypeOK'
  <2>1. confirmed' \subseteq Turns
    BY <1>1 DEF TypeOK, SettleApplied, SettleFailed, SettleRaises
  <2>2. history' \in [crashes : Nat, failures : Nat, late : BOOLEAN, raced : BOOLEAN]
    BY FailureCounted DEF TypeOK, SettleApplied, SettleFailed, SettleRaises
  <2>3. QED
    BY <1>1, <1>2, <1>4, <2>1, <2>2 DEF TypeOK
<1>6. /\ receipt'[k].owner = NoTask
      /\ receipt'[k].state = "applied" => task[t].pc = "settle"
      /\ \A j \in Turns : j # k => receipt'[j] = receipt[j]
  BY <1>1, <1>4 DEF TypeOK
<1>7. Holds'
  BY <1>1, <1>2, <1>3, <1>4, <1>6 DEF Holds, Owns, TypeOK, Folding
<1>8. Ahead'
  BY <1>1, <1>2 DEF Ahead
<1>9. AppliedIsFolded'
  BY <1>1, <1>4, <1>6 DEF AppliedIsFolded, Ahead, TypeOK
<1>10. QED
  BY <1>5, <1>7, <1>8, <1>9
-----------------------------------------------------------------------------
(* The other steps *)

\* A step that leaves the callbacks, the rows and the process's state alone.
LEMMA QuietStep ==
  ASSUME IInv,
         \/ \E k \in Turns : Lapse(k) \/ Analyse(k) \/ ReconcileAgain(k)
         \/ Close \/ Submit \/ Reopen
  PROVE  IInv'
<1> USE DEF IInv
<1>1. UNCHANGED <<row, ledger, mutex, memory, task, confirmed>>
  BY DEF Lapse, Analyse, ReconcileAgain, Close, Submit, Reopen
<1> DEFINE Kept == /\ receipt' \in [Turns -> ReceiptType]
                   /\ \A j \in Turns : /\ receipt'[j].state = receipt[j].state
                                       /\ receipt'[j].owner = receipt[j].owner
                                       /\ receipt[j].owner # NoTask => receipt'[j].live
<1>2. Kept
  <2>1. ASSUME NEW k \in Turns, Lapse(k) PROVE Kept
    <3>1. receipt[k].owner = NoTask /\ receipt' = [receipt EXCEPT ![k].live = FALSE]
      BY <2>1 DEF Lapse
    <3> DEFINE lapsed == [receipt[k] EXCEPT !.live = FALSE]
    <3>2. /\ lapsed \in ReceiptType
          /\ lapsed.state = receipt[k].state /\ lapsed.owner = receipt[k].owner
      BY ZenonT(30) DEF TypeOK, ReceiptType
    <3>3. receipt' = [receipt EXCEPT ![k] = lapsed]
      BY <3>1 DEF TypeOK
    <3> HIDE DEF lapsed
    <3>4. /\ receipt' \in [Turns -> ReceiptType] /\ receipt'[k] = lapsed
          /\ \A j \in Turns : j # k => receipt'[j] = receipt[j]
      BY <3>2, <3>3 DEF TypeOK
    <3>5. QED
      BY <3>1, <3>2, <3>4 DEF Holds
  <2>2. CASE receipt' = receipt
    BY <2>2 DEF TypeOK, Holds
  <2>3. QED
    BY <2>1, <2>2 DEF Analyse, ReconcileAgain, Close, Submit, Reopen
<1>3. analysis' \in [Turns -> AnalysisType]
  <2>1. ASSUME NEW k \in Turns, Analyse(k) PROVE analysis' \in [Turns -> AnalysisType]
    BY <2>1 DEF Analyse, TypeOK, AnalysisType
  <2>2. ASSUME NEW k \in Turns, ReconcileAgain(k) PROVE analysis' \in [Turns -> AnalysisType]
    BY <2>2, Constants, ConstantsAssumption DEF ReconcileAgain, TypeOK, AnalysisType
  <2>3. QED
    BY <2>1, <2>2 DEF Lapse, Close, Submit, Reopen, TypeOK
<1>4. history' \in [crashes : Nat, failures : Nat, late : BOOLEAN, raced : BOOLEAN]
  <2>1. CASE Submit
    <3> DEFINE timedOut == Counted # {}
    <3>1. timedOut \in BOOLEAN /\ history' = [history EXCEPT !.late = timedOut]
      BY <2>1 DEF Submit
    <3> HIDE DEF timedOut
    <3>2. QED
      BY <3>1 DEF TypeOK
  <2>2. QED
    BY <2>1 DEF Lapse, Analyse, ReconcileAgain, Close, Reopen, TypeOK
<1>5. finish' \in {"open", "draining", "submitted"}
  BY DEF Lapse, Analyse, ReconcileAgain, Close, Submit, Reopen, TypeOK
<1>6. TypeOK'
  BY <1>1, <1>2, <1>3, <1>4, <1>5 DEF TypeOK
<1>7. Holds'
  BY <1>1, <1>2 DEF Holds, Owns, Folding
<1>8. Ahead' /\ AppliedIsFolded'
  BY <1>1, <1>2 DEF Ahead, AppliedIsFolded
<1>9. QED
  BY <1>6, <1>7, <1>8

LEMMA ReconcileStep ==
  ASSUME IInv, NEW k \in Turns, Reconcile(k)
  PROVE  IInv'
<1> USE DEF IInv
<1>1. /\ UNCHANGED <<receipt, ledger, mutex, finish, confirmed, history>>
      /\ row' = [row EXCEPT !.analysed = @ \cup {k}]
      /\ memory' = [memory EXCEPT !.held = Missed(@)]
      /\ task' = [t \in Tasks |-> [task[t] EXCEPT !.valid = FALSE]]
      /\ analysis' = [Outdated EXCEPT ![k].pc = "done"]
  BY DEF Reconcile
<1>2. row' \in RowType /\ row'.folds = row.folds
  BY <1>1 DEF TypeOK, RowType
<1>3. memory' \in MemoryType /\ memory'.folds = memory.folds
  BY <1>1 DEF TypeOK, MemoryType, Missed
<1>4. /\ task' \in [Tasks -> CallbackType]
      /\ \A t \in Tasks : task'[t].pc = task[t].pc /\ task'[t].turn = task[t].turn
  BY <1>1, ZenonT(30) DEF TypeOK, CallbackType
<1>5. TypeOK'
  BY <1>1, <1>2, <1>3, <1>4, OutdatedType DEF TypeOK
<1>6. UNCHANGED <<receipt, ledger, mutex, finish, confirmed, history>>
  BY <1>1
<1>7. Holds'
  BY <1>4, <1>6 DEF Holds, Owns
<1>8. Ahead' /\ AppliedIsFolded'
  BY <1>2, <1>3, <1>4, <1>6 DEF Ahead, AppliedIsFolded
<1>9. QED
  BY <1>5, <1>7, <1>8

LEMMA CrashStep ==
  ASSUME IInv, Crash
  PROVE  IInv'
<1> USE DEF IInv
<1>1. /\ receipt' = [k \in Turns |-> [receipt[k] EXCEPT !.owner = NoTask]]
      /\ memory' = Loaded(row) /\ task' = [t \in Tasks |-> NoCallback]
      /\ ledger' = {row.key} \ {NoTurn} /\ mutex' = NoTask /\ finish' = "open"
      /\ history' = [history EXCEPT !.crashes = @ + 1]
      /\ UNCHANGED <<row, analysis, confirmed>>
  BY DEF Crash
<1>2. /\ receipt' \in [Turns -> ReceiptType]
      /\ \A k \in Turns : receipt'[k].owner = NoTask /\ receipt'[k].state = receipt[k].state
  BY <1>1, ZenonT(30) DEF TypeOK, ReceiptType
<1>3. /\ memory' \in MemoryType /\ memory'.folds = row.folds
      /\ task' \in [Tasks -> CallbackType] /\ \A t \in Tasks : task'[t].pc = "idle"
  BY <1>1, NewRecords DEF TypeOK, NoCallback
<1>4. ledger' \subseteq Turns
  BY <1>1 DEF TypeOK, RowType
<1>5. history' \in [crashes : Nat, failures : Nat, late : BOOLEAN, raced : BOOLEAN]
  BY <1>1 DEF TypeOK
<1>6. TypeOK'
  BY <1>1, <1>2, <1>3, <1>4, <1>5 DEF TypeOK
<1>7. Holds'
  BY <1>2, <1>3 DEF Holds, Folding
<1>8. Ahead'
  BY <1>1, <1>3 DEF Ahead, TypeOK, RowType, Folds
<1>9. AppliedIsFolded'
  BY <1>1, <1>2 DEF AppliedIsFolded
<1>10. QED
  BY <1>6, <1>7, <1>8, <1>9

\* A stutter changes nothing the invariant reads.
LEMMA StutterStep ==
  ASSUME IInv, UNCHANGED vars
  PROVE  IInv'
<1> USE DEF IInv, vars
<1>1. TypeOK'
  BY DEF TypeOK
<1>2. Holds'
  BY DEF Holds, Owns
<1>3. Ahead' /\ AppliedIsFolded'
  BY DEF Ahead, AppliedIsFolded
<1>4. QED
  BY <1>1, <1>2, <1>3

LEMMA IInvStep == IInv /\ [Next]_vars => IInv'
<1> SUFFICES ASSUME IInv, [Next]_vars PROVE IInv'
  OBVIOUS
<1>1. ASSUME NEW t \in Tasks, (\E k \in Turns : Arrive(t, k)) \/ Callback(t) \/ Disturb(t)
      PROVE  IInv'
  BY <1>1, DoorStep, ReceiptStep, PersistFailsStep, ProbeStep, SaveLoadStep, SaveFoldStep,
     SaveCountersStep, SaveFailsStep, SettleStep DEF Callback, Disturb
<1>2. ASSUME NEW k \in Turns, Reanalyse(k) \/ Lapse(k) PROVE IInv'
  BY <1>2, QuietStep, ReconcileStep DEF Reanalyse
<1>3. CASE Close \/ Submit \/ Reopen
  BY <1>3, QuietStep
<1>4. QED
  BY <1>1, <1>2, <1>3, CrashStep, StutterStep DEF Next
-----------------------------------------------------------------------------
(* Theorems *)

LEMMA InvariantHolds == Spec => []IInv
<1>1. Init => IInv
  BY InitIInv
<1>2. IInv /\ [Next]_vars => IInv'
  BY IInvStep
<1>3. QED
  BY <1>1, <1>2, PTL DEF Spec

\* Receipts, rows, callbacks and re-analyses keep their types in every execution of
\* the agent's process, and a re-analysis is tried SaveAttempts times at most.
THEOREM TypesInvariant == Spec => []TypeOK
<1>1. IInv => TypeOK
  BY DEF IInv
<1>2. QED
  BY <1>1, InvariantHolds, PTL

\* However many callbacks run, resend and take over lapsed leases, two of them never
\* fold one answer at the same time: a folder's token is in the receipt.
THEOREM OneFolderInvariant == Spec => []OneFolder
<1>1. IInv => OneFolder
  BY DEF IInv, Holds, Owns, OneFolder
<1>2. QED
  BY <1>1, InvariantHolds, PTL

\* An answer whose receipt says applied is in the stored interview state, whatever
\* crashed, raised or was overwritten by a later save.
THEOREM AppliedIsFoldedInvariant == Spec => []AppliedIsFolded
<1>1. IInv => AppliedIsFolded
  BY DEF IInv
<1>2. QED
  BY <1>1, InvariantHolds, PTL
-----------------------------------------------------------------------------
(* The transcript *)

\* A receipt that exists stays, and only a callback about to persist creates one.
LEMMA ReceiptsKept ==
  ASSUME IInv, [Next]_vars, NEW k \in Turns
  PROVE  /\ receipt[k].state # "none" => receipt'[k].state # "none"
         /\ receipt[k].state = "none" /\ receipt'[k].state # "none" =>
              \E t \in Tasks : task[t].pc = "persist" /\ task[t].turn = k
<1> USE DEF IInv
<1>1. ASSUME NEW t \in Tasks, Persist(t) \/ PersistFails(t) \/ Claim(t) \/ Reclaim(t)
      PROVE  /\ receipt' = receipt \/ \E u \in Tasks \cup {NoTask} :
                                        receipt' = [receipt EXCEPT ![task[t].turn] = Taken(u)]
             /\ receipt' = receipt \/ task[t].pc = "persist" \/ receipt[task[t].turn].state # "none"
  BY <1>1 DEF Persist, PersistFails, Claim, Reclaim
<1>2. ASSUME NEW t \in Tasks, SettleApplied(t) \/ SettleFailed(t) \/ SettleRaises(t)
      PROVE  /\ receipt[k].state # "none" => receipt'[k].state # "none"
             /\ receipt[k].state = "none" => receipt'[k].state = "none"
  BY <1>2 DEF SettleApplied, SettleFailed, SettleRaises, Disowned, Owns, NoReceipt, TypeOK,
              ReceiptType
<1>3. ASSUME NEW j \in Turns, Lapse(j)
      PROVE  receipt'[k].state = receipt[k].state
  BY <1>3 DEF Lapse, TypeOK, ReceiptType
<1>4. CASE Crash
  BY <1>4 DEF Crash, TypeOK, ReceiptType
<1>5. ASSUME NEW t \in Tasks,
             \/ \E j \in Turns : Arrive(t, j)
             \/ Acquire(t) \/ Lookup(t) \/ Probe(t) \/ SaveLoad(t) \/ SaveFold(t)
             \/ SaveCounters(t) \/ SaveFails(t)
      PROVE  receipt' = receipt
  BY <1>5 DEF Arrive, Acquire, Lookup, Probe, SaveLoad, SaveFold, SaveCounters, SaveFails
<1>6. ASSUME \/ \E j \in Turns : Reanalyse(j)
             \/ Close \/ Submit \/ Reopen \/ UNCHANGED vars
      PROVE  receipt' = receipt
  BY <1>6 DEF Reanalyse, Analyse, Reconcile, ReconcileAgain, Close, Submit, Reopen, vars
<1>7. \A u \in Tasks \cup {NoTask} : Taken(u).state = "received"
  BY DEF Taken
<1>8. ASSUME NEW t \in Tasks, Persist(t) \/ PersistFails(t) \/ Claim(t) \/ Reclaim(t)
      PROVE  /\ receipt[k].state # "none" => receipt'[k].state # "none"
             /\ receipt[k].state = "none" /\ receipt'[k].state # "none" =>
                  task[t].pc = "persist" /\ task[t].turn = k
  BY <1>1, <1>7, <1>8 DEF TypeOK
<1>9. QED
  BY <1>2, <1>3, <1>4, <1>5, <1>6, <1>8 DEF Next, Callback, Disturb

\* A callback enters the persist only by the door, where an open session counts it,
\* or with a receipt declared failed.
LEMMA DoorOnly ==
  ASSUME IInv, Drained, [Next]_vars, NEW t \in Tasks, task'[t].pc \in {"wait", "persist"}
  PROVE  /\ task'[t].counted
         /\ \/ task[t].pc \in {"wait", "persist"} /\ task'[t].turn = task[t].turn
            \/ finish # "submitted"
            \/ task'[t].turn = task[t].turn /\ receipt[task[t].turn].state = "failed"
               /\ task[t].turn \in Turns
<1> DEFINE Goal == /\ task'[t].counted
                   /\ \/ task[t].pc \in {"wait", "persist"} /\ task'[t].turn = task[t].turn
                      \/ finish # "submitted"
                      \/ task'[t].turn = task[t].turn /\ receipt[task[t].turn].state = "failed"
                         /\ task[t].turn \in Turns
<1> USE DEF IInv
<1>1. CASE task'[t] = task[t]
  BY <1>1 DEF Drained
<1>2. ASSUME NEW u \in Tasks, NEW j \in Turns, Arrive(u, j) PROVE Goal
  <2>1. CASE u = t
    <3> DEFINE seen == j \in ledger
    <3> DEFINE free == mutex = NoTask /\ \A v \in Tasks : task[v].pc # "wait"
    <3> DEFINE pc == CASE seen -> "lookup" [] ~seen /\ free -> "persist" [] OTHER -> "wait"
    <3> DEFINE counted == ~seen
    <3>1. pc \in {"wait", "persist"} => counted
      OBVIOUS
    <3>2. task' = [task EXCEPT ![t] = [NoCallback EXCEPT !.turn = j, !.counted = counted,
                                                         !.pc = pc]]
      BY <1>2, <2>1 DEF Arrive
    <3> HIDE DEF pc, counted
    <3>3. task'[t].pc = pc /\ task'[t].counted = counted
      BY <3>2 DEF TypeOK, NoCallback
    <3>4. finish # "submitted"
      BY <1>2 DEF Arrive
    <3>5. QED
      BY <3>1, <3>3, <3>4
  <2>2. CASE u # t
    BY <1>1, <1>2, <2>2 DEF Arrive, TypeOK
  <2>3. QED
    BY <2>1, <2>2
<1>3. ASSUME NEW u \in Tasks, Acquire(u) PROVE Goal
  <2>1. CASE u = t
    BY <1>3, <2>1 DEF Acquire, TypeOK, CallbackType, Drained
  <2>2. CASE u # t
    BY <1>1, <1>3, <2>2 DEF Acquire, TypeOK
  <2>3. QED
    BY <2>1, <2>2
<1>4. ASSUME NEW u \in Tasks, Lookup(u) PROVE Goal
  <2>1. CASE u = t
    BY <1>4, <2>1 DEF Lookup, Return, NoCallback, TypeOK, CallbackType, Holds
  <2>2. CASE u # t
    BY <1>1, <1>4, <2>2 DEF Lookup, Return, TypeOK
  <2>3. QED
    BY <2>1, <2>2
<1>5. ASSUME NEW u \in Tasks,
             \/ Persist(u) \/ Claim(u) \/ Reclaim(u) \/ Probe(u) \/ SaveFold(u) \/ SaveCounters(u)
             \/ SettleApplied(u) \/ SettleFailed(u) \/ Disturb(u)
      PROVE  Goal
  <2>1. \/ Return(u) \/ Goto(u, "claim") \/ Goto(u, "reclaim")
        \/ \E pc \in Folding : Goto(u, pc)
    BY <1>5 DEF Persist, Claim, Reclaim, Probe, SaveFold, SaveCounters, SettleApplied,
                SettleFailed, Disturb, PersistFails, SaveFails, SettleRaises, Resume, Raised, Folding
  <2>2. task'[u].pc \notin {"wait", "persist"}
    BY <2>1, GotoTask, ReturnTask DEF Folding
  <2>3. \A v \in Tasks : v # u => task'[v] = task[v]
    BY <2>1, GotoTask, ReturnTask DEF Folding
  <2>4. QED
    BY <1>1, <2>2, <2>3
<1>6. ASSUME NEW u \in Tasks, SaveLoad(u) PROVE Goal
  <2>1. task'[u].pc \notin {"wait", "persist"}
    BY <1>6 DEF SaveLoad, Goto, Raised, TypeOK, CallbackType
  <2>2. \A v \in Tasks : v # u => task'[v] = task[v]
    BY <1>6 DEF SaveLoad, Goto, TypeOK
  <2>3. QED
    BY <1>1, <2>1, <2>2
<1>7. ASSUME NEW j \in Turns, Reconcile(j) PROVE Goal
  BY <1>7 DEF Reconcile, TypeOK, CallbackType, Drained
<1>8. CASE Crash
  BY <1>8 DEF Crash, NoCallback
<1>9. ASSUME \/ \E j \in Turns : Analyse(j) \/ ReconcileAgain(j) \/ Lapse(j)
             \/ Close \/ Submit \/ Reopen \/ UNCHANGED vars
      PROVE  Goal
  BY <1>1, <1>9 DEF Analyse, ReconcileAgain, Lapse, Close, Submit, Reopen, vars
<1>10. QED
  BY <1>2, <1>3, <1>4, <1>5, <1>6, <1>7, <1>8, <1>9 DEF Next, Callback, Reanalyse, Disturb

\* Only the submit ends the session, and only it decides whether it was late.
LEMMA SubmitOnly ==
  ASSUME IInv, [Next]_vars, finish' = "submitted", ~history'.late
  PROVE  \/ finish = "submitted" /\ ~history.late
         \/ Counted = {} /\ task' = task
<1> USE DEF IInv
<1>1. CASE Submit
  <2> DEFINE timedOut == Counted # {}
  <2>1. history' = [history EXCEPT !.late = timedOut] /\ task' = task
    BY <1>1 DEF Submit
  <2>2. history'.late = timedOut
    <3> HIDE DEF timedOut
    <3> QED
      BY <2>1 DEF TypeOK
  <2>3. QED
    BY <2>1, <2>2
<1>2. CASE ~Submit
  <2>1. ASSUME NEW t \in Tasks, (\E k \in Turns : Arrive(t, k)) \/ Callback(t) \/ Disturb(t)
        PROVE  finish' = finish /\ history'.late = history.late
    <3>1. CASE \/ \E k \in Turns : Arrive(t, k)
               \/ Acquire(t) \/ Lookup(t) \/ Persist(t) \/ Claim(t) \/ Reclaim(t) \/ Probe(t)
               \/ SaveLoad(t) \/ SaveFold(t) \/ SettleApplied(t) \/ SettleFailed(t)
      BY <3>1 DEF Arrive, Acquire, Lookup, Persist, Claim, Reclaim, Probe, SaveLoad, SaveFold,
                  SettleApplied, SettleFailed
    <3>2. CASE SaveCounters(t)
      BY <3>2 DEF SaveCounters, TypeOK
    <3>3. CASE Disturb(t)
      BY <3>3, FailureCounted DEF Disturb, PersistFails, SaveFails, SettleRaises
    <3>4. QED
      BY <2>1, <3>1, <3>2, <3>3 DEF Callback
  <2>2. ASSUME NEW k \in Turns, Reanalyse(k) \/ Lapse(k)
        PROVE  finish' = finish /\ history'.late = history.late
    BY <2>2 DEF Reanalyse, Analyse, Reconcile, ReconcileAgain, Lapse
  <2>3. CASE Close \/ Reopen \/ Crash
    BY <2>3 DEF Close, Reopen, Crash
  <2>4. CASE UNCHANGED vars
    BY <2>4 DEF vars
  <2>5. QED
    BY <1>2, <2>1, <2>2, <2>3, <2>4 DEF Next
<1>3. QED
  BY <1>1, <1>2

LEMMA DrainedStep == IInv /\ Drained /\ [Next]_vars => Drained'
<1> SUFFICES ASSUME IInv, Drained, [Next]_vars PROVE Drained'
  OBVIOUS
<1>1. \A t \in Tasks : task'[t].pc \in {"wait", "persist"} => task'[t].counted
  BY DoorOnly
<1>2. ASSUME finish' = "submitted", ~history'.late, NEW t \in Tasks,
             task'[t].pc \in {"wait", "persist"}
      PROVE  receipt'[task'[t].turn].state # "none"
  <2>1. CASE finish = "submitted" /\ ~history.late
    <3>1. task'[t].turn \in Turns /\ receipt[task'[t].turn].state # "none"
      BY <1>2, <2>1, DoorOnly DEF Drained, IInv, Holds
    <3>2. QED
      BY <3>1, ReceiptsKept
  <2>2. CASE Counted = {} /\ task' = task
    BY <1>2, <2>2, <1>1 DEF Counted
  <2>3. QED
    BY <1>2, <2>1, <2>2, SubmitOnly
<1>3. QED
  BY <1>1, <1>2 DEF Drained

\* Once the agent has submitted the session with no callback in flight, no answer of
\* any callback is added to the transcript, whatever is retried afterwards.
THEOREM TranscriptClosedAlways == Spec => TranscriptClosed
<1>1. Init => Drained
  BY DEF Init, Drained, NoCallback
<1>2. IInv /\ Drained /\ [Next]_vars => Drained'
  BY DrainedStep
<1>3. IInv /\ Drained /\ [Next]_vars =>
        [finish = "submitted" /\ ~history.late
           => \A k \in Turns : receipt[k].state = "none" => receipt'[k].state = "none"]_vars
  BY ReceiptsKept DEF Drained
<1>4. QED
  BY <1>1, <1>2, <1>3, InvariantHolds, PTL DEF Spec, TranscriptClosed
-----------------------------------------------------------------------------
(* What is counted once and what a re-analysis keeps *)

Saving == {"update", "counted"}
Running == {"persist", "claim", "reclaim"} \cup Folding

\* The holder of a receipt is the callback that folds it.
Owned ==
    \A k \in Turns : receipt[k].owner # NoTask =>
      task[receipt[k].owner].pc \in Folding /\ task[receipt[k].owner].turn = k

\* Saves exclude each other, and a torn state is not being saved.
OneSaver ==
    /\ \A t, u \in Tasks : task[t].pc \in Saving /\ task[u].pc \in Saving => t = u
    /\ memory.torn => \A t \in Tasks : task[t].pc \notin Saving

\* Without a failed call the writer knows what its version stands for: where it is the
\* row's, the state has every re-analysis the row has.
Synced ==
    /\ memory.held # "ahead"
    /\ memory.held = "none" => memory.torn \/ history.raced
    /\ memory.held = "current" => row.analysed \subseteq memory.analysed
    /\ \A t \in Tasks : /\ task[t].pc \in Saving /\ task[t].valid /\ ~history.raced
                             => memory.held = "current"
                        /\ task[t].pc = "fail" => memory.torn

\* A folded answer of a state that can still be saved has a receipt no callback can
\* take: it is settled, held, or an earlier process left it with its key in the ledger.
Once ==
    /\ \A k \in Turns : memory.folds[k] <= 1
    /\ ~memory.torn =>
         \A k \in Turns : memory.folds[k] >= 1 =>
           /\ receipt[k].state \in {"received", "applied"}
           /\ \A t \in Tasks : task[t].turn = k => task[t].pc # "probe"
           /\ receipt[k].state = "received" /\ receipt[k].owner = NoTask =>
                /\ k \in ledger
                /\ \A t \in Tasks : task[t].turn = k => task[t].pc \notin Running \cup {"wait"}

\* Until a crash, the pipeline's mutex keeps folds apart while the state can be saved;
\* so the stored fold of an answer that is not applied is the one saved last.
Uncrashed ==
    /\ \A k \in Turns : receipt[k].state = "received" => receipt[k].owner # NoTask
    /\ ~memory.torn => /\ \A t \in Tasks : task[t].pc \in Running => mutex = t
                       /\ \A k \in Turns : receipt[k].state # "failed"
    /\ \A k \in Turns : row.folds[k] >= 1 =>
         \/ receipt[k].state = "applied"
         \/ receipt[k].state = "received" /\ row.key = k
    /\ \A t \in Tasks :
         /\ task[t].pc \in {"count", "counted", "settle"} => row.key = task[t].turn
         /\ task[t].pc \in {"probe", "load", "update", "fail"} => row.folds[task[t].turn] = 0

Settled ==
    /\ Owned
    /\ OneSaver
    /\ history.failures = 0 => Synced
    /\ history.failures = 0 /\ history.crashes <= 1 => Once
    /\ history.failures = 0 /\ history.crashes = 0 => Uncrashed

LEMMA FoldsCounted ==
  ASSUME TypeOK
  PROVE  /\ \A k \in Turns : row.folds[k] \in Nat /\ memory.folds[k] \in Nat
         /\ history.crashes \in Nat /\ history.failures \in Nat
  BY Constants DEF TypeOK, RowType, MemoryType, Folds

LEMMA FoldedOnce ==
  ASSUME TypeOK, Ahead, Once
  PROVE  \A k \in Turns : row.folds[k] <= 1
<1> TAKE k \in Turns
<1>1. row.folds[k] <= memory.folds[k] /\ memory.folds[k] <= 1
  BY DEF Ahead, Once
<1>2. row.folds[k] \in Nat /\ memory.folds[k] \in Nat
  BY FoldsCounted
<1>3. QED
  BY <1>1, <1>2

LEMMA GotoOnly ==
  ASSUME TypeOK, NEW t \in Tasks, NEW pc, Goto(t, pc)
  PROVE  /\ task'[t].pc = pc /\ task'[t].turn = task[t].turn /\ task'[t].valid = task[t].valid
         /\ \A u \in Tasks : u # t => task'[u] = task[u]
         /\ mutex' = mutex
  BY DEF TypeOK, CallbackType, Goto

LEMMA ReturnOnly ==
  ASSUME TypeOK, NEW t \in Tasks, Return(t)
  PROVE  /\ task'[t].pc = "idle" /\ task'[t].turn = NoTurn
         /\ \A u \in Tasks : u # t => task'[u] = task[u]
         /\ mutex' = IF mutex = t THEN NoTask ELSE mutex
  BY DEF TypeOK, Return, NoCallback

\* A callback that is not a folder, and does not become one, disturbs nothing if it
\* runs only with the mutex or with the receipt of an answer declared failed.
LEMMA DoorSettled ==
  ASSUME IInv, Settled, NEW t \in Tasks,
         task[t].pc \notin Folding, task'[t].pc \notin Folding,
         \A u \in Tasks : u # t => task'[u] = task[u] /\ (mutex = u => mutex' = u),
         task'[t].pc \in Running \cup {"wait"} =>
           \/ task[t].pc \in Running \cup {"wait"} /\ task'[t].turn = task[t].turn
           \/ task'[t].turn \notin ledger
           \/ receipt[task'[t].turn].state = "failed",
         task'[t].pc \in Running =>
           \/ mutex' = t
           \/ \E k \in Turns : receipt[k].state = "failed"
           \/ mutex' = mutex /\ task[t].pc \in Running,
         \A k \in Turns : k \in ledger => k \in ledger' \/ receipt[k].state = "failed",
         UNCHANGED <<receipt, row, memory, history>>
  PROVE  Settled'
<1> USE DEF Settled, IInv
<1>1. Owned'
  BY DEF Owned, TypeOK, ReceiptType
<1>2. OneSaver'
  BY DEF OneSaver, Folding, Saving
<1>3. Synced => Synced'
  BY DEF Synced, Folding, Saving
<1>4. Once => Once'
  BY DEF Once, Folding, Running
<1>5. Uncrashed => Uncrashed'
  BY Constants DEF Uncrashed, Folding, Running
<1>6. QED
  BY <1>1, <1>2, <1>3, <1>4, <1>5

LEMMA TakeSettled ==
  ASSUME IInv, Settled, NEW t \in Tasks, task[t].pc \in {"persist", "claim", "reclaim"},
         \/ receipt[task[t].turn].state \in {"none", "failed"}
         \/ receipt[task[t].turn].state = "received" /\ ~receipt[task[t].turn].live,
         receipt' = [receipt EXCEPT ![task[t].turn] = Taken(t)], Goto(t, "probe"),
         UNCHANGED <<row, ledger, memory, history>>
  PROVE  Settled'
<1> USE DEF Settled, IInv
<1> DEFINE k == task[t].turn
<1>1. k \in Turns
  BY DEF Holds
<1>2. /\ task'[t].pc = "probe" /\ task'[t].turn = k /\ mutex' = mutex
      /\ \A u \in Tasks : u # t => task'[u] = task[u]
  BY GotoOnly
<1>3. /\ receipt'[k].state = "received" /\ receipt'[k].owner = t
      /\ \A j \in Turns : j # k => receipt'[j] = receipt[j]
  BY <1>1 DEF TypeOK, Taken
<1>4. receipt[k].owner = NoTask
  BY <1>1 DEF Holds
<1>5. Owned'
  BY <1>1, <1>2, <1>3 DEF Owned, TypeOK, ReceiptType, Folding
<1>6. OneSaver'
  BY <1>2 DEF OneSaver, Saving
<1>7. Synced => Synced'
  BY <1>2 DEF Synced, Saving
<1>8. Once => Once'
  <2>1. Once /\ ~memory.torn => ~(memory.folds[k] >= 1)
    BY <1>1, <1>4 DEF Once, Running
  <2>2. QED
    BY <1>1, <1>2, <1>3, <1>4, <2>1, Constants DEF Once, Running, Folding
<1>9. Uncrashed => Uncrashed'
  <2>1. Uncrashed => row.folds[k] = 0
    BY <1>1, <1>4, FoldsCounted DEF Uncrashed
  <2>2. Uncrashed /\ ~memory.torn => mutex = t
    BY DEF Uncrashed, Running
  <2>3. QED
    BY <1>1, <1>2, <1>3, <2>1, <2>2, Constants DEF Uncrashed, Running, Folding
<1>10. QED
  BY <1>5, <1>6, <1>7, <1>8, <1>9

LEMMA ArriveSettled ==
  ASSUME IInv, Settled, NEW t \in Tasks, NEW k \in Turns, Arrive(t, k)
  PROVE  Settled'
<1> USE DEF IInv
<1> DEFINE seen == k \in ledger
<1> DEFINE free == mutex = NoTask /\ \A u \in Tasks : task[u].pc # "wait"
<1> DEFINE pc == CASE seen -> "lookup" [] ~seen /\ free -> "persist" [] OTHER -> "wait"
<1> DEFINE counted == ~seen
<1>1. /\ pc \in {"lookup", "persist", "wait"}
      /\ pc = "persist" => ~seen /\ free
      /\ pc = "wait" => ~seen
  OBVIOUS
<1>2. /\ task' = [task EXCEPT ![t] = [NoCallback EXCEPT !.turn = k, !.counted = counted,
                                                           !.pc = pc]]
      /\ mutex' = IF ~seen /\ free THEN t ELSE mutex
      /\ ledger' = ledger \cup {k}
      /\ task[t].pc = "idle"
      /\ UNCHANGED <<receipt, row, memory, history>>
  BY DEF Arrive
<1> HIDE DEF pc, counted
<1>3. /\ task'[t].pc = pc /\ task'[t].turn = k
      /\ \A u \in Tasks : u # t => task'[u] = task[u]
  BY <1>2 DEF TypeOK, NoCallback
<1>4. \A u \in Tasks : mutex = u => mutex' = u
  BY <1>2, Constants
<1>5. QED
  BY <1>1, <1>2, <1>3, <1>4, DoorSettled DEF Folding, Running

LEMMA AcquireSettled ==
  ASSUME IInv, Settled, NEW t \in Tasks, Acquire(t)
  PROVE  Settled'
<1> USE DEF IInv
<1>1. /\ task[t].pc = "wait" /\ mutex = NoTask /\ mutex' = t
      /\ UNCHANGED <<receipt, row, ledger, memory, history>>
  BY DEF Acquire
<1>2. /\ task'[t].pc = "persist" /\ task'[t].turn = task[t].turn
      /\ \A u \in Tasks : u # t => task'[u] = task[u]
  BY DEF TypeOK, CallbackType, Acquire
<1>3. QED
  BY <1>1, <1>2, Constants, DoorSettled DEF Folding, Running

\* A callback that returns, or goes on to claim or reclaim, settles nothing.
LEMMA NoWriteSettled ==
  ASSUME IInv, Settled, NEW t \in Tasks, task[t].pc \in {"lookup", "persist", "claim", "reclaim"},
         \/ Return(t)
         \/ task[t].pc # "lookup" /\ (Goto(t, "claim") \/ Goto(t, "reclaim")),
         UNCHANGED <<receipt, row, ledger, memory, history>>
  PROVE  Settled'
<1>1. CASE Return(t)
  BY <1>1, Constants, ReturnOnly, DoorSettled DEF IInv, Folding, Running
<1>2. CASE task[t].pc # "lookup" /\ (Goto(t, "claim") \/ Goto(t, "reclaim"))
  BY <1>2, GotoOnly, DoorSettled DEF IInv, Folding, Running
<1>3. QED
  BY <1>1, <1>2

LEMMA LookupSettled ==
  ASSUME IInv, Settled, NEW t \in Tasks, Lookup(t)
  PROVE  Settled'
<1> USE DEF IInv
<1>1. task[t].pc = "lookup" /\ UNCHANGED <<receipt, row, memory, history>>
  BY DEF Lookup
<1>2. CASE receipt[task[t].turn].state = "failed"
  <2>1. /\ task'[t].pc = "persist" /\ task'[t].turn = task[t].turn /\ task[t].turn \in Turns
        /\ \A u \in Tasks : u # t => task'[u] = task[u]
        /\ mutex' = mutex /\ ledger' = ledger \ {task[t].turn}
    BY <1>2 DEF Lookup, TypeOK, CallbackType, Holds
  <2>2. QED
    BY <1>1, <1>2, <2>1, DoorSettled DEF Folding, Running
<1>3. CASE receipt[task[t].turn].state # "failed"
  BY <1>1, <1>3, NoWriteSettled DEF Lookup
<1>4. QED
  BY <1>2, <1>3

LEMMA ReceiptSettled ==
  ASSUME IInv, Settled, NEW t \in Tasks, Persist(t) \/ Claim(t) \/ Reclaim(t)
  PROVE  Settled'
<1>1. CASE Persist(t)
  BY <1>1, TakeSettled, NoWriteSettled DEF Persist, Resume
<1>2. CASE Claim(t)
  BY <1>2, TakeSettled, NoWriteSettled DEF Claim
<1>3. CASE Reclaim(t)
  BY <1>3, TakeSettled, NoWriteSettled DEF Reclaim
<1>4. QED
  BY <1>1, <1>2, <1>3

LEMMA ProbeSettled ==
  ASSUME IInv, Settled, NEW t \in Tasks, Probe(t)
  PROVE  Settled'
<1> USE DEF Settled, IInv
<1> DEFINE k == task[t].turn
<1>1. /\ k \in Turns /\ task[t].pc = "probe" /\ UNCHANGED <<receipt, row, ledger, history>>
      /\ receipt[k].state = "received" /\ receipt[k].owner = t
  BY DEF Probe, Holds, Owns, Folding
<1>2. \A u \in Tasks : task[u].turn = k /\ task[u].pc \in Folding => u = t
  BY <1>1 DEF Holds, Owns
<1>3. CASE memory.torn
  <2>1. /\ memory' = memory /\ task'[t].pc = "fail" /\ task'[t].turn = k /\ mutex' = mutex
        /\ \A u \in Tasks : u # t => task'[u] = task[u]
    BY <1>3, GotoOnly DEF Probe
  <2>2. Owned' /\ OneSaver'
    BY <1>1, <2>1 DEF Owned, OneSaver, Saving, Folding, TypeOK, ReceiptType
  <2>3. Synced => Synced'
    BY <1>1, <1>3, <2>1 DEF Synced, Saving
  <2>4. (Once => Once') /\ (Uncrashed => Uncrashed')
    BY <1>1, <1>3, <2>1 DEF Once, Uncrashed
  <2>5. QED
    BY <1>1, <2>2, <2>3, <2>4
<1>4. CASE ~memory.torn
  <2>1. /\ memory' = [memory EXCEPT !.folds[k] = IF @ < MaxFolds THEN @ + 1 ELSE @]
        /\ task'[t].pc = "load" /\ task'[t].turn = k /\ mutex' = mutex
        /\ \A u \in Tasks : u # t => task'[u] = task[u]
    BY <1>4, GotoOnly DEF Probe
  <2>2. /\ memory'.torn = memory.torn /\ memory'.held = memory.held
        /\ memory'.analysed = memory.analysed
        /\ \A j \in Turns : j # k => memory'.folds[j] = memory.folds[j]
        /\ memory.folds[k] = 0 => memory'.folds[k] = 1
    BY <1>1, <2>1, Constants DEF TypeOK, MemoryType, Folds
  <2>3. Owned' /\ OneSaver'
    <3>1. Owned'
      BY <1>1, <2>1, <2>2 DEF Owned, Folding, TypeOK, ReceiptType
    <3>2. OneSaver'
      BY <1>1, <2>1, <2>2 DEF OneSaver, Saving
    <3>3. QED
      BY <3>1, <3>2
  <2>4. Synced => Synced'
    BY <1>1, <1>4, <2>1, <2>2 DEF Synced, Saving
  <2>5. Once => Once'
    <3>1. Once => memory.folds[k] = 0
      BY <1>1, <1>4, FoldsCounted DEF Once
    <3>2. QED
      BY <1>1, <1>2, <1>4, <2>1, <2>2, <3>1, Constants DEF Once, Running, Folding
  <2>6. Uncrashed => Uncrashed'
    BY <1>1, <1>4, <2>1, <2>2 DEF Uncrashed, Running, Folding
  <2>7. QED
    BY <1>1, <2>3, <2>4, <2>5, <2>6
<1>5. QED
  BY <1>3, <1>4

\* A folder that goes on without a save, as its state becomes torn or forgets the version.
LEMMA TornSettled ==
  ASSUME IInv, Settled, NEW t \in Tasks, task[t].pc \in {"load", "update", "count", "counted"},
         \/ task[t].pc \in {"load", "update"} /\ Goto(t, "fail") /\ memory'.torn
         \/ task[t].pc \in {"count", "counted"} /\ Goto(t, "settle"),
         memory'.folds = memory.folds, memory'.analysed = memory.analysed,
         memory.torn => memory'.torn,
         memory'.torn => \A u \in Tasks : u # t => task[u].pc \notin Saving,
         \/ memory'.held = memory.held
         \/ /\ memory'.held = "none" /\ (memory'.torn \/ history'.raced)
            /\ \A u \in Tasks : u # t => task[u].pc \notin Saving,
         history'.failures = history.failures, history'.crashes = history.crashes,
         history.raced => history'.raced,
         UNCHANGED <<receipt, row, ledger>>
  PROVE  Settled'
<1> USE DEF Settled, IInv
<1>1. /\ task'[t].pc \in {"fail", "settle"} /\ task'[t].turn = task[t].turn /\ mutex' = mutex
      /\ task'[t].pc = "fail" => task[t].pc \in {"load", "update"} /\ memory'.torn
      /\ task'[t].pc = "settle" => task[t].pc \in {"count", "counted"}
      /\ \A u \in Tasks : u # t => task'[u] = task[u]
  BY GotoOnly
<1>2. Owned'
  BY <1>1 DEF Owned, Folding, TypeOK, ReceiptType
<1>3. OneSaver'
  BY <1>1 DEF OneSaver, Saving
<1>4. Synced => Synced'
  BY <1>1 DEF Synced, Saving
<1>5. (Once => Once') /\ (Uncrashed => Uncrashed')
  BY <1>1 DEF Once, Uncrashed, Running, Folding
<1>6. QED
  BY <1>2, <1>3, <1>4, <1>5

LEMMA SaveLoadSettled ==
  ASSUME IInv, Settled, NEW t \in Tasks, SaveLoad(t)
  PROVE  Settled'
<1> USE DEF Settled, IInv
<1>1. /\ task[t].pc \in {"load", "count"} /\ history' = history
      /\ UNCHANGED <<receipt, row, ledger>>
      /\ \A u \in Tasks : task[u].pc \notin Saving
  BY DEF SaveLoad, Saving
<1>2. CASE memory' = [memory EXCEPT !.torn = TRUE] /\ Goto(t, Raised(t))
  <2>1. Raised(t) = IF task[t].pc = "load" THEN "fail" ELSE "settle"
    BY <1>1 DEF Raised
  <2>2. /\ memory'.torn /\ memory'.folds = memory.folds /\ memory'.held = memory.held
        /\ memory'.analysed = memory.analysed
    BY <1>2 DEF TypeOK, MemoryType
  <2>3. QED
    BY <1>1, <1>2, <2>1, <2>2, TornSettled
<1>3. CASE /\ ~memory.torn /\ memory.held \notin {"stale", "ahead"}
           /\ task' = [task EXCEPT ![t].valid = TRUE,
                                   ![t].pc = IF @ = "load" THEN "update" ELSE "counted"]
           /\ UNCHANGED <<memory, mutex>>
  <2>1. /\ task'[t].turn = task[t].turn
        /\ \A u \in Tasks : u # t => task'[u] = task[u]
        /\ \/ task[t].pc = "load" /\ task'[t].pc = "update"
           \/ task[t].pc = "count" /\ task'[t].pc = "counted"
    BY <1>1, <1>3 DEF TypeOK, CallbackType
  <2>2. ~memory.torn /\ memory.held \in {"current", "none"} /\ UNCHANGED <<memory, mutex>>
    BY <1>3 DEF TypeOK, MemoryType
  <2>3. Owned' /\ OneSaver'
    BY <1>1, <2>1, <2>2 DEF Owned, OneSaver, Saving, Folding, TypeOK, ReceiptType
  <2>4. Synced => Synced'
    BY <1>1, <2>1, <2>2 DEF Synced, Saving
  <2>5. Once => Once'
    BY <1>1, <2>1, <2>2 DEF Once, Running, Folding
  <2>6. Uncrashed => Uncrashed'
    BY <1>1, <2>1, <2>2 DEF Uncrashed, Running, Folding
  <2>7. QED
    BY <1>1, <2>3, <2>4, <2>5, <2>6
<1>4. QED
  BY <1>2, <1>3 DEF SaveLoad

\* A valid save stores what the process counts, under the key of the only folder.
LEMMA SavedSettled ==
  ASSUME IInv, Settled, NEW t \in Tasks, NEW key, row' = Written(key),
         \/ task[t].pc = "update" /\ key = task[t].turn /\ Goto(t, "count")
         \/ task[t].pc = "counted" /\ key = row.key /\ Goto(t, "settle"),
         memory' = [memory EXCEPT !.held = "current"],
         UNCHANGED <<receipt, ledger, history>>
  PROVE  Settled'
<1> USE DEF Settled, IInv
<1> DEFINE k == task[t].turn
<1>1. /\ task'[t].pc \in {"count", "settle"} /\ task'[t].turn = k /\ mutex' = mutex
      /\ \A u \in Tasks : u # t => task'[u] = task[u]
  BY GotoOnly
<1>2. /\ row'.folds = memory.folds /\ row'.analysed = memory.analysed /\ row'.key = key
      /\ memory'.folds = memory.folds /\ memory'.analysed = memory.analysed
      /\ memory'.held = "current" /\ memory'.torn = memory.torn
  BY DEF Written, TypeOK, MemoryType
<1>3. ~memory.torn /\ \A u \in Tasks : u # t => task[u].pc \notin Saving
  BY DEF OneSaver, Saving
<1>4. Owned' /\ OneSaver'
  BY <1>1, <1>2, <1>3 DEF Owned, OneSaver, Saving, Folding, TypeOK, ReceiptType
<1>5. Synced => Synced'
  BY <1>1, <1>2, <1>3 DEF Synced, Saving
<1>6. Once => Once'
  BY <1>1, <1>2 DEF Once, Running, Folding
<1>7. Once /\ Uncrashed => Uncrashed'
  <2> SUFFICES ASSUME Once, Uncrashed PROVE Uncrashed'
    OBVIOUS
  <2>1. key = k /\ mutex = t
    BY <1>3 DEF Uncrashed, Running, Folding
  <2>2. \A u \in Tasks : task[u].pc \in Folding => u = t
    BY <1>3, <2>1 DEF Uncrashed, Running
  <2>3. ASSUME NEW j \in Turns, row'.folds[j] >= 1
        PROVE  receipt[j].state = "applied" \/ (receipt[j].state = "received" /\ key = j)
    <3>1. receipt[j].state \in {"received", "applied"}
      BY <1>2, <1>3, <2>3 DEF Once
    <3>2. receipt[j].state = "received" => j = k
      BY <2>2 DEF Uncrashed, Owned, TypeOK, ReceiptType
    <3>3. QED
      BY <2>1, <3>1, <3>2
  <2>4. \A u \in Tasks : u # t => task'[u].pc \notin Folding
    BY <1>1, <2>2
  <2>5. QED
    BY <1>1, <1>2, <1>3, <2>1, <2>3, <2>4 DEF Uncrashed, Running, Folding
<1>8. QED
  BY <1>4, <1>5, <1>6, <1>7, FoldsCounted

LEMMA SaveSettled ==
  ASSUME IInv, Settled, NEW t \in Tasks, SaveFold(t) \/ SaveCounters(t)
  PROVE  Settled'
<1> USE DEF IInv
<1>1. \A u \in Tasks : task[t].pc \in Saving /\ u # t => task[u].pc \notin Saving
  BY DEF Settled, OneSaver
<1>2. CASE SaveFold(t)
  <2>1. /\ task[t].pc = "update" /\ UNCHANGED <<receipt, ledger, history>>
        /\ \/ /\ row' = Written(task[t].turn) /\ Goto(t, "count")
              /\ memory' = [memory EXCEPT !.held = "current"]
           \/ /\ memory' = [memory EXCEPT !.torn = TRUE, !.held = "none"]
              /\ Goto(t, "fail") /\ row' = row
    BY <1>2 DEF SaveFold
  <2>2. CASE memory' = [memory EXCEPT !.torn = TRUE, !.held = "none"]
             /\ Goto(t, "fail") /\ row' = row
    <3>1. /\ memory'.torn /\ memory'.held = "none"
          /\ memory'.folds = memory.folds /\ memory'.analysed = memory.analysed
      BY <2>2 DEF TypeOK, MemoryType
    <3>2. QED
      BY <1>1, <2>1, <2>2, <3>1, TornSettled DEF Saving
  <2>3. QED
    BY <2>1, <2>2, SavedSettled
<1>3. CASE SaveCounters(t)
  <2>1. /\ task[t].pc = "counted" /\ UNCHANGED <<receipt, ledger>> /\ Goto(t, "settle")
        /\ \/ /\ row' = Written(row.key) /\ memory' = [memory EXCEPT !.held = "current"]
              /\ history' = history
           \/ /\ memory' = [memory EXCEPT !.held = "none"] /\ row' = row
              /\ history' = [history EXCEPT !.raced = TRUE]
    BY <1>3 DEF SaveCounters
  <2>2. CASE /\ memory' = [memory EXCEPT !.held = "none"] /\ row' = row
             /\ history' = [history EXCEPT !.raced = TRUE]
    <3>1. /\ memory'.torn = memory.torn /\ memory'.held = "none"
          /\ memory'.folds = memory.folds /\ memory'.analysed = memory.analysed
          /\ history'.raced /\ history'.failures = history.failures
          /\ history'.crashes = history.crashes
      BY <2>2 DEF TypeOK, MemoryType
    <3>2. QED
      BY <1>1, <2>1, <2>2, <3>1, TornSettled DEF Saving
  <2>3. QED
    BY <2>1, <2>2, SavedSettled
<1>4. QED
  BY <1>2, <1>3

\* The end of a fold: its callback returns and nobody holds the receipt.
LEMMA SettledEnd ==
  ASSUME IInv, Settled, NEW t \in Tasks, task[t].pc \in {"settle", "fail"}, Return(t),
         NEW new, receipt' = [receipt EXCEPT ![task[t].turn] = new], new.owner = NoTask,
         \/ history'.failures # 0
         \/ /\ history' = history
            /\ \/ task[t].pc = "settle" /\ new.state = "applied"
               \/ task[t].pc = "fail" /\ new.state = "failed",
         UNCHANGED <<row, ledger, memory>>
  PROVE  Settled'
<1> USE DEF Settled, IInv
<1> DEFINE k == task[t].turn
<1>1. /\ task'[t].pc = "idle" /\ mutex' = IF mutex = t THEN NoTask ELSE mutex
      /\ \A u \in Tasks : u # t => task'[u] = task[u]
  BY ReturnOnly
<1>2. /\ k \in Turns /\ receipt[k].owner = t /\ receipt'[k] = new
      /\ \A j \in Turns : j # k => receipt'[j] = receipt[j]
  BY DEF Holds, Owns, Folding, TypeOK
<1>3. Owned' /\ OneSaver'
  <2>1. \A j \in Turns : j # k => receipt[j].owner # t
    BY Constants DEF Owned
  <2>2. Owned'
    BY <1>1, <1>2, <2>1 DEF Owned, TypeOK, ReceiptType
  <2>3. OneSaver'
    BY <1>1 DEF OneSaver, Saving
  <2>4. QED
    BY <2>2, <2>3
<1>4. CASE history'.failures # 0
  BY <1>3, <1>4
<1>5. CASE /\ history' = history
           /\ \/ task[t].pc = "settle" /\ new.state = "applied"
              \/ task[t].pc = "fail" /\ new.state = "failed"
  <2>1. Synced => Synced'
    BY <1>1, <1>5 DEF Synced, Saving
  <2>2. Synced /\ new.state = "failed" => memory.torn
    BY <1>5 DEF Synced
  <2>3. Synced /\ Once => Once'
    <3>1. CASE memory.torn
      BY <3>1 DEF Once
    <3>2. CASE new.state = "applied"
      BY <1>1, <1>2, <3>2 DEF Once, Running, Folding
    <3>3. QED
      BY <1>5, <2>2, <3>1, <3>2
  <2>4. Synced /\ Uncrashed => Uncrashed'
    <3>1. Uncrashed /\ new.state = "failed" => row.folds[k] = 0
      BY <1>5 DEF Uncrashed
    <3>2. \A u \in Tasks : mutex = u /\ u # t => mutex' = u
      BY <1>1, Constants
    <3>3. CASE memory.torn /\ new.state = "failed"
      BY <1>1, <1>2, <3>1, <3>2, <3>3 DEF Uncrashed, Running
    <3>4. CASE new.state = "applied"
      BY <1>1, <1>2, <3>2, <3>4 DEF Uncrashed, Running, Folding
    <3>5. QED
      BY <1>5, <2>2, <3>3, <3>4
  <2>5. QED
    BY <1>3, <1>5, <2>1, <2>3, <2>4
<1>6. QED
  BY <1>4, <1>5

LEMMA FailureShows ==
  ASSUME TypeOK, DatabaseFails
  PROVE  history'.failures # 0
<1>1. history.failures \in Nat /\ history'.failures = history.failures + 1
  BY DEF TypeOK, DatabaseFails
<1>2. QED
  BY <1>1

LEMMA SettleSettled ==
  ASSUME IInv, Settled, NEW t \in Tasks, SettleApplied(t) \/ SettleFailed(t) \/ SettleRaises(t)
  PROVE  Settled'
<1> USE DEF IInv
<1> DEFINE k == task[t].turn
<1>1. Owns(t) /\ k \in Turns /\ task[t].pc \in {"settle", "fail"}
  BY DEF Holds, Folding, SettleApplied, SettleFailed, SettleRaises
<1>2. CASE SettleApplied(t)
  <2> DEFINE new == [NoReceipt EXCEPT !.state = "applied"]
  <2>1. new.owner = NoTask /\ new.state = "applied"
    BY DEF NoReceipt
  <2>2. /\ receipt' = [receipt EXCEPT ![k] = new] /\ Return(t) /\ task[t].pc = "settle"
        /\ UNCHANGED <<row, ledger, memory, history>>
    BY <1>1, <1>2 DEF SettleApplied
  <2> HIDE DEF new
  <2>3. QED
    BY <2>1, <2>2, SettledEnd
<1>3. CASE SettleFailed(t)
  <2> DEFINE new == [NoReceipt EXCEPT !.state = "failed"]
  <2>1. new.owner = NoTask /\ new.state = "failed"
    BY DEF NoReceipt
  <2>2. /\ receipt' = [receipt EXCEPT ![k] = new] /\ Return(t) /\ task[t].pc = "fail"
        /\ UNCHANGED <<row, ledger, memory, history>>
    BY <1>1, <1>3 DEF SettleFailed
  <2> HIDE DEF new
  <2>3. QED
    BY <2>1, <2>2, SettledEnd
<1>4. CASE SettleRaises(t)
  <2> DEFINE new == [receipt[k] EXCEPT !.owner = NoTask]
  <2>1. new.owner = NoTask
    BY <1>1 DEF TypeOK, ReceiptType
  <2>2. receipt' = [receipt EXCEPT ![k] = new]
    BY <1>1, <1>4 DEF SettleRaises, Disowned, TypeOK, ReceiptType
  <2>3. Return(t) /\ history'.failures # 0 /\ UNCHANGED <<row, ledger, memory>>
    BY <1>4, FailureShows DEF SettleRaises
  <2> HIDE DEF new
  <2>4. QED
    BY <1>1, <2>1, <2>2, <2>3, SettledEnd
<1>5. QED
  BY <1>2, <1>3, <1>4

\* A failed call leaves the holders and the saver as they are.
LEMMA FailsSettled ==
  ASSUME IInv, Settled, NEW t \in Tasks, PersistFails(t) \/ SaveFails(t)
  PROVE  Settled'
<1> USE DEF Settled, IInv
<1> DEFINE k == task[t].turn
<1>1. k \in Turns /\ history'.failures # 0
  BY FailureShows DEF PersistFails, SaveFails, Holds
<1>2. CASE PersistFails(t)
  <2>1. /\ \A u \in Tasks : u # t => task'[u] = task[u]
        /\ task'[t].pc \in {"idle", "claim"}
        /\ task[t].pc = "persist" /\ memory' = memory
    BY <1>2, GotoOnly, ReturnOnly DEF PersistFails
  <2>2. /\ \A j \in Turns : j # k => receipt'[j] = receipt[j]
        /\ receipt'[k] = receipt[k] \/ receipt'[k].owner = NoTask
    BY <1>1, <1>2 DEF PersistFails, TypeOK, Taken
  <2>3. QED
    BY <1>1, <2>1, <2>2 DEF Owned, OneSaver, Saving, Folding, TypeOK, ReceiptType
<1>3. CASE SaveFails(t)
  <2>1. /\ \A u \in Tasks : u # t => task'[u] = task[u]
        /\ task'[t].pc \in {"fail", "settle"} /\ task'[t].turn = k
        /\ receipt' = receipt
    BY <1>3, GotoOnly DEF SaveFails, Raised
  <2>2. memory'.torn = memory.torn
    BY <1>3 DEF SaveFails, TypeOK, MemoryType
  <2>3. QED
    BY <1>1, <2>1, <2>2 DEF Owned, OneSaver, Saving, Folding, TypeOK, ReceiptType
<1>4. QED
  BY <1>2, <1>3

LEMMA QuietSettled ==
  ASSUME IInv, Settled,
         \/ \E k \in Turns : Lapse(k) \/ Analyse(k) \/ ReconcileAgain(k)
         \/ Close \/ Submit \/ Reopen \/ UNCHANGED vars
  PROVE  Settled'
<1> USE DEF Settled, IInv
<1>1. UNCHANGED <<row, ledger, mutex, memory, task>>
  BY DEF Lapse, Analyse, ReconcileAgain, Close, Submit, Reopen, vars
<1>2. \A k \in Turns : /\ receipt'[k].state = receipt[k].state
                       /\ receipt'[k].owner = receipt[k].owner
  <2>1. ASSUME NEW j \in Turns, Lapse(j)
        PROVE  \A k \in Turns : receipt'[k].state = receipt[k].state
                                /\ receipt'[k].owner = receipt[k].owner
    BY <2>1 DEF Lapse, TypeOK, ReceiptType
  <2>2. QED
    BY <2>1 DEF Analyse, ReconcileAgain, Close, Submit, Reopen, vars
<1>3. /\ history'.failures = history.failures /\ history'.crashes = history.crashes
      /\ history'.raced = history.raced
  <2>1. CASE Submit
    <3> DEFINE timedOut == Counted # {}
    <3>1. history' = [history EXCEPT !.late = timedOut]
      BY <2>1 DEF Submit
    <3> HIDE DEF timedOut
    <3>2. QED
      BY <3>1 DEF TypeOK
  <2>2. QED
    BY <2>1 DEF Lapse, Analyse, ReconcileAgain, Close, Reopen, vars
<1>4. QED
  BY <1>1, <1>2, <1>3 DEF Owned, OneSaver, Synced, Once, Uncrashed

LEMMA ReconcileSettled ==
  ASSUME IInv, Settled, NEW k \in Turns, Reconcile(k)
  PROVE  Settled'
<1> USE DEF Settled, IInv
<1>1. /\ UNCHANGED <<receipt, ledger, mutex, history>>
      /\ row' = [row EXCEPT !.analysed = @ \cup {k}]
      /\ memory' = [memory EXCEPT !.held = Missed(@)]
      /\ task' = [t \in Tasks |-> [task[t] EXCEPT !.valid = FALSE]]
  BY DEF Reconcile
<1>2. row'.folds = row.folds /\ row'.key = row.key
  BY <1>1 DEF TypeOK, RowType
<1>3. /\ memory'.folds = memory.folds /\ memory'.torn = memory.torn
      /\ memory'.held = Missed(memory.held)
  BY <1>1 DEF TypeOK, MemoryType
<1>4. \A t \in Tasks : /\ task'[t].pc = task[t].pc /\ task'[t].turn = task[t].turn
                       /\ ~task'[t].valid
  BY <1>1 DEF TypeOK, CallbackType
<1>5. UNCHANGED <<receipt, ledger, mutex, history>>
  BY <1>1
<1>6. Owned' /\ OneSaver'
  <2>1. \A j \in Turns : receipt[j].owner # NoTask => receipt[j].owner \in Tasks
    BY DEF TypeOK, ReceiptType
  <2>2. Owned'
    BY <1>4, <1>5, <2>1 DEF Owned
  <2>3. OneSaver'
    BY <1>3, <1>4 DEF OneSaver
  <2>4. QED
    BY <2>2, <2>3
<1>7. Synced => Synced'
  <2>1. memory.held # "ahead" => memory'.held \in {"stale", "none"}
                                 /\ (memory'.held = "none" => memory.held = "none")
    BY <1>3 DEF Missed, TypeOK, MemoryType
  <2>2. QED
    BY <1>1, <1>3, <1>4, <2>1 DEF Synced
<1>8. Once => Once'
  BY <1>1, <1>3, <1>4 DEF Once
<1>9. Uncrashed => Uncrashed'
  BY <1>2, <1>3, <1>4, <1>5 DEF Uncrashed
<1>10. QED
  BY <1>5, <1>6, <1>7, <1>8, <1>9

\* What a first crash leaves stored and not applied is the answer saved last, whose
\* key the next process's ledger has.
LEMMA CrashSettled ==
  ASSUME IInv, Settled, Crash
  PROVE  Settled'
<1> USE DEF Settled, IInv
<1>1. /\ receipt' = [k \in Turns |-> [receipt[k] EXCEPT !.owner = NoTask]]
      /\ memory' = Loaded(row) /\ task' = [t \in Tasks |-> NoCallback]
      /\ ledger' = {row.key} \ {NoTurn} /\ row' = row
      /\ history' = [history EXCEPT !.crashes = @ + 1]
  BY DEF Crash
<1>2. \A k \in Turns : receipt'[k].owner = NoTask /\ receipt'[k].state = receipt[k].state
  BY <1>1 DEF TypeOK, ReceiptType
<1>3. /\ memory'.folds = row.folds /\ memory'.analysed = row.analysed
      /\ memory'.held = "current" /\ memory'.torn = FALSE
      /\ \A t \in Tasks : task'[t].pc = "idle"
  BY <1>1 DEF Loaded, NoCallback
<1>4. history.crashes \in Nat /\ history'.crashes = history.crashes + 1
      /\ history'.failures = history.failures
  BY <1>1 DEF TypeOK
<1>5. Owned' /\ OneSaver'
  BY <1>2, <1>3 DEF Owned, OneSaver, Saving
<1>6. Synced'
  BY <1>1, <1>3 DEF Synced, Saving
<1>7. Once /\ Uncrashed => Once'
  <2> SUFFICES ASSUME Once, Uncrashed PROVE Once'
    OBVIOUS
  <2>1. \A k \in Turns : row.folds[k] <= 1
    BY FoldedOnce
  <2>2. ASSUME NEW k \in Turns, row.folds[k] >= 1
        PROVE  /\ receipt[k].state \in {"received", "applied"}
               /\ receipt[k].state = "received" => k \in ledger'
    BY <1>1, <2>2, Constants DEF Uncrashed
  <2>3. QED
    BY <1>2, <1>3, <2>1, <2>2 DEF Once, Running, Folding
<1>8. QED
  BY <1>4, <1>5, <1>6, <1>7

LEMMA SettledStep == IInv /\ Settled /\ [Next]_vars => Settled'
<1> SUFFICES ASSUME IInv, Settled, [Next]_vars PROVE Settled'
  OBVIOUS
<1>1. ASSUME NEW t \in Tasks, (\E k \in Turns : Arrive(t, k)) \/ Callback(t) \/ Disturb(t)
      PROVE  Settled'
  BY <1>1, ArriveSettled, AcquireSettled, LookupSettled, ReceiptSettled, ProbeSettled,
     SaveLoadSettled, SaveSettled, SettleSettled, FailsSettled DEF Callback, Disturb
<1>2. ASSUME NEW k \in Turns, Reanalyse(k) \/ Lapse(k) PROVE Settled'
  BY <1>2, QuietSettled, ReconcileSettled DEF Reanalyse
<1>3. CASE Close \/ Submit \/ Reopen \/ UNCHANGED vars
  BY <1>3, QuietSettled
<1>4. QED
  BY <1>1, <1>2, <1>3, CrashSettled DEF Next

LEMMA SettledHolds == Spec => []Settled
<1>1. Init => Settled
  <2> SUFFICES ASSUME Init PROVE Settled
    OBVIOUS
  <2>1. /\ \A t \in Tasks : task[t].pc = "idle"
        /\ \A k \in Turns : /\ receipt[k].state = "none" /\ receipt[k].owner = NoTask
                            /\ row.folds[k] = 0 /\ memory.folds[k] = 0
        /\ ~memory.torn /\ memory.held = "current" /\ row.analysed = {}
    BY DEF Init, NoCallback, NoReceipt, NoRow, Loaded
  <2>2. QED
    BY <2>1 DEF Settled, Owned, OneSaver, Synced, Once, Uncrashed, Saving, Running, Folding
<1>2. QED
  BY <1>1, SettledStep, InvariantHolds, PTL DEF Spec

\* However often a client resends an answer, and whatever the re-analyses and one crash
\* of the agent do in between, the stored state has the answer folded once at most, as
\* long as no database call fails.
THEOREM GradedOnceInvariant == Spec => []GradedOnce
<1>1. IInv /\ Settled => GradedOnce
  BY FoldedOnce DEF GradedOnce, IInv, Settled
<1>2. QED
  BY <1>1, InvariantHolds, SettledHolds, PTL

\* No save of the process overwrites what a re-analysis stored in the row, unless a
\* database call failed or the counters of a turn were saved too late.
THEOREM AnalysisKeptAlways == Spec => AnalysisKept
<1> DEFINE Kept == history.failures = 0 /\ ~history.raced => row.analysed \subseteq row'.analysed
<1>1. IInv /\ Settled /\ [Next]_vars => [Kept]_vars
  <2> SUFFICES ASSUME IInv, Settled, [Next]_vars, history.failures = 0, ~history.raced
               PROVE  row.analysed \subseteq row'.analysed
    OBVIOUS
  <2>1. ASSUME NEW t \in Tasks, task[t].pc \in Saving, task[t].valid, NEW key, row' = Written(key)
        PROVE  row.analysed \subseteq row'.analysed
    BY <2>1 DEF Written, Settled, Synced
  <2>2. ASSUME NEW t \in Tasks, (\E k \in Turns : Arrive(t, k)) \/ Callback(t) \/ Disturb(t)
        PROVE  \/ row' = row
               \/ \E key \in {task[t].turn, row.key} :
                    task[t].pc \in Saving /\ task[t].valid /\ row' = Written(key)
    BY <2>2 DEF Callback, Disturb, Arrive, Acquire, Lookup, Persist, Claim, Reclaim, Probe,
                SaveLoad, SaveFold, SaveCounters, SettleApplied, SettleFailed, PersistFails, SaveFails,
                SettleRaises, Saving
  <2>3. ASSUME NEW k \in Turns, Reanalyse(k) \/ Lapse(k)
        PROVE  row' = row \/ row' = [row EXCEPT !.analysed = @ \cup {k}]
    BY <2>3 DEF Reanalyse, Analyse, Reconcile, ReconcileAgain, Lapse
  <2>4. CASE Close \/ Submit \/ Reopen \/ Crash \/ UNCHANGED vars
    BY <2>4 DEF Close, Submit, Reopen, Crash, vars
  <2>5. QED
    BY <2>1, <2>2, <2>3, <2>4 DEF Next, IInv, TypeOK, RowType
<1>2. QED
  BY <1>1, InvariantHolds, SettledHolds, PTL DEF Spec, AnalysisKept
=============================================================================
