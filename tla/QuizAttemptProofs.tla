-------------------------- MODULE QuizAttemptProofs --------------------------
(* Theorems about QuizAttempt, for every limit, every set of requests and      *)
(* every number of attempts and questions: concurrent starts respect the       *)
(* limit, a score is the sum of the answers, the gradebook row is what the     *)
(* attempts reduce to.                                                         *)
EXTENDS QuizAttempt, FiniteSetTheorems, TLAPS

-----------------------------------------------------------------------------
(* The inductive invariant *)

RowFields == {"status", "score"}
TxFields == {"pc", "n", "loaded", "new", "question", "row", "newRow", "grade", "final"}
ClosedStatus == {"submitted", "graded", "expired"}

\* Statuses are column values; the scores play no part in the argument.
AttemptShape ==
    /\ DOMAIN attempt = Attempts
    /\ \A n \in Attempts : /\ DOMAIN attempt[n] = RowFields
                           /\ attempt[n].status \in AttemptStatus

TxShape ==
    /\ DOMAIN tx = Processes
    /\ \A p \in Processes : /\ DOMAIN tx[p] = TxFields
                            /\ tx[p].n \in 0 .. MaxRows
                            /\ DOMAIN tx[p].loaded = RowFields

\* Attempts are numbered without a gap, and no more than the limit.
Numbered == \E k \in 0 .. AttemptLimit : k <= MaxRows /\ Used = 1 .. k

OneActive == \A m, n \in Active : m = n

\* The quiz row has one holder, and what it counted still holds.
Gate ==
    /\ \A p, q \in Processes : tx[p].pc = "gated" /\ tx[q].pc = "gated" => p = q
    /\ \A p \in Processes : tx[p].pc = "gated" => Cardinality(Used) < AttemptLimit

\* A handler closes, or marks, an attempt that exists, and never reopens it.
Closers ==
    \A p \in Processes :
      /\ tx[p].pc \in {"loaded", "closing", "recording", "marking"} => tx[p].n \in Used
      /\ tx[p].pc = "marking" => attempt[tx[p].n].status \in ClosedStatus
      /\ tx[p].pc \in {"closing", "recording"} => tx[p].new.status \in ClosedStatus

IInv == AttemptShape /\ TxShape /\ Numbered /\ OneActive /\ Gate /\ Closers

\* What a step of p that leaves the attempts alone does to the invariant.
Passes(p, t) ==
    /\ DOMAIN t = TxFields /\ t.n \in 0 .. MaxRows /\ DOMAIN t.loaded = RowFields
    /\ t.pc = "gated" => ~QuizLocked /\ Cardinality(Used) < AttemptLimit
    /\ t.pc \in {"loaded", "closing", "recording", "marking"} => t.n \in Used
    /\ t.pc = "marking" => attempt[t.n].status \in ClosedStatus
    /\ t.pc \in {"closing", "recording"} => t.new.status \in ClosedStatus

-----------------------------------------------------------------------------

\* The invariant holds of the empty tables.
LEMMA InitIInv == Init => IInv
<1> SUFFICES ASSUME Init PROVE IInv
    OBVIOUS
<1> USE DEF Init
<1>1. AttemptShape
  BY DEF AttemptShape, RowFields, NoAttempt, AttemptStatus
<1>2. TxShape
  BY ConstantsAssumption DEF TxShape, TxFields, RowFields, Idle, NoAttempt
<1>3. Used = {} /\ Active = {}
  BY DEF Used, Active, NoAttempt
<1>4. Numbered
  BY <1>3, ConstantsAssumption DEF Numbered
<1>5. OneActive
  BY <1>3 DEF OneActive
<1>6. \A p \in Processes : tx[p].pc = "idle"
  BY DEF Idle
<1>7. Gate /\ Closers
  BY <1>6 DEF Gate, Closers
<1> QED
  BY <1>1, <1>2, <1>4, <1>5, <1>7 DEF IInv

\* Cardinality of the used numbers.
LEMMA UsedCount ==
  ASSUME NEW k \in Nat, Used = 1 .. k
  PROVE  Cardinality(Used) = k /\ IsFiniteSet(Used)
BY FS_Interval

\* A transaction that may have any of the next states leaves the invariant true.
LEMMA PassesStep ==
  ASSUME IInv, NEW p \in Processes, NEW t, Passes(p, t), Step(p, t), UNCHANGED attempt
  PROVE  IInv'
<1>1. tx' = [tx EXCEPT ![p] = t] /\ DOMAIN tx = Processes
  BY DEF IInv, TxShape, Step
<1>2. tx'[p] = t /\ \A q \in Processes : q # p => tx'[q] = tx[q]
  BY <1>1
<1>3. Used' = Used /\ Active' = Active
  BY DEF Used, Active
<1>4. AttemptShape'
  BY DEF IInv, AttemptShape
<1>5. TxShape'
  BY <1>1, <1>2 DEF IInv, TxShape, Passes
<1>6. Numbered' /\ OneActive'
  BY <1>3 DEF IInv, Numbered, OneActive
<1>7. Gate'
  BY <1>2, <1>3 DEF IInv, Gate, Passes, QuizLocked
<1>8. Closers'
  BY <1>2, <1>3 DEF IInv, Closers, Passes
<1> QED
  BY <1>4, <1>5, <1>6, <1>7, <1>8 DEF IInv

\* Idle is a state any transaction may end in.
LEMMA IdlePasses ==
  ASSUME NEW p \in Processes
  PROVE  Passes(p, Idle)
BY ConstantsAssumption DEF Passes, Idle, TxFields, RowFields, NoAttempt

\* The row the database holds after a flush: a closed row stays closed, an active
\* one stays active or is closed, whatever else happened to it since it was read.
LEMMA UpdatedStatus ==
  ASSUME NEW row, DOMAIN row = RowFields, NEW old, NEW new
  PROVE  /\ DOMAIN Updated(row, old, new) = RowFields
         /\ Updated(row, old, new).status =
              IF new.status # old.status THEN new.status ELSE row.status
BY DEF Updated, RowFields

\* The commit of a handler that flushed its attempt.
LEMMA CommitStep ==
  ASSUME IInv, NEW p \in Processes, tx[p].pc \in {"closing", "recording"},
         attempt' = Flushed(p), Step(p, Idle)
  PROVE  IInv'
<1> DEFINE n == tx[p].n
           new == Updated(attempt[n], tx[p].loaded, tx[p].new)
<1>1. n \in Used /\ n \in Attempts /\ tx[p].new.status \in ClosedStatus
  BY DEF IInv, Closers, Used
<1>2. attempt' = [attempt EXCEPT ![n] = new] /\ DOMAIN attempt = Attempts
  BY DEF Flushed, IInv, AttemptShape
<1>3. attempt'[n] = new /\ \A m \in Attempts : m # n => attempt'[m] = attempt[m]
  BY <1>1, <1>2
<1>4. DOMAIN new = RowFields /\ new.status \in {tx[p].new.status, attempt[n].status}
  BY <1>1, UpdatedStatus DEF IInv, AttemptShape
<1> HIDE DEF new
<1>5. new.status \in AttemptStatus \ {"absent"}
  BY <1>1, <1>4 DEF IInv, AttemptShape, Used, ClosedStatus, AttemptStatus
<1>6. \A m \in Attempts : attempt[m].status \in ClosedStatus => attempt'[m].status \in ClosedStatus
  BY <1>1, <1>3, <1>4
<1>7. Used' = Used
  BY <1>1, <1>3, <1>5 DEF Used
<1>8. Active' \subseteq Active
  <2> SUFFICES ASSUME NEW m \in Active' PROVE m \in Active
      OBVIOUS
  <2>1. m \in Attempts /\ attempt'[m].status = "in_progress"
    BY DEF Active
  <2>2. CASE m = n
    BY <2>1, <2>2, <1>1, <1>3, <1>4 DEF ClosedStatus, Active
  <2>3. CASE m # n
    BY <2>1, <2>3, <1>3 DEF Active
  <2> QED
    BY <2>2, <2>3
<1>9. tx'[p] = Idle /\ DOMAIN tx' = Processes /\ \A q \in Processes : q # p => tx'[q] = tx[q]
  BY DEF IInv, TxShape, Step
<1>10. AttemptShape'
  BY <1>2, <1>3, <1>4, <1>5 DEF IInv, AttemptShape
<1>11. TxShape'
  BY <1>9, IdlePasses DEF IInv, TxShape, Passes
<1>12. Numbered'
  BY <1>7 DEF IInv, Numbered
<1>13. OneActive'
  BY <1>8 DEF IInv, OneActive
<1>14. Idle.pc = "idle"
  BY DEF Idle
<1>15. Gate'
  BY <1>7, <1>9, <1>14 DEF IInv, Gate
<1>16. Closers'
  <2> SUFFICES ASSUME NEW q \in Processes PROVE Closers!(q)'
      BY DEF Closers
  <2>1. CASE q = p
    BY <2>1, <1>9, <1>14
  <2>2. CASE q # p
    <3>1. tx'[q] = tx[q]
      BY <2>2, <1>9
    <3>2. tx[q].pc = "marking" => tx[q].n \in Attempts
      BY DEF IInv, Closers, Used
    <3> QED
      BY <3>1, <3>2, <1>6, <1>7 DEF IInv, Closers
  <2> QED
    BY <2>1, <2>2
<1> QED
  BY <1>10, <1>11, <1>12, <1>13, <1>15, <1>16 DEF IInv

\* The insert takes the next number: the gate's count is still good, since only the
\* holder of the quiz row inserts.
LEMMA InsertStep ==
  ASSUME IInv, NEW p \in Processes, NEW n \in Attempts, StartInsert(p, n)
  PROVE  IInv'
<1> DEFINE new == [status |-> "in_progress", score |-> Null]
<1>1. PICK k \in 0 .. AttemptLimit : k <= MaxRows /\ Used = 1 .. k
  BY DEF IInv, Numbered
<1>2. Cardinality(Used) = k /\ k \in Nat
  BY <1>1, UsedCount, ConstantsAssumption
<1>3. n = k + 1 /\ k < AttemptLimit
  BY <1>2 DEF StartInsert, At, IInv, Gate
<1>4. attempt' = [attempt EXCEPT ![n] = new] /\ DOMAIN attempt = Attempts
  BY DEF StartInsert, IInv, AttemptShape
<1>5. attempt'[n] = new /\ \A m \in Attempts : m # n => attempt'[m] = attempt[m]
  BY <1>4
<1>6. new.status = "in_progress" /\ DOMAIN new = RowFields
  BY DEF RowFields
<1> HIDE DEF new
<1>7. Used' = Used \cup {n} /\ Active' = {n}
  BY <1>5, <1>6 DEF Used, Active, StartInsert
<1>8. Numbered'
  <2>1. Used' = 1 .. (k + 1)
    BY <1>1, <1>2, <1>3, <1>7
  <2>2. k + 1 \in 0 .. AttemptLimit /\ k + 1 <= MaxRows
    BY <1>2, <1>3, ConstantsAssumption DEF Attempts
  <2> QED
    BY <2>1, <2>2 DEF Numbered
<1>9. tx'[p] = Idle /\ DOMAIN tx' = Processes /\ \A q \in Processes : q # p => tx'[q] = tx[q]
  BY DEF IInv, TxShape, Step, StartInsert
<1>10. \A q \in Processes : tx'[q].pc # "gated"
  BY <1>9 DEF Idle, IInv, Gate, StartInsert, At
<1>11. AttemptShape'
  BY <1>4, <1>5, <1>6 DEF IInv, AttemptShape, AttemptStatus
<1>12. TxShape'
  BY <1>9, IdlePasses DEF IInv, TxShape, Passes
<1>13. OneActive' /\ Gate'
  BY <1>7, <1>10 DEF OneActive, Gate
<1>14. Closers'
  <2>1. attempt[n].status = "absent"
    BY <1>1, <1>2, <1>3 DEF Used
  <2>2. \A m \in Attempts : attempt[m].status \in ClosedStatus => attempt'[m] = attempt[m]
    BY <2>1, <1>5 DEF ClosedStatus
  <2>3. Idle.pc = "idle"
    BY DEF Idle
  <2> SUFFICES ASSUME NEW q \in Processes PROVE Closers!(q)'
      BY DEF Closers
  <2>4. CASE q = p
    BY <2>3, <2>4, <1>9
  <2>5. CASE q # p
    <3>1. tx'[q] = tx[q]
      BY <2>5, <1>9
    <3>2. tx[q].pc = "marking" => tx[q].n \in Attempts
      BY DEF IInv, Closers, Used
    <3> QED
      BY <3>1, <3>2, <2>2, <1>7 DEF IInv, Closers
  <2> QED
    BY <2>4, <2>5
<1> QED
  BY <1>8, <1>11, <1>12, <1>13, <1>14 DEF IInv

\* Every step of a handler preserves the invariant.
LEMMA HandlerStep ==
  ASSUME IInv, NEW p \in Processes, Begin(p) \/ Continue(p)
  PROVE  IInv'
<1> DEFINE t == tx[p]
<1>t. /\ DOMAIN t = TxFields /\ t.n \in 0 .. MaxRows /\ DOMAIN t.loaded = RowFields
      /\ DOMAIN Idle = TxFields
  BY DEF IInv, TxShape, Idle, TxFields
<1>1. CASE StartGate(p)
  <2>1. Passes(p, [Idle EXCEPT !.pc = "gated"])
    BY <1>1, IdlePasses DEF StartGate, Passes, Idle
  <2> QED
    BY <1>1, <2>1, PassesStep DEF StartGate
<1>2. ASSUME NEW n \in Attempts, SubmitLoad(p, n) \/ SweepLoad(p, n) PROVE IInv'
  <2>1. CloseLoad(p, n)
    BY <1>2 DEF SubmitLoad, SweepLoad
  <2>2. Passes(p, [Idle EXCEPT !.pc = "loaded", !.n = n, !.loaded = attempt[n]])
    BY <2>1, IdlePasses DEF CloseLoad, Passes, Idle, Used, Attempts, IInv, AttemptShape
  <2> QED
    BY <2>1, <2>2, PassesStep DEF CloseLoad
<1>3. ASSUME NEW n \in Attempts, NEW q \in Questions, NEW c \in Options, AnswerLoad(p, n, q, c)
      PROVE IInv'
  <2>1. Passes(p, [Idle EXCEPT !.pc = "answering", !.n = n, !.question = q,
                               !.newRow = [Unanswered EXCEPT !.choice = c]])
    BY IdlePasses DEF Passes, Idle, Attempts
  <2> QED
    BY <1>3, <2>1, PassesStep DEF AnswerLoad
<1>4. ASSUME NEW n \in Attempts, NEW q \in Questions, NEW k \in Marks, MarkLoad(p, n, q, k)
      PROVE IInv'
  <2> DEFINE u == [Idle EXCEPT !.pc = "marking", !.n = n, !.question = q, !.row = answer[n][q],
                               !.newRow = [answer[n][q] EXCEPT !.mark = k, !.points = k,
                                                               !.pending = FALSE]]
  <2>1. DOMAIN u = TxFields /\ u.n = n /\ u.loaded = Idle.loaded /\ u.pc = "marking"
    BY DEF Idle, TxFields
  <2>2. attempt[n].status \in ClosedStatus /\ n \in Used
    BY <1>4 DEF MarkLoad, InQueue, ClosedStatus, Used
  <2>3. Passes(p, u)
    BY <2>1, <2>2, IdlePasses DEF Passes, Attempts
  <2> QED
    BY <1>4, <2>3, PassesStep DEF MarkLoad
<1>5. ASSUME NEW n \in Attempts, StartInsert(p, n) PROVE IInv'
  BY <1>5, InsertStep
<1>6. CASE StartRefused(p)
  BY <1>6, IdlePasses, PassesStep DEF StartRefused
<1>7. CASE AnswerRead(p)
  <2>1. PICK row, newRow : Step(p, [t EXCEPT !.pc = "saving", !.row = row, !.newRow = newRow])
    BY <1>7 DEF AnswerRead
  <2>2. Passes(p, [t EXCEPT !.pc = "saving", !.row = row, !.newRow = newRow])
    BY <1>t DEF Passes, TxFields
  <2> QED
    BY <1>7, <2>1, <2>2, PassesStep DEF AnswerRead
<1>8. CASE AnswerSave(p)
  BY <1>8, IdlePasses, PassesStep DEF AnswerSave
<1>9. CASE CloseRead(p)
  <2> DEFINE rows == answer[t.n]
             new == IF t.n \in overdue /\ Autoabandon
                    THEN [t.loaded EXCEPT !.status = "expired"]
                    ELSE [status |-> "submitted",
                          score |-> IF Pending(rows) = {} THEN Total(rows) ELSE Null]
             u == [t EXCEPT !.pc = "closing", !.new = new]
  <2>1. new.status \in ClosedStatus
    BY <1>t DEF ClosedStatus, RowFields
  <2>2. t.n \in Used
    BY <1>9 DEF CloseRead, At, IInv, Closers
  <2> HIDE DEF new
  <2>3. DOMAIN u = TxFields /\ u.n = t.n /\ u.loaded = t.loaded /\ u.pc = "closing" /\ u.new = new
    BY <1>t DEF TxFields
  <2>4. Passes(p, u)
    BY <1>t, <2>1, <2>2, <2>3 DEF Passes
  <2>5. Step(p, u) /\ UNCHANGED attempt
    BY <1>9 DEF CloseRead, new
  <2> QED
    BY <2>4, <2>5, PassesStep
<1>10. CASE CloseUngraded(p)
  BY <1>10, CommitStep DEF CloseUngraded, At
<1>11. CASE CloseFlush(p)
  <2>1. PICK final : Step(p, [t EXCEPT !.pc = "recording", !.grade = grade, !.final = final])
    BY <1>11 DEF CloseFlush
  <2> DEFINE u == [t EXCEPT !.pc = "recording", !.grade = grade, !.final = final]
  <2>2. DOMAIN u = TxFields /\ u.n = t.n /\ u.loaded = t.loaded /\ u.pc = "recording" /\ u.new = t.new
    BY <1>t DEF TxFields
  <2>3. t.n \in Used /\ t.new.status \in ClosedStatus
    BY <1>11 DEF CloseFlush, At, IInv, Closers
  <2>4. Passes(p, u)
    BY <1>t, <2>2, <2>3 DEF Passes
  <2> QED
    BY <1>11, <2>1, <2>4, PassesStep DEF CloseFlush
<1>12. CASE Record(p)
  <2>1. CASE UNCHANGED attempt
    BY <1>12, <2>1, IdlePasses, PassesStep DEF Record
  <2>2. CASE attempt' = Flushed(p)
    BY <1>12, <2>2, CommitStep DEF Record, At
  <2> QED
    BY <1>12, <2>1, <2>2 DEF Record
<1>13. CASE MarkFlush(p)
  <2> DEFINE stored == Updated(answer[t.n][t.question], t.row, t.newRow)
             rows == [answer[t.n] EXCEPT ![t.question] = stored]
             seen == [rows EXCEPT ![t.question] = t.newRow]
             row == attempt[t.n]
             new == IF Pending(rows) = {} THEN [status |-> "graded", score |-> Total(seen)]
                    ELSE [row EXCEPT !.score = Null]
             u == [t EXCEPT !.pc = "closing", !.loaded = row, !.new = new]
  <2>1. t.n \in Used /\ t.n \in Attempts /\ row.status \in ClosedStatus /\ DOMAIN row = RowFields
    BY <1>13 DEF MarkFlush, At, IInv, Closers, Used, AttemptShape
  <2>2. row.status \in ClosedStatus => new.status \in ClosedStatus
    BY <2>1 DEF ClosedStatus, RowFields
  <2>3. Step(p, u)
    BY <1>13 DEF MarkFlush
  <2> HIDE DEF new, row
  <2>4. DOMAIN u = TxFields /\ u.n = t.n /\ u.loaded = row /\ u.pc = "closing" /\ u.new = new
    BY <1>t DEF TxFields
  <2>5. Passes(p, u)
    BY <1>t, <2>1, <2>2, <2>4 DEF Passes
  <2> QED
    BY <1>13, <2>3, <2>5, PassesStep DEF MarkFlush
<1> QED
  BY <1>1, <1>2, <1>3, <1>4, <1>5, <1>6, <1>7, <1>8, <1>9, <1>10, <1>11, <1>12, <1>13
  DEF Begin, Continue

\* A stuttering step, or a passing deadline, changes nothing the invariant reads.
LEMMA QuietStep ==
  ASSUME IInv, UNCHANGED <<attempt, tx>>
  PROVE  IInv'
BY DEF IInv, AttemptShape, TxShape, Numbered, OneActive, Gate, Closers, Used, Active

\* The invariant is inductive.
LEMMA IInvStep == IInv /\ [Next]_vars => IInv'
<1> SUFFICES ASSUME IInv, [Next]_vars PROVE IInv'
    OBVIOUS
<1>1. CASE \E p \in Processes : Begin(p) \/ Continue(p)
  BY <1>1, HandlerStep
<1>2. CASE \E n \in Attempts : DeadlinePasses(n)
  BY <1>2, QuietStep DEF DeadlinePasses
<1>3. CASE UNCHANGED vars
  BY <1>3, QuietStep DEF vars
<1> QED
  BY <1>1, <1>2, <1>3 DEF Next

\* What the invariant says of the limit.
LEMMA IInvLimit == IInv => AttemptsWithinLimit
<1> SUFFICES ASSUME IInv PROVE AttemptsWithinLimit
    OBVIOUS
<1>1. PICK k \in 0 .. AttemptLimit : k <= MaxRows /\ Used = 1 .. k
  BY DEF IInv, Numbered
<1>2. Cardinality(Used) <= AttemptLimit
  BY <1>1, UsedCount, ConstantsAssumption
<1>3. Cardinality(Active) <= 1
  <2>1. CASE Active = {}
    BY <2>1, FS_EmptySet
  <2>2. CASE Active # {}
    <3>1. PICK n : n \in Active
      BY <2>2
    <3>2. Active = {n}
      BY <3>1 DEF IInv, OneActive
    <3>3. Cardinality({n}) = 1
      BY FS_Singleton
    <3> QED
      BY <3>2, <3>3
  <2> QED
    BY <2>1, <2>2
<1> QED
  BY <1>2, <1>3 DEF AttemptsWithinLimit

\* In every behaviour no more attempts are opened than the limit allows, and at most
\* one is active: the start's count under FOR UPDATE is never stale.
THEOREM WithinLimit == Spec => []AttemptsWithinLimit
<1>1. Spec => []IInv
  BY InitIInv, IInvStep, PTL DEF Spec
<1> QED
  BY <1>1, IInvLimit, PTL
-----------------------------------------------------------------------------
(* The rows *)

AnswerType == [choice : Options \cup {NoOption}, points : Nat, pending : BOOLEAN,
               mark : Nat \cup {Null}]
Sheets == [Questions -> AnswerType]

\* What is said of a score is which answers it was summed from.
RowType == [status : AttemptStatus, score : {Null} \cup {Total(rows) : rows \in Sheets}]

Answering(p) == tx[p].pc \in {"answering", "saving", "marking"} \/ Marking(p)

\* The steps of who takes an attempt, of the sweep and of who marks one.
Role(p, pc) ==
    /\ p \in Sessions => pc \in {"idle", "gated", "answering", "saving", "loaded", "closing",
                               "recording"}
    /\ p \in Sweepers => pc \in {"idle", "loaded", "closing", "recording"}
    /\ p \in Graders => pc \in {"idle", "marking", "closing", "recording"}

Rows ==
    /\ attempt \in [Attempts -> RowType]
    /\ answer \in [Attempts -> Sheets]
    /\ \A p \in Processes :
         /\ tx[p].loaded \in RowType /\ tx[p].new \in RowType
         /\ tx[p].row \in AnswerType /\ tx[p].newRow \in AnswerType
         /\ tx[p].pc \notin {"idle", "gated"} => tx[p].n \in Attempts
         /\ Answering(p) => tx[p].question \in Questions
         /\ Role(p, tx[p].pc)

\* The same of what a step leaves in the transaction of p.
Fits(p, t) ==
    /\ DOMAIN t = TxFields /\ Role(p, t.pc)
    /\ t.loaded \in RowType /\ t.new \in RowType
    /\ t.row \in AnswerType /\ t.newRow \in AnswerType
    /\ t.pc \notin {"idle", "gated"} => t.n \in Attempts
    /\ \/ t.pc \in {"answering", "saving", "marking"}
       \/ p \in Graders /\ t.pc \in {"closing", "recording"}
       => t.question \in Questions

\* What a flush leaves of a row of each table.
LEMMA UpdatedRow ==
  ASSUME NEW row \in RowType, NEW old \in RowType, NEW new \in RowType
  PROVE  /\ Updated(row, old, new) \in RowType
         /\ Updated(row, old, new) =
              [status |-> IF new.status # old.status THEN new.status ELSE row.status,
               score |-> IF new.score # old.score THEN new.score ELSE row.score]
  BY DEF Updated, RowType

LEMMA UpdatedAnswer ==
  ASSUME NEW row \in AnswerType, NEW old \in AnswerType, NEW new \in AnswerType
  PROVE  /\ Updated(row, old, new) \in AnswerType
         /\ Updated(row, row, new) = new
<1>1. Updated(row, old, new) \in AnswerType
  BY DEF Updated, AnswerType
<1>2. Updated(row, row, new) = new
  BY DEF Updated, AnswerType
<1>3. QED
  BY <1>1, <1>2

LEMMA InitRows == Init => Rows
<1> SUFFICES ASSUME Init PROVE Rows
  OBVIOUS
<1>1. NoAttempt \in RowType
  BY DEF RowType, NoAttempt, AttemptStatus
<1>2. Unanswered \in AnswerType
  BY DEF AnswerType, Unanswered
<1>3. QED
  BY <1>1, <1>2 DEF Init, Rows, Role, Idle, Answering, Marking, Sheets

\* A step of p whose transaction fits.
LEMMA FitsStep ==
  ASSUME IInv, Rows, NEW p \in Processes, NEW t, Fits(p, t), Step(p, t),
         attempt' \in [Attempts -> RowType], answer' \in [Attempts -> Sheets]
  PROVE  Rows'
<1>1. tx'[p] = t /\ \A q \in Processes : q # p => tx'[q] = tx[q]
  BY DEF IInv, TxShape, Step
<1>2. ASSUME NEW q \in Processes PROVE Rows!3!(q)'
  <2>1. CASE q = p
    BY <1>1, <2>1 DEF Fits, Answering, Marking
  <2>2. CASE q # p
    BY <1>1, <2>2 DEF Rows, Answering, Marking
  <2>3. QED
    BY <2>1, <2>2
<1>3. QED
  BY <1>2 DEF Rows

LEMMA IdleFits ==
  /\ \A p : Fits(p, Idle)
  /\ NoAttempt \in RowType /\ Unanswered \in AnswerType /\ DOMAIN Idle = TxFields
<1>1. NoAttempt \in RowType
  BY DEF RowType, NoAttempt, AttemptStatus
<1>2. Unanswered \in AnswerType
  BY DEF AnswerType, Unanswered
<1>3. QED
  BY <1>1, <1>2 DEF Fits, Role, Idle, TxFields

LEMMA GradeOfAnswer ==
  ASSUME NEW q, NEW c
  PROVE  Points(q, c) \in Nat /\ NeedsManualGrade(q, c) \in BOOLEAN
  BY DEF Points, NeedsManualGrade

\* What a commit leaves in the tables.
LEMMA FlushedRows ==
  ASSUME IInv, Rows, NEW p \in Processes, tx[p].pc \in {"closing", "recording"}
  PROVE  Flushed(p) \in [Attempts -> RowType] /\ FlushedAnswer(p) \in [Attempts -> Sheets]
<1>1. tx[p].n \in Attempts /\ tx[p].loaded \in RowType /\ tx[p].new \in RowType
      /\ tx[p].row \in AnswerType /\ tx[p].newRow \in AnswerType
  BY DEF Rows
<1>2. Flushed(p) \in [Attempts -> RowType]
  BY <1>1, UpdatedRow DEF Flushed, Rows
<1>3. CASE Marking(p)
  <2>1. tx[p].question \in Questions
    BY <1>3 DEF Rows, Answering
  <2>2. answer[tx[p].n][tx[p].question] \in AnswerType
    BY <1>1, <2>1 DEF Rows, Sheets
  <2>3. QED
    BY <1>1, <1>2, <1>3, <2>1, <2>2, UpdatedAnswer DEF FlushedAnswer, Rows, Sheets
<1>4. CASE ~Marking(p)
  BY <1>2, <1>4 DEF FlushedAnswer, Rows
<1>5. QED
  BY <1>3, <1>4

\* Every step of a handler leaves rows.
LEMMA HandlerRows ==
  ASSUME IInv, Rows, NEW p \in Processes, Begin(p) \/ Continue(p)
  PROVE  Rows'
<1> DEFINE t == tx[p]
<1>t. /\ DOMAIN t = TxFields /\ t.loaded \in RowType /\ t.new \in RowType
      /\ t.row \in AnswerType /\ t.newRow \in AnswerType
      /\ t.pc \notin {"idle", "gated"} => t.n \in Attempts
      /\ Answering(p) => t.question \in Questions
      /\ attempt \in [Attempts -> RowType] /\ answer \in [Attempts -> Sheets]
  BY DEF IInv, TxShape, Rows
<1>i. /\ DOMAIN Idle = TxFields /\ Idle.loaded \in RowType /\ Idle.new \in RowType
      /\ Idle.row \in AnswerType /\ Idle.newRow \in AnswerType
  BY IdleFits DEF Fits
<1>r. /\ p \in Graders => p \notin Sessions \cup Sweepers
      /\ p \in Sweepers => p \notin Sessions
      /\ Role(p, t.pc)
  BY ConstantsAssumption DEF Rows
<1>1. ASSUME p \in Sessions, StartGate(p) PROVE Rows'
  <2>1. Fits(p, [Idle EXCEPT !.pc = "gated"])
    BY <1>1, <1>i, <1>r DEF Fits, Role, TxFields
  <2>2. QED
    BY <1>1, <1>t, <2>1, FitsStep DEF StartGate
<1>2. ASSUME NEW n \in Attempts, p \in Sessions \cup Sweepers,
             SubmitLoad(p, n) \/ SweepLoad(p, n)
      PROVE Rows'
  <2>1. CloseLoad(p, n) /\ attempt[n] \in RowType
    BY <1>2, <1>t DEF SubmitLoad, SweepLoad
  <2>2. Fits(p, [Idle EXCEPT !.pc = "loaded", !.n = n, !.loaded = attempt[n]])
    BY <1>2, <1>i, <1>r, <2>1 DEF Fits, Role, TxFields
  <2>3. QED
    BY <1>t, <2>1, <2>2, FitsStep DEF CloseLoad
<1>3. ASSUME NEW n \in Attempts, NEW q \in Questions, NEW c \in Options, p \in Sessions,
             AnswerLoad(p, n, q, c)
      PROVE Rows'
  <2> DEFINE r == [Unanswered EXCEPT !.choice = c]
             u == [Idle EXCEPT !.pc = "answering", !.n = n, !.question = q, !.newRow = r]
  <2>1. r \in AnswerType
    BY DEF AnswerType, Unanswered
  <2> HIDE DEF r
  <2>2. Fits(p, u)
    BY <1>3, <1>i, <1>r, <2>1 DEF Fits, Role, TxFields
  <2>3. QED
    BY <1>3, <1>t, <2>2, FitsStep DEF AnswerLoad, r
<1>4. ASSUME NEW n \in Attempts, NEW q \in Questions, NEW k \in Marks, p \in Graders,
             MarkLoad(p, n, q, k)
      PROVE Rows'
  <2> DEFINE s == answer[n][q]
             r == [s EXCEPT !.mark = k, !.points = k, !.pending = FALSE]
             u == [Idle EXCEPT !.pc = "marking", !.n = n, !.question = q, !.row = s, !.newRow = r]
  <2>1. s \in AnswerType
    BY <1>t DEF Sheets
  <2>2. r \in AnswerType
    BY <2>1, ConstantsAssumption DEF AnswerType
  <2>3. Step(p, u) /\ UNCHANGED <<attempt, answer>>
    BY <1>4 DEF MarkLoad
  <2> HIDE DEF r, s
  <2>4. Fits(p, u)
    BY <1>4, <1>i, <1>r, <2>1, <2>2 DEF Fits, Role, TxFields
  <2>5. QED
    BY <1>t, <2>3, <2>4, FitsStep
<1>5. ASSUME NEW n \in Attempts, StartInsert(p, n) PROVE Rows'
  <2>1. [status |-> "in_progress", score |-> Null] \in RowType
    BY DEF RowType, AttemptStatus
  <2>2. QED
    BY <1>5, <1>t, <2>1, IdleFits, FitsStep DEF StartInsert
<1>6. CASE StartRefused(p)
  BY <1>6, <1>t, IdleFits, FitsStep DEF StartRefused
<1>7. CASE AnswerRead(p)
  <2> DEFINE c == t.newRow.choice
             s == answer[t.n][t.question]
             r == [s EXCEPT !.choice = c, !.points = Points(t.question, c),
                            !.pending = NeedsManualGrade(t.question, c)]
             u == [t EXCEPT !.pc = "saving", !.row = s, !.newRow = r]
  <2>1. t.n \in Attempts /\ t.question \in Questions
    BY <1>7, <1>t DEF AnswerRead, At, Answering
  <2>2. s \in AnswerType
    BY <1>t, <2>1 DEF Sheets
  <2>3. r \in AnswerType
    BY <1>t, <2>2, GradeOfAnswer DEF AnswerType
  <2>4. Step(p, u) /\ UNCHANGED <<attempt, answer>>
    BY <1>7 DEF AnswerRead
  <2> HIDE DEF r, s
  <2>5. Fits(p, u)
    BY <1>7, <1>r, <1>t, <2>1, <2>2, <2>3 DEF Fits, Role, TxFields, AnswerRead, At
  <2>6. QED
    BY <1>t, <2>4, <2>5, FitsStep
<1>8. CASE AnswerSave(p)
  <2>1. t.n \in Attempts /\ t.question \in Questions
    BY <1>8, <1>t DEF AnswerSave, At, Answering
  <2>2. answer[t.n][t.question] \in AnswerType
    BY <1>t, <2>1 DEF Sheets
  <2>3. Updated(answer[t.n][t.question], t.row, t.newRow) \in AnswerType
    BY <1>t, <2>2, UpdatedAnswer
  <2>4. answer' \in [Attempts -> Sheets]
    BY <1>8, <1>t, <2>1, <2>3 DEF AnswerSave, Sheets
  <2>5. QED
    BY <1>8, <1>t, <2>4, IdleFits, FitsStep DEF AnswerSave
<1>9. CASE CloseRead(p)
  <2> DEFINE rows == answer[t.n]
             new == IF t.n \in overdue /\ Autoabandon
                    THEN [t.loaded EXCEPT !.status = "expired"]
                    ELSE [status |-> "submitted",
                          score |-> IF Pending(rows) = {} THEN Total(rows) ELSE Null]
             u == [t EXCEPT !.pc = "closing", !.new = new]
  <2>1. t.n \in Attempts /\ p \notin Graders
    BY <1>9, <1>r, <1>t DEF CloseRead, At, Role
  <2>2. rows \in Sheets
    BY <1>t, <2>1
  <2>3. new \in RowType
    BY <1>t, <2>2 DEF RowType, AttemptStatus
  <2>4. Step(p, u) /\ UNCHANGED <<attempt, answer>>
    BY <1>9 DEF CloseRead
  <2> HIDE DEF new
  <2>5. Fits(p, u)
    BY <1>9, <1>r, <1>t, <2>1, <2>3 DEF Fits, Role, TxFields, CloseRead, At
  <2>6. QED
    BY <1>t, <2>4, <2>5, FitsStep
<1>10. CASE CloseUngraded(p)
  <2>1. Flushed(p) \in [Attempts -> RowType] /\ FlushedAnswer(p) \in [Attempts -> Sheets]
    BY <1>10, FlushedRows DEF CloseUngraded, At
  <2>2. QED
    BY <1>10, <2>1, IdleFits, FitsStep DEF CloseUngraded
<1>11. CASE CloseFlush(p)
  <2>1. PICK final : Step(p, [t EXCEPT !.pc = "recording", !.grade = grade, !.final = final])
    BY <1>11 DEF CloseFlush
  <2>2. t.n \in Attempts /\ (p \in Graders => t.question \in Questions)
    BY <1>11, <1>t DEF CloseFlush, At, Answering, Marking
  <2>3. Fits(p, [t EXCEPT !.pc = "recording", !.grade = grade, !.final = final])
    BY <1>11, <1>r, <1>t, <2>2 DEF Fits, Role, TxFields, CloseFlush, At
  <2>4. QED
    BY <1>11, <1>t, <2>1, <2>3, FitsStep DEF CloseFlush
<1>12. CASE Record(p)
  <2>1. Flushed(p) \in [Attempts -> RowType] /\ FlushedAnswer(p) \in [Attempts -> Sheets]
    BY <1>12, FlushedRows DEF Record, At
  <2>2. QED
    BY <1>12, <1>t, <2>1, IdleFits, FitsStep DEF Record
<1>13. CASE MarkFlush(p)
  <2> DEFINE s == answer[t.n][t.question]
             stored == Updated(s, t.row, t.newRow)
             rows == [answer[t.n] EXCEPT ![t.question] = stored]
             seen == [rows EXCEPT ![t.question] = t.newRow]
             row == attempt[t.n]
             new == IF Pending(rows) = {} THEN [status |-> "graded", score |-> Total(seen)]
                    ELSE [row EXCEPT !.score = Null]
             u == [t EXCEPT !.pc = "closing", !.loaded = row, !.new = new]
  <2>1. t.n \in Attempts /\ t.question \in Questions
    BY <1>13, <1>t DEF MarkFlush, At, Answering
  <2>2. row \in RowType /\ answer[t.n] \in Sheets /\ s \in AnswerType
    BY <1>t, <2>1 DEF Sheets
  <2>3. stored \in AnswerType
    BY <1>t, <2>2, UpdatedAnswer
  <2> HIDE DEF stored
  <2>4. seen \in Sheets
    BY <1>t, <2>1, <2>2, <2>3 DEF Sheets
  <2>5. Step(p, u) /\ UNCHANGED <<attempt, answer>>
    BY <1>13 DEF MarkFlush, stored
  <2> HIDE DEF seen, rows, row
  <2>6. new \in RowType
    BY <2>2, <2>4 DEF RowType, AttemptStatus
  <2> HIDE DEF new
  <2>7. Fits(p, u)
    BY <1>13, <1>r, <1>t, <2>1, <2>2, <2>6 DEF Fits, Role, TxFields, MarkFlush, At
  <2>8. QED
    BY <1>t, <2>5, <2>7, FitsStep
<1>14. QED
  BY <1>1, <1>2, <1>3, <1>4, <1>5, <1>6, <1>7, <1>8, <1>9, <1>10, <1>11, <1>12, <1>13
  DEF Begin, Continue

LEMMA RowsStep == IInv /\ Rows /\ [Next]_vars => Rows'
<1> SUFFICES ASSUME IInv, Rows, [Next]_vars PROVE Rows'
  OBVIOUS
<1>1. CASE \E p \in Processes : Begin(p) \/ Continue(p)
  BY <1>1, HandlerRows
<1>2. CASE (\E n \in Attempts : DeadlinePasses(n)) \/ UNCHANGED vars
  BY <1>2 DEF DeadlinePasses, vars, Rows, Answering, Marking
<1>3. QED
  BY <1>1, <1>2 DEF Next
\* Whatever stale rows a handler holds, the columns keep values of their kind, and a
\* score is a sum over answers.
THEOREM RowsInvariant == Spec => []Rows
  BY InitIInv, IInvStep, InitRows, RowsStep, PTL DEF Spec

-----------------------------------------------------------------------------
(* What a score is the sum of *)

\* The score a closed attempt has for its answers.
ScoreOf(rows) == IF Pending(rows) = {} THEN Total(rows) ELSE Null

Open == [status |-> "in_progress", score |-> Null]
Expired == [status |-> "expired", score |-> Null]

RowScored(row, rows) ==
    /\ row.status \in {"submitted", "graded"} => row.score = ScoreOf(rows)
    /\ row.status \in {"absent", "in_progress"} => row.score = Null

\* The attempt a student works on has no score yet, and is closed for the answers it has.
Taken(t, row, rows) ==
    /\ row.status \in {"in_progress", "expired"} /\ row.score = Null
    /\ t.pc \in {"loaded", "closing", "recording"} => t.loaded = Open
    /\ t.pc \in {"closing", "recording"} =>
         \/ t.new = Expired
         \/ t.new = [status |-> "submitted", score |-> ScoreOf(rows)]

\* The sweep scores nothing when it abandons.
Abandoned(t) ==
    /\ t.loaded = Open
    /\ t.pc \in {"closing", "recording"} => t.new = Expired

\* What a teacher's transaction has read of the answers and of the score still holds.
Marked(t, row, rows) ==
    /\ row.status \in ClosedStatus
    /\ t.row = rows[t.question]
    /\ t.pc \in {"closing", "recording"} =>
         /\ t.loaded.score = row.score
         /\ t.new.score = ScoreOf([rows EXCEPT ![t.question] = t.newRow])

Busy(t) == t.pc \notin {"idle", "gated"}

\* A student and a teacher are never at the same attempt.
Work ==
    /\ \A n \in Attempts : RowScored(attempt[n], answer[n])
    /\ \A p \in Sessions : Busy(tx[p]) => Taken(tx[p], attempt[tx[p].n], answer[tx[p].n])
    /\ \A p \in Sweepers : Busy(tx[p]) => Abandoned(tx[p]) /\ tx[p].n \in overdue
    /\ \A p \in Graders : Busy(tx[p]) => Marked(tx[p], attempt[tx[p].n], answer[tx[p].n])
    /\ \A p \in Sessions, g \in Graders : Busy(tx[p]) /\ Busy(tx[g]) => tx[p].n # tx[g].n

\* One request of the student and one of the teacher at a time, and a sweep that
\* abandons if there is one.
OneAtATime ==
    /\ \A p, q \in Sessions : p = q
    /\ \A p, q \in Graders : p = q
    /\ Sweepers = {} \/ Autoabandon

LEMMA InitWork == Init => Work
<1> SUFFICES ASSUME Init PROVE Work
  OBVIOUS
<1>1. \A n \in Attempts : attempt[n].status = "absent" /\ attempt[n].score = Null
  BY DEF Init, NoAttempt
<1>2. \A p \in Processes : tx[p].pc = "idle"
  BY DEF Init, Idle
<1>3. QED
  BY <1>1, <1>2 DEF Work, Processes, Busy, RowScored

\* A step of p that leaves t in its transaction.
LEMMA StepWork ==
  ASSUME IInv, Work, NEW p \in Processes, NEW t, Step(p, t), overdue' = overdue,
         \A n \in Attempts : RowScored(attempt'[n], answer'[n]),
         \A q \in Sessions \ {p} :
           Busy(tx[q]) => Taken(tx[q], attempt'[tx[q].n], answer'[tx[q].n]),
         \A q \in Graders \ {p} :
           Busy(tx[q]) => Marked(tx[q], attempt'[tx[q].n], answer'[tx[q].n]),
         p \in Sessions /\ Busy(t) =>
           /\ Taken(t, attempt'[t.n], answer'[t.n])
           /\ \A g \in Graders : Busy(tx[g]) => tx[g].n # t.n,
         p \in Sweepers /\ Busy(t) => Abandoned(t) /\ t.n \in overdue,
         p \in Graders /\ Busy(t) =>
           /\ Marked(t, attempt'[t.n], answer'[t.n])
           /\ \A s \in Sessions : Busy(tx[s]) => tx[s].n # t.n
  PROVE  Work'
<1>1. tx'[p] = t /\ \A q \in Processes \ {p} : tx'[q] = tx[q]
  BY DEF IInv, TxShape, Step
<1>2. \A q \in Sessions \cup Graders \cup Sweepers : q = p \/ tx'[q] = tx[q]
  BY <1>1 DEF Processes
<1>3. p \in Sessions => p \notin Graders
  BY ConstantsAssumption
<1>4. \A q \in Sessions : Busy(tx'[q]) => Taken(tx'[q], attempt'[tx'[q].n], answer'[tx'[q].n])
  BY <1>1, <1>2
<1>5. \A q \in Sweepers : Busy(tx'[q]) => Abandoned(tx'[q]) /\ tx'[q].n \in overdue'
  BY <1>1, <1>2 DEF Work
<1>6. \A q \in Graders : Busy(tx'[q]) => Marked(tx'[q], attempt'[tx'[q].n], answer'[tx'[q].n])
  BY <1>1, <1>2
<1>7. \A q \in Sessions, g \in Graders :
        Busy(tx'[q]) /\ Busy(tx'[g]) => tx'[q].n # tx'[g].n
  BY <1>1, <1>2, <1>3 DEF Work
<1>8. QED
  BY <1>4, <1>5, <1>6, <1>7 DEF Work

\* A step of p that reads.
LEMMA ReadWork ==
  ASSUME IInv, Work, NEW p \in Processes, NEW t, Step(p, t),
         UNCHANGED <<attempt, answer, overdue>>,
         p \in Sessions /\ Busy(t) =>
           /\ Taken(t, attempt[t.n], answer[t.n])
           /\ \A g \in Graders : Busy(tx[g]) => tx[g].n # t.n,
         p \in Sweepers /\ Busy(t) => Abandoned(t) /\ t.n \in overdue,
         p \in Graders /\ Busy(t) =>
           /\ Marked(t, attempt[t.n], answer[t.n])
           /\ \A s \in Sessions : Busy(tx[s]) => tx[s].n # t.n
  PROVE  Work'
<1>1. attempt' = attempt /\ answer' = answer
  OBVIOUS
<1>2. /\ \A n \in Attempts : RowScored(attempt'[n], answer'[n])
      /\ \A q \in Sessions :
           Busy(tx[q]) => Taken(tx[q], attempt'[tx[q].n], answer'[tx[q].n])
      /\ \A q \in Graders :
           Busy(tx[q]) => Marked(tx[q], attempt'[tx[q].n], answer'[tx[q].n])
  BY <1>1 DEF Work
<1>3. QED
  BY <1>1, <1>2, StepWork

\* A step that ends the transaction of p, which wrote its attempt at most.
LEMMA EndWork ==
  ASSUME IInv, Work, NEW p \in Processes, Step(p, Idle), overdue' = overdue,
         \A n \in Attempts : RowScored(attempt'[n], answer'[n]),
         \A n \in Attempts \ {tx[p].n} : attempt'[n] = attempt[n] /\ answer'[n] = answer[n],
         Rows,
         \A q \in Sessions \ {p} :
           Busy(tx[q]) /\ tx[q].n = tx[p].n
             => Taken(tx[q], attempt'[tx[q].n], answer'[tx[q].n]),
         \A q \in Graders \ {p} :
           Busy(tx[q]) /\ tx[q].n = tx[p].n
             => Marked(tx[q], attempt'[tx[q].n], answer'[tx[q].n])
  PROVE  Work'
<1>1. \A q \in Sessions \cup Graders : Busy(tx[q]) => tx[q].n \in Attempts
  BY DEF Rows, Busy, Processes
<1>2. ASSUME NEW q \in Sessions \ {p}, Busy(tx[q])
      PROVE  Taken(tx[q], attempt'[tx[q].n], answer'[tx[q].n])
  BY <1>1, <1>2 DEF Work
<1>3. ASSUME NEW q \in Graders \ {p}, Busy(tx[q])
      PROVE  Marked(tx[q], attempt'[tx[q].n], answer'[tx[q].n])
  BY <1>1, <1>3 DEF Work
<1>4. ~Busy(Idle)
  BY DEF Busy, Idle
<1>5. QED
  BY <1>2, <1>3, <1>4, StepWork
\* The commit of who closes or marks.
LEMMA CommitWork ==
  ASSUME IInv, Rows, Work, OneAtATime, NEW p \in Processes,
         tx[p].pc \in {"closing", "recording"}, Step(p, Idle), overdue' = overdue,
         attempt' = Flushed(p), answer' = FlushedAnswer(p)
  PROVE  Work'
<1> DEFINE t == tx[p]
           n == t.n
           new == Updated(attempt[n], t.loaded, t.new)
<1>1. /\ n \in Attempts /\ Busy(t)
      /\ attempt \in [Attempts -> RowType] /\ answer \in [Attempts -> Sheets]
      /\ t.loaded \in RowType /\ t.new \in RowType /\ attempt[n] \in RowType
  BY DEF Rows, Busy
<1>2. attempt' = [attempt EXCEPT ![n] = new]
  BY <1>1 DEF Flushed
<1>n. new = [status |-> IF t.new.status # t.loaded.status THEN t.new.status
                     ELSE attempt[n].status,
           score |-> IF t.new.score # t.loaded.score THEN t.new.score
                     ELSE attempt[n].score]
  <2> DEFINE row == attempt[n]
             old == t.loaded
             now == t.new
  <2>1. row \in RowType /\ old \in RowType /\ now \in RowType
    BY <1>1
  <2> HIDE DEF row, old, now
  <2>2. Updated(row, old, now) = [status |-> IF now.status # old.status THEN now.status ELSE row.status,
                                  score |-> IF now.score # old.score THEN now.score ELSE row.score]
    BY <2>1, UpdatedRow
  <2>3. QED
    BY <2>2 DEF row, old, now
<1> HIDE DEF new
<1>3. attempt'[n] = new /\ \A m \in Attempts \ {n} : attempt'[m] = attempt[m]
  BY <1>1, <1>2
<1>4. /\ new.status = IF t.new.status # t.loaded.status THEN t.new.status
                      ELSE attempt[n].status
      /\ new.score = IF t.new.score # t.loaded.score THEN t.new.score ELSE attempt[n].score
  BY <1>n
<1>5. \A m \in Attempts : RowScored(attempt[m], answer[m])
  BY DEF Work
<1>6. CASE p \in Sessions
  <2>1. Taken(t, attempt[n], answer[n]) /\ \A g \in Graders : Busy(tx[g]) => tx[g].n # n
    BY <1>1, <1>6 DEF Work
  <2>2. answer' = answer
    BY <1>6, ConstantsAssumption DEF FlushedAnswer, Marking
  <2>3. RowScored(new, answer[n])
    <3>1. CASE t.new = Expired
      BY <1>4, <2>1, <3>1 DEF Taken, Open, Expired, RowScored
    <3>2. CASE t.new = [status |-> "submitted", score |-> ScoreOf(answer[n])]
      BY <1>4, <2>1, <3>2 DEF Taken, Open, RowScored
    <3>3. QED
      BY <2>1, <3>1, <3>2 DEF Taken
  <2>4. \A m \in Attempts : RowScored(attempt'[m], answer'[m])
    BY <1>3, <1>5, <2>2, <2>3
  <2>5. Sessions \ {p} = {}
    BY <1>6 DEF OneAtATime
  <2>6. QED
    BY <1>3, <2>1, <2>2, <2>4, <2>5, EndWork
<1>7. CASE p \in Sweepers
  <2>1. Abandoned(t)
    BY <1>1, <1>7 DEF Work
  <2>2. answer' = answer
    BY <1>7, ConstantsAssumption DEF FlushedAnswer, Marking
  <2>3. new.status = "expired" /\ new.score = attempt[n].score
    BY <1>4, <2>1 DEF Abandoned, Open, Expired
  <2>4. \A m \in Attempts : RowScored(attempt'[m], answer'[m])
    BY <1>3, <1>5, <2>2, <2>3 DEF RowScored
  <2>5. ASSUME NEW q \in Sessions, Busy(tx[q]), tx[q].n = n
        PROVE  Taken(tx[q], attempt'[n], answer'[n])
    <3>1. Taken(tx[q], attempt[n], answer[n])
      BY <2>5 DEF Work
    <3>2. QED
      BY <1>3, <2>2, <2>3, <3>1 DEF Taken
  <2>6. ASSUME NEW q \in Graders, Busy(tx[q]), tx[q].n = n
        PROVE  Marked(tx[q], attempt'[n], answer'[n])
    <3>1. Marked(tx[q], attempt[n], answer[n])
      BY <2>6 DEF Work
    <3>2. QED
      BY <1>3, <2>2, <2>3, <3>1 DEF Marked, ClosedStatus
  <2>7. QED
    BY <1>3, <2>2, <2>4, <2>5, <2>6, EndWork
<1>8. CASE p \in Graders
  <2> DEFINE q == t.question
             sheet == [answer[n] EXCEPT ![q] = t.newRow]
  <2>1. Marked(t, attempt[n], answer[n]) /\ \A s \in Sessions : Busy(tx[s]) => tx[s].n # n
    BY <1>1, <1>8 DEF Work
  <2>2. q \in Questions /\ t.newRow \in AnswerType /\ t.row \in AnswerType
    BY <1>8 DEF Rows, Answering, Marking
  <2>3. answer' = [answer EXCEPT ![n] = sheet]
    <3>1. answer' = [answer EXCEPT ![n][q] = Updated(@, t.row, t.newRow)]
      BY <1>8 DEF FlushedAnswer, Marking
    <3>2. Updated(answer[n][q], t.row, t.newRow) = t.newRow
      BY <2>1, <2>2, UpdatedAnswer DEF Marked
    <3>3. QED
      BY <1>1, <2>2, <3>1, <3>2
  <2>4. answer'[n] = sheet /\ \A m \in Attempts \ {n} : answer'[m] = answer[m]
    BY <1>1, <2>3
  <2> HIDE DEF sheet
  <2>5. new.score = ScoreOf(sheet)
    BY <1>4, <2>1 DEF Marked, sheet
  <2>6. t.new.status \in ClosedStatus /\ new.status \in ClosedStatus
    <3>1. t.new.status \in ClosedStatus
      BY DEF IInv, Closers
    <3>2. QED
      BY <1>4, <2>1, <3>1 DEF Marked
  <2>7. RowScored(new, sheet)
    BY <2>5, <2>6 DEF RowScored, ClosedStatus
  <2>8. \A m \in Attempts : RowScored(attempt'[m], answer'[m])
    BY <1>3, <1>5, <2>4, <2>7
  <2>9. Graders \ {p} = {}
    BY <1>8 DEF OneAtATime
  <2>10. QED
    BY <1>3, <2>1, <2>4, <2>8, <2>9, EndWork
<1>9. QED
  BY <1>6, <1>7, <1>8 DEF Processes

LEMMA HandlerWork ==
  ASSUME IInv, Rows, Work, OneAtATime, NEW p \in Processes, Begin(p) \/ Continue(p)
  PROVE  Work'
<1> DEFINE t == tx[p]
<1>t. /\ DOMAIN t = TxFields /\ DOMAIN Idle = TxFields /\ ~Busy(Idle)
      /\ attempt \in [Attempts -> RowType] /\ answer \in [Attempts -> Sheets]
      /\ Role(p, t.pc) /\ (Busy(t) => t.n \in Attempts)
      /\ Answering(p) => t.question \in Questions
      /\ t.row \in AnswerType /\ t.newRow \in AnswerType
  BY DEF IInv, TxShape, Rows, Busy, Idle, TxFields
<1>r. /\ p \in Graders => p \notin Sessions \cup Sweepers
      /\ p \in Sweepers => p \notin Sessions
  BY ConstantsAssumption
<1>o. \A s \in Sessions, g \in Graders : s # g
  BY ConstantsAssumption
<1>a. /\ p \in Sessions /\ Busy(t) =>
           /\ Taken(t, attempt[t.n], answer[t.n])
           /\ \A g \in Graders : Busy(tx[g]) => tx[g].n # t.n
      /\ p \in Sweepers /\ Busy(t) => Abandoned(t) /\ t.n \in overdue
      /\ p \in Graders /\ Busy(t) =>
           /\ Marked(t, attempt[t.n], answer[t.n])
           /\ \A s \in Sessions : Busy(tx[s]) => tx[s].n # t.n
  BY DEF Work
\* Nobody marks an attempt in progress.
<1>b. ASSUME NEW n \in Attempts, attempt[n].status = "in_progress", NEW g \in Graders, Busy(tx[g])
      PROVE  tx[g].n # n
  BY <1>b DEF Work, Marked, ClosedStatus
\* Nobody takes one that is submitted.
<1>c. ASSUME NEW n \in Attempts, attempt[n].status \in {"submitted", "graded"},
             NEW s \in Sessions, Busy(tx[s])
      PROVE  tx[s].n # n
  BY <1>c DEF Work, Taken
<1>1. CASE StartGate(p)
  <2>1. ~Busy([Idle EXCEPT !.pc = "gated"])
    BY <1>t DEF Busy, TxFields
  <2>2. QED
    BY <1>1, <2>1, ReadWork DEF StartGate
<1>2. ASSUME NEW n \in Attempts, 
             \/ p \in Sessions /\ SubmitLoad(p, n)
             \/ p \in Sweepers /\ SweepLoad(p, n)
      PROVE  Work'
  <2> DEFINE u == [Idle EXCEPT !.pc = "loaded", !.n = n, !.loaded = attempt[n]]
  <2>1. CloseLoad(p, n) /\ (p \in Sweepers => n \in overdue)
    BY <1>2, <1>r DEF SubmitLoad, SweepLoad
  <2>2. u.pc = "loaded" /\ u.n = n /\ u.loaded = attempt[n]
    BY <1>t DEF TxFields
  <2>3. attempt[n] \in RowType /\ attempt[n].status = "in_progress" /\ attempt[n].score = Null
    BY <1>t, <2>1 DEF CloseLoad, Work, RowScored
  <2>4. attempt[n] = Open
    BY <2>3 DEF RowType, Open
  <2> HIDE DEF u
  <2>5. Taken(u, attempt[n], answer[n]) /\ Abandoned(u)
    BY <2>2, <2>3, <2>4 DEF Taken, Abandoned
  <2>6. Step(p, u) /\ UNCHANGED <<attempt, answer, overdue>>
    BY <2>1 DEF CloseLoad, u
  <2>7. QED
    BY <1>b, <1>r, <1>2, <2>1, <2>2, <2>3, <2>5, <2>6, ReadWork
<1>3. ASSUME NEW n \in Attempts, NEW q \in Questions, NEW c \in Options, p \in Sessions,
             AnswerLoad(p, n, q, c)
      PROVE  Work'
  <2> DEFINE u == [Idle EXCEPT !.pc = "answering", !.n = n, !.question = q,
                               !.newRow = [Unanswered EXCEPT !.choice = c]]
  <2>1. u.pc = "answering" /\ u.n = n
    BY <1>t DEF TxFields
  <2>2. attempt[n].status = "in_progress" /\ attempt[n].score = Null
    BY <1>3 DEF AnswerLoad, Work, RowScored
  <2>3. Step(p, u) /\ UNCHANGED <<attempt, answer, overdue>>
    BY <1>3 DEF AnswerLoad
  <2> HIDE DEF u
  <2>4. Taken(u, attempt[n], answer[n])
    BY <2>1, <2>2 DEF Taken
  <2>5. QED
    BY <1>b, <1>r, <1>3, <2>1, <2>2, <2>3, <2>4, ReadWork
<1>4. ASSUME NEW n \in Attempts, NEW q \in Questions, NEW k \in Marks, p \in Graders,
             MarkLoad(p, n, q, k)
      PROVE  Work'
  <2> DEFINE r == [answer[n][q] EXCEPT !.mark = k, !.points = k, !.pending = FALSE]
             u == [Idle EXCEPT !.pc = "marking", !.n = n, !.question = q, !.row = answer[n][q],
                               !.newRow = r]
  <2> HIDE DEF r
  <2>1. u.pc = "marking" /\ u.n = n /\ u.question = q /\ u.row = answer[n][q]
    BY <1>t DEF TxFields
  <2>2. attempt[n].status \in {"submitted", "graded"}
    BY <1>4 DEF MarkLoad, InQueue
  <2>3. Step(p, u) /\ UNCHANGED <<attempt, answer, overdue>>
    BY <1>4 DEF MarkLoad, r
  <2> HIDE DEF u
  <2>4. Marked(u, attempt[n], answer[n])
    BY <2>1, <2>2 DEF Marked, ClosedStatus
  <2>5. QED
    BY <1>c, <1>r, <1>4, <2>1, <2>2, <2>3, <2>4, ReadWork
<1>5. ASSUME NEW n \in Attempts, StartInsert(p, n) PROVE Work'
  <2>1. p \in Sessions
    BY <1>5, <1>t DEF StartInsert, At, Role, Processes
  <2>2. attempt[n].status = "absent"
    <3>1. PICK k \in 0 .. AttemptLimit : k <= MaxRows /\ Used = 1 .. k
      BY DEF IInv, Numbered
    <3>2. Cardinality(Used) = k /\ k \in Nat
      BY <3>1, UsedCount, ConstantsAssumption
    <3>3. n = k + 1
      BY <1>5, <3>2 DEF StartInsert
    <3>4. QED
      BY <3>1, <3>2, <3>3 DEF Used
  <2>3. /\ attempt' = [attempt EXCEPT ![n] = [status |-> "in_progress", score |-> Null]]
        /\ Step(p, Idle) /\ answer' = answer /\ overdue' = overdue
    BY <1>5 DEF StartInsert
  <2>4. /\ attempt'[n] = [status |-> "in_progress", score |-> Null]
        /\ \A m \in Attempts \ {n} : attempt'[m] = attempt[m]
    BY <1>t, <2>3
  <2>5. \A m \in Attempts : RowScored(attempt'[m], answer'[m])
    BY <2>3, <2>4 DEF Work, RowScored
  <2>6. \A q \in Sessions \cup Graders : Busy(tx[q]) => tx[q].n \in Attempts \ {n}
    <3>1. \A q \in Sessions : Busy(tx[q]) => tx[q].n # n
      BY <2>2 DEF Work, Taken
    <3>2. \A q \in Graders : Busy(tx[q]) => tx[q].n # n
      BY <2>2 DEF Work, Marked, ClosedStatus
    <3>3. QED
      BY <3>1, <3>2 DEF Rows, Busy, Processes
  <2>7. /\ \A q \in Sessions \ {p} :
             Busy(tx[q]) => Taken(tx[q], attempt'[tx[q].n], answer'[tx[q].n])
        /\ \A q \in Graders \ {p} :
             Busy(tx[q]) => Marked(tx[q], attempt'[tx[q].n], answer'[tx[q].n])
    BY <2>3, <2>4, <2>6 DEF Work
  <2>8. QED
    BY <1>t, <2>3, <2>5, <2>7, StepWork
<1>6. CASE StartRefused(p)
  BY <1>6, <1>t, ReadWork DEF StartRefused
<1>7. CASE AnswerRead(p)
  <2>1. PICK row, newRow : Step(p, [t EXCEPT !.pc = "saving", !.row = row, !.newRow = newRow])
    BY <1>7 DEF AnswerRead
  <2> DEFINE u == [t EXCEPT !.pc = "saving", !.row = row, !.newRow = newRow]
  <2>2. u.pc = "saving" /\ u.n = t.n
    BY <1>t DEF TxFields
  <2>3. p \in Sessions /\ Busy(t)
    BY <1>7, <1>t DEF AnswerRead, At, Role, Processes, Busy
  <2>4. Step(p, u) /\ UNCHANGED <<attempt, answer, overdue>>
    BY <1>7, <2>1 DEF AnswerRead
  <2> HIDE DEF u
  <2>5. Taken(u, attempt[t.n], answer[t.n])
    BY <1>a, <2>2, <2>3 DEF Taken
  <2>6. QED
    BY <1>a, <1>r, <2>2, <2>3, <2>4, <2>5, ReadWork
<1>8. CASE AnswerSave(p)
  <2>1. p \in Sessions /\ Busy(t)
    BY <1>8, <1>t DEF AnswerSave, At, Role, Processes, Busy
  <2>2. /\ Step(p, Idle) /\ attempt' = attempt /\ overdue' = overdue
        /\ \A m \in Attempts \ {t.n} : answer'[m] = answer[m]
    BY <1>8, <1>t DEF AnswerSave
  <2>3. attempt[t.n].status \in {"in_progress", "expired"}
    BY <1>a, <2>1 DEF Taken
  <2>4. \A m \in Attempts : RowScored(attempt'[m], answer'[m])
    BY <2>2, <2>3 DEF Work, RowScored
  <2>5. Sessions \ {p} = {}
    BY <2>1 DEF OneAtATime
  <2>6. QED
    BY <1>a, <2>1, <2>2, <2>4, <2>5, EndWork
<1>9. CASE CloseRead(p)
  <2> DEFINE rows == answer[t.n]
             new == IF t.n \in overdue /\ Autoabandon
                    THEN [t.loaded EXCEPT !.status = "expired"]
                    ELSE [status |-> "submitted",
                          score |-> IF Pending(rows) = {} THEN Total(rows) ELSE Null]
             u == [t EXCEPT !.pc = "closing", !.new = new]
  <2>1. t.pc = "loaded" /\ Busy(t) /\ p \in Sessions \cup Sweepers
    BY <1>9, <1>t DEF CloseRead, At, Role, Processes, Busy
  <2>2. t.loaded = Open
    BY <1>a, <2>1 DEF Taken, Abandoned
  <2>3. new = Expired \/ new = [status |-> "submitted", score |-> ScoreOf(rows)]
    BY <2>2 DEF Open, Expired, ScoreOf
  <2>4. p \in Sweepers => new = Expired
    BY <1>a, <2>1, <2>2 DEF OneAtATime, Open, Expired
  <2>5. Step(p, u) /\ UNCHANGED <<attempt, answer, overdue>>
    BY <1>9 DEF CloseRead
  <2> HIDE DEF new
  <2>6. u.pc = "closing" /\ u.n = t.n /\ u.loaded = t.loaded /\ u.new = new
    BY <1>t DEF TxFields
  <2> HIDE DEF u
  <2>7. p \in Sessions => Taken(u, attempt[t.n], answer[t.n])
    BY <1>a, <2>1, <2>2, <2>3, <2>6 DEF Taken
  <2>8. p \in Sweepers => Abandoned(u)
    BY <2>2, <2>4, <2>6 DEF Abandoned
  <2>9. QED
    BY <1>a, <1>r, <2>1, <2>5, <2>6, <2>7, <2>8, ReadWork
<1>10. CASE CloseUngraded(p)
  BY <1>10, CommitWork DEF CloseUngraded, At
<1>11. CASE CloseFlush(p)
  <2>1. PICK final : Step(p, [t EXCEPT !.pc = "recording", !.grade = grade, !.final = final])
    BY <1>11 DEF CloseFlush
  <2> DEFINE u == [t EXCEPT !.pc = "recording", !.grade = grade, !.final = final]
  <2>2. /\ u.pc = "recording" /\ u.n = t.n /\ u.loaded = t.loaded /\ u.new = t.new
        /\ u.question = t.question /\ u.row = t.row /\ u.newRow = t.newRow
    BY <1>t DEF TxFields
  <2>3. t.pc = "closing" /\ Busy(t)
    BY <1>11 DEF CloseFlush, At, Busy
  <2>4. Step(p, u) /\ UNCHANGED <<attempt, answer, overdue>>
    BY <1>11, <2>1 DEF CloseFlush
  <2> HIDE DEF u
  <2>5. p \in Sessions => Taken(u, attempt[t.n], answer[t.n])
    BY <1>a, <2>2, <2>3 DEF Taken
  <2>6. p \in Sweepers => Abandoned(u)
    BY <1>a, <2>2, <2>3 DEF Abandoned
  <2>7. p \in Graders => Marked(u, attempt[t.n], answer[t.n])
    BY <1>a, <2>2, <2>3 DEF Marked
  <2>8. QED
    BY <1>a, <2>2, <2>3, <2>4, <2>5, <2>6, <2>7, ReadWork
<1>12. CASE Record(p)
  <2>1. CASE UNCHANGED <<attempt, answer>>
    BY <1>12, <1>t, <2>1, ReadWork DEF Record
  <2>2. CASE attempt' = Flushed(p) /\ answer' = FlushedAnswer(p)
    BY <1>12, <2>2, CommitWork DEF Record, At
  <2>3. QED
    BY <1>12, <2>1, <2>2 DEF Record
<1>13. CASE MarkFlush(p)
  <2> DEFINE s == answer[t.n][t.question]
             stored == Updated(s, t.row, t.newRow)
             rows == [answer[t.n] EXCEPT ![t.question] = stored]
             seen == [rows EXCEPT ![t.question] = t.newRow]
             row == attempt[t.n]
             new == IF Pending(rows) = {} THEN [status |-> "graded", score |-> Total(seen)]
                    ELSE [row EXCEPT !.score = Null]
             u == [t EXCEPT !.pc = "closing", !.loaded = row, !.new = new]
             sheet == [answer[t.n] EXCEPT ![t.question] = t.newRow]
  <2>1. /\ t.pc = "marking" /\ Busy(t) /\ p \in Graders
        /\ t.n \in Attempts /\ t.question \in Questions
    BY <1>13, <1>t DEF MarkFlush, At, Role, Processes, Busy, Answering
  <2>2. row \in RowType /\ Marked(t, row, answer[t.n]) /\ answer[t.n] \in Sheets
    BY <1>a, <1>t, <2>1
  <2>3. stored = t.newRow
    BY <1>t, <2>2, UpdatedAnswer DEF Marked
  <2>4. Step(p, u) /\ UNCHANGED <<attempt, answer, overdue>>
    BY <1>13 DEF MarkFlush
  <2> HIDE DEF stored
  <2>5. rows = sheet /\ seen = sheet
    BY <2>2, <2>3 DEF Sheets
  <2> HIDE DEF rows, seen, sheet, row
  <2>6. new.score = ScoreOf(sheet)
    BY <2>2, <2>5 DEF ScoreOf, RowType
  <2> HIDE DEF new
  <2>7. /\ u.pc = "closing" /\ u.n = t.n /\ u.loaded = row /\ u.new = new
        /\ u.question = t.question /\ u.row = t.row /\ u.newRow = t.newRow
    BY <1>t DEF TxFields
  <2> HIDE DEF u
  <2>8. Marked(u, row, answer[t.n])
    BY <2>2, <2>6, <2>7 DEF Marked, sheet
  <2>9. QED
    BY <1>a, <1>r, <2>1, <2>4, <2>7, <2>8, ReadWork DEF row
<1>14. QED
  BY <1>1, <1>2, <1>3, <1>4, <1>5, <1>6, <1>7, <1>8, <1>9, <1>10, <1>11, <1>12, <1>13
  DEF Begin, Continue

LEMMA WorkStep == OneAtATime /\ IInv /\ Rows /\ Work /\ [Next]_vars => Work'
<1> SUFFICES ASSUME OneAtATime, IInv, Rows, Work, [Next]_vars PROVE Work'
  OBVIOUS
<1>1. CASE \E p \in Processes : Begin(p) \/ Continue(p)
  BY <1>1, HandlerWork
<1>2. CASE (\E n \in Attempts : DeadlinePasses(n)) \/ UNCHANGED vars
  <2>1. attempt' = attempt /\ answer' = answer /\ tx' = tx /\ overdue \subseteq overdue'
    BY <1>2 DEF DeadlinePasses, vars
  <2>2. QED
    BY <2>1 DEF Work
<1>3. QED
  BY <1>1, <1>2 DEF Next
\* A closed attempt has the score of its stored answers, marks and re-marks included,
\* and none while an answer waits to be marked.
THEOREM ScoredExactly ==
  ASSUME OneAtATime
  PROVE  Spec => [](\A n \in Attempts : Closed(n) => attempt[n].score = ScoreOf(answer[n]))
<1>1. IInv /\ Rows /\ Work /\ [Next]_vars => Work'
  BY WorkStep
<1>2. Work => \A n \in Attempts : Closed(n) => attempt[n].score = ScoreOf(answer[n])
  BY DEF Work, RowScored, Closed
<1>3. QED
  BY <1>1, <1>2, InitIInv, IInvStep, InitRows, RowsStep, InitWork, PTL DEF Spec

\* The sum that a closed attempt was given is still that of its answers.
THEOREM ScoreMatchesAnswersInvariant ==
  ASSUME OneAtATime
  PROVE  Spec => []ScoreMatchesAnswers
<1>1. (\A n \in Attempts : Closed(n) => attempt[n].score = ScoreOf(answer[n]))
        => ScoreMatchesAnswers
  BY DEF ScoreMatchesAnswers, ScoreOf
<1>2. QED
  BY <1>1, ScoredExactly, PTL

-----------------------------------------------------------------------------
(* Sums are numbers.  The induction over the questions is one on sets: a set  *)
(* of exceptions would have a least one.                                      *)

\* A set of finite sets has one that contains no other of them.
LEMMA LeastSet ==
  ASSUME NEW S, IsFiniteSet(S), NEW T \in SUBSET SUBSET S, T # {}
  PROVE  \E U \in T : \A V \in T : V \subseteq U => V = U
<1>1. T \subseteq FiniteSubsetsOf(S)
  BY FS_Subset DEF FiniteSubsetsOf
<1>2. \E U \in T : \A V \in T : <<V, U>> \notin StrictSubsetOrdering(S)
  BY <1>1, FS_StrictSubsetOrderingWellFounded, WFMin
<1>3. QED
  BY <1>2 DEF StrictSubsetOrdering

\* The element the folds of the library take first, and what they leave.
First(s) == CHOOSE x \in s : TRUE
Rest(s) == s \ {First(s)}

\* f is the recursive sum of w at s.
SumsAt(f, w, s) == f[s] = IF s = {} THEN 0 ELSE w[First(s)] + f[Rest(s)]

\* Taking the first element leaves a smaller set.
LEMMA RestOf ==
  ASSUME NEW Q, IsFiniteSet(Q), NEW s \in SUBSET Q, s # {}
  PROVE  /\ First(s) \in Q /\ Rest(s) \in SUBSET Q
         /\ Rest(s) \subseteq s /\ Rest(s) # s
         /\ Cardinality(s) \in Nat /\ Cardinality(Rest(s)) = Cardinality(s) - 1
<1>1. First(s) \in s
  BY DEF First
<1>2. IsFiniteSet(s)
  BY FS_Subset
<1>3. QED
  BY <1>1, <1>2, FS_RemoveElement, FS_CardinalityType DEF Rest

\* Sums of the small sets give sums of the sets with one element more.
LEMMA SumsExtend ==
  ASSUME NEW Q, IsFiniteSet(Q), NEW w \in [Q -> Nat], NEW n \in Nat,
         NEW g \in [SUBSET Q -> Nat],
         \A s \in SUBSET Q : Cardinality(s) <= n => SumsAt(g, w, s)
  PROVE  \E f \in [SUBSET Q -> Nat] :
            \A s \in SUBSET Q : Cardinality(s) <= n + 1 => SumsAt(f, w, s)
<1> DEFINE f == [s \in SUBSET Q |-> IF s = {} THEN 0 ELSE w[First(s)] + g[Rest(s)]]
<1>1. f \in [SUBSET Q -> Nat]
  BY RestOf
<1>2. ASSUME NEW s \in SUBSET Q, Cardinality(s) <= n + 1
      PROVE  SumsAt(f, w, s)
  <2>1. CASE s = {}
    BY <2>1 DEF SumsAt
  <2>2. CASE s # {}
    <3>1. /\ Rest(s) \in SUBSET Q /\ Cardinality(Rest(s)) <= n
      BY <1>2, <2>2, RestOf
    <3>2. g[Rest(s)] = f[Rest(s)]
      BY <3>1 DEF SumsAt
    <3>3. QED
      BY <2>2, <3>1, <3>2 DEF SumsAt
  <2>3. QED
    BY <2>1, <2>2
<1>3. QED
  BY <1>1, <1>2

\* Induction on a bounded number: K holds the numbers of which a fact holds.
LEMMA NumberInduction ==
  ASSUME NEW N \in Nat, NEW K, 0 \in K, \A n \in 0 .. N : n \in K => n + 1 \in K
  PROVE  N \in K
<1> DEFINE Missing == {1 .. n : n \in (0 .. N) \ K}
           All == 1 .. N
<1> SUFFICES ASSUME N \notin K PROVE FALSE
  OBVIOUS
<1>1. Missing # {}
  OBVIOUS
<1>2. Missing \in SUBSET SUBSET All
  OBVIOUS
<1>3. IsFiniteSet(All)
  BY FS_Interval
<1>4. PICK U \in Missing : \A V \in Missing : V \subseteq U => V = U
  <2> HIDE DEF Missing, All
  <2>1. QED
    BY <1>1, <1>2, <1>3, LeastSet
<1>5. PICK n \in (0 .. N) \ K : U = 1 .. n
  OBVIOUS
<1>6. n # 0 /\ n - 1 \in 0 .. N /\ (n - 1) + 1 = n
  BY <1>5
<1>7. 1 .. (n - 1) \in Missing
  BY <1>5, <1>6
<1>8. (1 .. (n - 1)) \subseteq U /\ 1 .. (n - 1) # U
  <2>1. n \in 1 .. n /\ n \notin 1 .. (n - 1)
    BY <1>6
  <2>2. QED
    BY <1>5, <1>6, <2>1
<1>9. QED
  BY <1>4, <1>7, <1>8

\* Induction on the subsets of a finite set, in the order of the folds.
LEMMA SetInduction ==
  ASSUME NEW Q, IsFiniteSet(Q), NEW K, {} \in K,
         \A s \in SUBSET Q : s # {} /\ Rest(s) \in K => s \in K
  PROVE  \A s \in SUBSET Q : s \in K
<1> DEFINE Missing == (SUBSET Q) \ K
<1> SUFFICES ASSUME Missing # {} PROVE FALSE
  OBVIOUS
<1>1. PICK U \in Missing : \A V \in Missing : V \subseteq U => V = U
  <2>1. Missing \in SUBSET SUBSET Q
    OBVIOUS
  <2> HIDE DEF Missing
  <2>2. QED
    BY <2>1, LeastSet
<1>2. U # {} /\ U \in SUBSET Q
  BY <1>1
<1>3. Rest(U) \in SUBSET Q /\ Rest(U) \subseteq U /\ Rest(U) # U
  BY <1>2, RestOf
<1>4. QED
  BY <1>1, <1>2, <1>3

\* Hence all sums exist.
LEMMA SumsExist ==
  ASSUME NEW Q, IsFiniteSet(Q), NEW w \in [Q -> Nat]
  PROVE  \E f \in [SUBSET Q -> Nat] : \A s \in SUBSET Q : SumsAt(f, w, s)
<1> DEFINE N == Cardinality(Q)
           Summed(n) == \E f \in [SUBSET Q -> Nat] :
                          \A s \in SUBSET Q : Cardinality(s) <= n => SumsAt(f, w, s)
           K == {n \in Nat : Summed(n)}
<1>1. N \in Nat /\ \A s \in SUBSET Q : Cardinality(s) \in Nat /\ Cardinality(s) <= N
  BY FS_CardinalityType, FS_Subset
<1>2. Summed(0)
  <2>1. [s \in SUBSET Q |-> 0] \in [SUBSET Q -> Nat]
    OBVIOUS
  <2>2. \A s \in SUBSET Q : Cardinality(s) <= 0 => s = {}
    BY <1>1, FS_EmptySet, FS_Subset
  <2>3. \A s \in SUBSET Q : s = {} => SumsAt([t \in SUBSET Q |-> 0], w, s)
    BY DEF SumsAt
  <2>4. QED
    BY <2>1, <2>2, <2>3
<1>3. \A n \in Nat : Summed(n) => Summed(n + 1)
  BY SumsExtend
<1>4. Summed(N)
  <2> HIDE DEF Summed, N
  <2>1. 0 \in K /\ \A n \in 0 .. N : n \in K => n + 1 \in K
    BY <1>1, <1>2, <1>3
  <2> HIDE DEF K
  <2>2. N \in K
    BY <1>1, <2>1, NumberInduction
  <2>3. QED
    BY <2>2 DEF K
<1>5. QED
  BY <1>1, <1>4

\* The sum the library defines is one of them.
LEMMA SumIsNatural ==
  ASSUME NEW Q, IsFiniteSet(Q), NEW w \in [Q -> Nat]
  PROVE  MapThenSumSet(LAMBDA q : w[q], Q) \in Nat
<1> DEFINE Rec(f) == f = [s \in SUBSET Q |-> IF s = {} THEN 0
                            ELSE w[CHOOSE x \in s : TRUE] + f[s \ {CHOOSE x \in s : TRUE}]]
           it == CHOOSE f : Rec(f)
           K == {s \in SUBSET Q : it[s] \in Nat}
<1>1. \E f : Rec(f)
  <2>1. PICK f \in [SUBSET Q -> Nat] : \A s \in SUBSET Q : SumsAt(f, w, s)
    BY SumsExist
  <2>2. Rec(f)
    BY <2>1 DEF SumsAt, First, Rest
  <2>3. QED
    BY <2>2
<1>2. Rec(it)
  BY <1>1
<1>3. \A s \in SUBSET Q : SumsAt(it, w, s)
  BY <1>2 DEF SumsAt, First, Rest
<1>4. it[Q] \in Nat
  <2> HIDE DEF it
  <2>1. {} \in K
    BY <1>3 DEF SumsAt
  <2>2. ASSUME NEW s \in SUBSET Q, s # {}, Rest(s) \in K
        PROVE  s \in K
    <3>1. it[s] = w[First(s)] + it[Rest(s)]
      BY <1>3, <2>2 DEF SumsAt
    <3>2. First(s) \in Q
      BY <2>2, RestOf
    <3>3. QED
      BY <2>2, <3>1, <3>2
  <2> HIDE DEF K
  <2>3. \A s \in SUBSET Q : s \in K
    BY <2>1, <2>2, SetInduction
  <2>4. QED
    BY <2>3 DEF K
<1>5. MapThenSumSet(LAMBDA q : w[q], Q) = it[Q]
  BY DEF MapThenSumSet, MapThenFoldSet
<1>6. QED
  BY <1>4, <1>5

\* A score is a number.
LEMMA TotalIsNatural ==
  ASSUME NEW rows, \A q \in Questions : rows[q].points \in Nat
  PROVE  Total(rows) \in Nat
<1> DEFINE w == [q \in Questions |-> rows[q].points]
<1>1. w \in [Questions -> Nat]
  OBVIOUS
<1>2. MapThenSumSet(LAMBDA q : w[q], Questions) \in Nat
  BY <1>1, SumIsNatural, ConstantsAssumption
<1>3. Total(rows) = MapThenSumSet(LAMBDA q : w[q], Questions)
  BY ZenonT(30) DEF Total, MapThenSumSet, MapThenFoldSet
<1>4. QED
  BY <1>2, <1>3
-----------------------------------------------------------------------------
\* Whoever answers or marks last, the attempt gets its score.
THEOREM ScoredOnceMarkedInvariant ==
  ASSUME OneAtATime
  PROVE  Spec => []ScoredOnceMarked
<1>1. IInv /\ Rows /\ Work /\ [Next]_vars => Work'
  BY WorkStep
<1>2. \A rows \in Sheets : Total(rows) # Null
  BY TotalIsNatural DEF Sheets, AnswerType, Null
<1>3. Rows /\ Work => ScoredOnceMarked
  BY <1>2 DEF Rows, Work, RowScored, ScoreOf, ScoredOnceMarked, Closed, AllMarked
<1>4. QED
  BY <1>1, <1>3, InitIInv, IInvStep, InitRows, RowsStep, InitWork, PTL DEF Spec
-----------------------------------------------------------------------------
(* The grade of record *)

LEMMA GradeRow ==
  ASSUME NEW S, NEW score
  PROVE  \E v, b, c : FinalGrade(S, score) = [value |-> v, based |-> b, counted |-> c]
<1>1. CASE S = {}
  BY <1>1 DEF FinalGrade, NoGrade
<1>2. CASE S # {}
  BY <1>2, Zenon DEF FinalGrade
<1>3. QED
  BY <1>1, <1>2

\* The gradebook's UPDATE of a row that has not changed since it was read.
LEMMA UpdatedGrade ==
  ASSUME NEW S, NEW score, NEW T, NEW points
  PROVE  Updated(FinalGrade(S, score), FinalGrade(S, score), FinalGrade(T, points))
           = FinalGrade(T, points)
<1>1. PICK v, b, c : FinalGrade(S, score) = [value |-> v, based |-> b, counted |-> c]
  BY GradeRow
<1>2. PICK w, d, e : FinalGrade(T, points) = [value |-> w, based |-> d, counted |-> e]
  BY GradeRow
<1>3. QED
  BY <1>1, <1>2 DEF Updated
Scores(rows) == [n \in Attempts |-> rows[n].score]
GradeOf(rows) == FinalGrade(Counted(rows), Scores(rows))
Flush(rows, t) == [rows EXCEPT ![t.n] = Updated(@, t.loaded, t.new)]

\* A transaction that closes an attempt; one about to write the grade knows the stored
\* one and has reduced the attempts as they will be.
Closing(t) ==
    /\ t.pc \in {"loaded", "closing", "recording"} => t.loaded = Open
    /\ t.pc \in {"closing", "recording"} => t.new.status = "submitted"

Recording(t, rows, stored) ==
    t.pc = "recording" =>
      /\ t.grade = stored /\ t.final = GradeOf(Flush(rows, t))
      /\ t.new.score # Null

\* The row lock on the one attempt makes whoever records the grade the only one to.
Recorded ==
    /\ grade = GradeOf(attempt)
    /\ \A n \in Attempts :
         /\ attempt[n].status \in {"absent", "in_progress"} => attempt[n].score = Null
         /\ attempt[n].status # "expired"
    /\ \A p \in Processes : Closing(tx[p]) /\ Recording(tx[p], attempt, grade)
    /\ \A p, q \in Processes : tx[p].pc = "recording" /\ tx[q].pc = "recording" => p = q

\* One attempt, closed by a submission or by a sweep that submits, and nobody to mark it.
OnlyClosed == Graders = {} /\ AttemptLimit = 1 /\ ~Autoabandon

LEMMA InitRecorded == Init => Recorded
<1> SUFFICES ASSUME Init PROVE Recorded
  OBVIOUS
<1>1. \A n \in Attempts : attempt[n].status = "absent" /\ attempt[n].score = Null
  BY DEF Init, NoAttempt
<1>2. Counted(attempt) = {}
  BY <1>1 DEF Counted
<1>3. grade = GradeOf(attempt)
  BY <1>2 DEF GradeOf, FinalGrade, Init
<1>4. \A p \in Processes : tx[p].pc = "idle"
  BY DEF Init, Idle
<1>5. QED
  BY <1>1, <1>3, <1>4 DEF Recorded, Closing, Recording

\* There is one attempt, and once it is there nobody opens another.
LEMMA OneAttempt ==
  ASSUME IInv, AttemptLimit = 1
  PROVE  /\ \A m, n \in Used : m = n
         /\ \A n \in Used, p \in Processes : tx[p].pc # "gated"
<1>1. PICK k \in 0 .. 1 : Used = 1 .. k
  BY DEF IInv, Numbered
<1>2. Cardinality(Used) = k
  BY <1>1, UsedCount
<1>3. \A p \in Processes : tx[p].pc = "gated" => k < 1
  BY <1>2 DEF IInv, Gate
<1>4. QED
  BY <1>1, <1>3

\* A step of p that neither closes nor records.
LEMMA ReadRecorded ==
  ASSUME IInv, Recorded, NEW p \in Processes, NEW t, Step(p, t), UNCHANGED <<attempt, grade>>,
         Closing(t), Recording(t, attempt, grade),
         t.pc = "recording" => \A q \in Processes : tx[q].pc # "recording"
  PROVE  Recorded'
<1>1. tx'[p] = t /\ \A q \in Processes \ {p} : tx'[q] = tx[q]
  BY DEF IInv, TxShape, Step
<1>2. attempt' = attempt /\ grade' = grade
  OBVIOUS
<1>3. \A q \in Processes : Closing(tx'[q]) /\ Recording(tx'[q], attempt', grade')
  BY <1>1, <1>2 DEF Recorded
<1>4. \A q, r \in Processes : tx'[q].pc = "recording" /\ tx'[r].pc = "recording" => q = r
  BY <1>1 DEF Recorded
<1>5. QED
  BY <1>2, <1>3, <1>4 DEF Recorded

\* A commit when nobody else is about to record.
LEMMA EndRecorded ==
  ASSUME IInv, Recorded, NEW p \in Processes, Step(p, Idle),
         grade' = GradeOf(attempt'),
         \A n \in Attempts :
           /\ attempt'[n].status \in {"absent", "in_progress"} => attempt'[n].score = Null
           /\ attempt'[n].status # "expired",
         \A q \in Processes \ {p} : tx[q].pc # "recording"
  PROVE  Recorded'
<1>1. tx'[p] = Idle /\ \A q \in Processes \ {p} : tx'[q] = tx[q]
  BY DEF IInv, TxShape, Step
<1>2. Idle.pc = "idle"
  BY DEF Idle
<1>3. \A q \in Processes : Closing(tx'[q]) /\ tx'[q].pc # "recording"
  BY <1>1, <1>2 DEF Recorded, Closing
<1>4. \A q \in Processes : Recording(tx'[q], attempt', grade')
  BY <1>3 DEF Recording
<1>5. QED
  BY <1>3, <1>4 DEF Recorded

LEMMA HandlerRecorded ==
  ASSUME OnlyClosed, IInv, Rows, Recorded, NEW p \in Processes, Begin(p) \/ Continue(p)
  PROVE  Recorded'
<1> DEFINE t == tx[p]
           new == Updated(attempt[t.n], t.loaded, t.new)
<1>t. /\ DOMAIN t = TxFields /\ DOMAIN Idle = TxFields /\ Idle.pc = "idle"
      /\ attempt \in [Attempts -> RowType]
      /\ t.pc \notin {"idle", "gated"} => t.n \in Attempts /\ attempt[t.n] \in RowType
      /\ t.loaded \in RowType /\ t.new \in RowType
  BY DEF IInv, TxShape, Rows, Idle, TxFields
<1>p. p \notin Graders /\ (p \in Sessions \cup Sweepers)
  BY DEF OnlyClosed, Processes
<1>r. Closing(t) /\ Recording(t, attempt, grade)
  BY DEF Recorded
<1>i. Closing(Idle) /\ Recording(Idle, attempt, grade)
  BY <1>t DEF Closing, Recording
\* What the commit of a closer leaves.
<1>f. ASSUME t.pc \in {"closing", "recording"}
      PROVE  /\ Flushed(p) = Flush(attempt, t)
             /\ \A m \in Attempts \ {t.n} : Flushed(p)[m] = attempt[m]
             /\ Flushed(p)[t.n].status = "submitted"
             /\ Flushed(p)[t.n].score = IF t.new.score # Null THEN t.new.score
                                        ELSE attempt[t.n].score
  <2>1. Flushed(p) = [attempt EXCEPT ![t.n] = new] /\ Flushed(p) = Flush(attempt, t)
    BY DEF Flushed, Flush
  <2>2. t.n \in Attempts /\ attempt[t.n] \in RowType
    BY <1>f, <1>t
  <2>3. t.loaded = Open /\ t.new.status = "submitted"
    BY <1>f, <1>r DEF Closing
  <2>4. new = [status |-> IF t.new.status # t.loaded.status THEN t.new.status
                          ELSE attempt[t.n].status,
               score |-> IF t.new.score # t.loaded.score THEN t.new.score
                         ELSE attempt[t.n].score]
    <3> DEFINE row == attempt[t.n]
               old == t.loaded
               now == t.new
    <3>1. row \in RowType /\ old \in RowType /\ now \in RowType
      BY <1>t, <2>2
    <3> HIDE DEF row, old, now
    <3>2. Updated(row, old, now) = [status |-> IF now.status # old.status THEN now.status ELSE row.status,
                                    score |-> IF now.score # old.score THEN now.score ELSE row.score]
      BY <3>1, UpdatedRow
    <3>3. QED
      BY <3>2 DEF row, old, now
  <2>5. new.status = "submitted"
        /\ new.score = IF t.new.score # Null THEN t.new.score ELSE attempt[t.n].score
    BY <2>3, <2>4 DEF Open
  <2> HIDE DEF new
  <2>6. QED
    BY <1>t, <2>1, <2>2, <2>5
\* The lock of whoever records.
<1>l. ASSUME t.pc = "closing", ~AttemptLocked(t.n)
      PROVE  \A q \in Processes : tx[q].pc # "recording"
  <2>1. t.n \in Used
    BY <1>l DEF IInv, Closers
  <2>2. \A q \in Processes : tx[q].pc = "recording" => tx[q].n = t.n
    BY <2>1, OneAttempt DEF IInv, Closers, OnlyClosed
  <2>3. QED
    BY <1>l, <2>2 DEF AttemptLocked
<1>1. ASSUME StartGate(p) PROVE Recorded'
  <2> DEFINE u == [Idle EXCEPT !.pc = "gated"]
  <2>1. u.pc = "gated"
    BY <1>t DEF TxFields
  <2> HIDE DEF u
  <2>2. Closing(u) /\ Recording(u, attempt, grade)
    BY <2>1 DEF Closing, Recording
  <2>3. QED
    BY <1>1, <2>1, <2>2, ReadRecorded DEF StartGate, u
<1>2. ASSUME NEW n \in Attempts, SubmitLoad(p, n) \/ SweepLoad(p, n) PROVE Recorded'
  <2> DEFINE u == [Idle EXCEPT !.pc = "loaded", !.n = n, !.loaded = attempt[n]]
  <2>1. CloseLoad(p, n)
    BY <1>2 DEF SubmitLoad, SweepLoad
  <2>2. attempt[n] \in RowType /\ attempt[n].status = "in_progress" /\ attempt[n].score = Null
    BY <1>t, <2>1 DEF CloseLoad, Recorded
  <2>3. u.pc = "loaded" /\ u.loaded = attempt[n]
    BY <1>t DEF TxFields
  <2>4. attempt[n] = Open
    BY <2>2 DEF RowType, Open
  <2> HIDE DEF u
  <2>5. Closing(u) /\ Recording(u, attempt, grade)
    BY <2>3, <2>4 DEF Closing, Recording
  <2>6. Step(p, u) /\ UNCHANGED <<attempt, grade>>
    BY <2>1 DEF CloseLoad, u
  <2>7. QED
    BY <2>3, <2>5, <2>6, ReadRecorded
<1>3. ASSUME NEW n \in Attempts, NEW q \in Questions, NEW c \in Options, AnswerLoad(p, n, q, c)
      PROVE Recorded'
  <2> DEFINE u == [Idle EXCEPT !.pc = "answering", !.n = n, !.question = q,
                               !.newRow = [Unanswered EXCEPT !.choice = c]]
  <2>1. u.pc = "answering"
    BY <1>t DEF TxFields
  <2>2. Step(p, u) /\ UNCHANGED <<attempt, grade>>
    BY <1>3 DEF AnswerLoad
  <2> HIDE DEF u
  <2>3. Closing(u) /\ Recording(u, attempt, grade)
    BY <2>1 DEF Closing, Recording
  <2>4. QED
    BY <2>1, <2>2, <2>3, ReadRecorded
<1>4. ASSUME NEW n \in Attempts, StartInsert(p, n) PROVE Recorded'
  <2>1. t.pc = "gated" /\ Step(p, Idle) /\ grade' = grade
        /\ attempt' = [attempt EXCEPT ![n] = [status |-> "in_progress", score |-> Null]]
    BY <1>4 DEF StartInsert, At
  <2>2. Used = {}
    BY <2>1, OneAttempt DEF OnlyClosed
  <2>3. attempt[n].status = "absent"
    BY <2>2 DEF Used
  <2>4. /\ attempt'[n].status = "in_progress" /\ attempt'[n].score = Null
        /\ \A m \in Attempts \ {n} : attempt'[m] = attempt[m]
    BY <1>t, <2>1
  <2>5. Counted(attempt') = Counted(attempt)
    BY <2>3, <2>4 DEF Counted
  <2>6. Scores(attempt') = Scores(attempt)
    BY <2>3, <2>4 DEF Scores, Recorded
  <2>7. grade' = GradeOf(attempt')
    BY <2>1, <2>5, <2>6 DEF Recorded, GradeOf
  <2>8. \A q \in Processes : tx[q].pc # "recording"
    BY <2>2 DEF IInv, Closers
  <2>9. \A m \in Attempts :
          /\ attempt'[m].status \in {"absent", "in_progress"} => attempt'[m].score = Null
          /\ attempt'[m].status # "expired"
    BY <2>4 DEF Recorded
  <2>10. QED
    BY <2>1, <2>7, <2>8, <2>9, EndRecorded
<1>5. CASE StartRefused(p) \/ AnswerSave(p)
  <2>1. Step(p, Idle) /\ UNCHANGED <<attempt, grade>>
    BY <1>5 DEF StartRefused, AnswerSave
  <2>2. QED
    BY <1>t, <1>i, <2>1, ReadRecorded
<1>6. CASE AnswerRead(p)
  <2>1. PICK row, newRow : Step(p, [t EXCEPT !.pc = "saving", !.row = row, !.newRow = newRow])
    BY <1>6 DEF AnswerRead
  <2> DEFINE u == [t EXCEPT !.pc = "saving", !.row = row, !.newRow = newRow]
  <2>2. u.pc = "saving"
    BY <1>t DEF TxFields
  <2>3. Step(p, u) /\ UNCHANGED <<attempt, grade>>
    BY <1>6, <2>1 DEF AnswerRead
  <2> HIDE DEF u
  <2>4. Closing(u) /\ Recording(u, attempt, grade)
    BY <2>2 DEF Closing, Recording
  <2>5. QED
    BY <2>2, <2>3, <2>4, ReadRecorded
<1>7. CASE CloseRead(p)
  <2> DEFINE rows == answer[t.n]
             closed == IF t.n \in overdue /\ Autoabandon
                       THEN [t.loaded EXCEPT !.status = "expired"]
                       ELSE [status |-> "submitted",
                             score |-> IF Pending(rows) = {} THEN Total(rows) ELSE Null]
             u == [t EXCEPT !.pc = "closing", !.new = closed]
  <2>1. closed.status = "submitted"
    BY DEF OnlyClosed
  <2>2. t.pc = "loaded" /\ Step(p, u) /\ UNCHANGED <<attempt, grade>>
    BY <1>7 DEF CloseRead, At
  <2> HIDE DEF closed
  <2>3. u.pc = "closing" /\ u.new = closed /\ u.loaded = t.loaded
    BY <1>t DEF TxFields
  <2> HIDE DEF u
  <2>4. Closing(u) /\ Recording(u, attempt, grade)
    BY <1>r, <2>1, <2>2, <2>3 DEF Closing, Recording
  <2>5. QED
    BY <2>2, <2>3, <2>4, ReadRecorded
<1>8. CASE CloseUngraded(p)
  <2>1. /\ t.pc = "closing" /\ ~Records(p) /\ Step(p, Idle)
        /\ attempt' = Flushed(p) /\ grade' = grade
        /\ (t.new # t.loaded => ~AttemptLocked(t.n))
    BY <1>8 DEF CloseUngraded, At
  <2>2. t.loaded = Open /\ t.new.status = "submitted"
    BY <1>r, <2>1 DEF Closing
  <2>3. t.new.score = Null /\ t.new # t.loaded
    BY <2>1, <2>2 DEF Records, Open
  <2>4. /\ \A m \in Attempts \ {t.n} : attempt'[m] = attempt[m]
        /\ attempt'[t.n].status = "submitted" /\ attempt'[t.n].score = attempt[t.n].score
    BY <1>f, <2>1, <2>3
  <2>5. t.n \in Used
    BY <2>1 DEF IInv, Closers
  <2>6. Scores(attempt') = Scores(attempt)
    BY <2>4 DEF Scores
  <2>7. attempt[t.n].status \in {"submitted", "graded"} \/ attempt[t.n].score = Null
    BY <2>5 DEF IInv, AttemptShape, Recorded, Used, AttemptStatus
  <2>8. Counted(attempt') = Counted(attempt)
    BY <2>4, <2>7 DEF Counted
  <2>9. grade' = GradeOf(attempt')
    BY <2>1, <2>6, <2>8 DEF Recorded, GradeOf
  <2>10. \A q \in Processes : tx[q].pc # "recording"
    BY <1>l, <2>1, <2>3
  <2>11. QED
    BY <2>1, <2>4, <2>9, <2>10, EndRecorded DEF Recorded
<1>9. CASE CloseFlush(p)
  <2> DEFINE rows == Flushed(p)
             scores == [n \in Attempts |-> IF n = t.n THEN t.new.score ELSE rows[n].score]
             final == FinalGrade(Counted(rows), scores)
             u == [t EXCEPT !.pc = "recording", !.grade = grade, !.final = final]
  <2>1. t.pc = "closing" /\ Records(p) /\ ~AttemptLocked(t.n)
        /\ Step(p, u) /\ UNCHANGED <<attempt, grade>>
    BY <1>9 DEF CloseFlush, At
  <2>2. t.new.score # Null
    BY <2>1 DEF Records
  <2> HIDE DEF rows
  <2>3. rows = Flush(attempt, t) /\ rows[t.n].score = t.new.score
    BY <1>f, <2>1, <2>2 DEF rows
  <2>4. scores = Scores(rows)
    BY <2>3 DEF Scores
  <2>5. final = GradeOf(Flush(attempt, t))
    BY <2>3, <2>4 DEF GradeOf
  <2> HIDE DEF final
  <2>6. /\ u.pc = "recording" /\ u.n = t.n /\ u.loaded = t.loaded /\ u.new = t.new
        /\ u.grade = grade /\ u.final = final
    BY <1>t DEF TxFields
  <2> HIDE DEF u
  <2>7. Flush(attempt, u) = Flush(attempt, t)
    BY <2>6 DEF Flush
  <2>8. Closing(u) /\ Recording(u, attempt, grade)
    BY <1>r, <2>1, <2>2, <2>5, <2>6, <2>7 DEF Closing, Recording
  <2>9. QED
    BY <1>l, <2>1, <2>8, ReadRecorded
<1>10. CASE Record(p)
  <2>1. t.pc = "recording" /\ t.grade = grade /\ t.final = GradeOf(Flush(attempt, t))
        /\ grade = GradeOf(attempt)
    BY <1>10, <1>r DEF Record, At, Recording, Recorded
  <2>2. Step(p, Idle) /\ attempt' = Flushed(p) /\ grade' = Updated(grade, t.grade, t.final)
    BY <1>10, <2>1 DEF Record
  <2>3. grade' = t.final
    BY <2>1, <2>2, UpdatedGrade DEF GradeOf
  <2>4. grade' = GradeOf(attempt')
    BY <1>f, <2>1, <2>2, <2>3
  <2>5. /\ \A m \in Attempts \ {t.n} : attempt'[m] = attempt[m]
        /\ attempt'[t.n].status = "submitted"
    BY <1>f, <2>1, <2>2
  <2>6. \A q \in Processes \ {p} : tx[q].pc # "recording"
    BY <2>1 DEF Recorded
  <2>7. QED
    BY <2>2, <2>4, <2>5, <2>6, EndRecorded DEF Recorded
<1>11. CASE MarkFlush(p)
  BY <1>11, <1>p DEF MarkFlush, At, Rows, Role
<1>12. QED
  BY <1>p, <1>1, <1>2, <1>3, <1>4, <1>5, <1>6, <1>7, <1>8, <1>9, <1>10, <1>11
  DEF Begin, Continue

LEMMA RecordedStep == OnlyClosed /\ IInv /\ Rows /\ Recorded /\ [Next]_vars => Recorded'
<1> SUFFICES ASSUME OnlyClosed, IInv, Rows, Recorded, [Next]_vars PROVE Recorded'
  OBVIOUS
<1>1. CASE \E p \in Processes : Begin(p) \/ Continue(p)
  BY <1>1, HandlerRecorded
<1>2. CASE (\E n \in Attempts : DeadlinePasses(n)) \/ UNCHANGED vars
  <2>1. attempt' = attempt /\ grade' = grade /\ tx' = tx
    BY <1>2 DEF DeadlinePasses, vars
  <2>2. QED
    BY <2>1 DEF Recorded
<1>3. QED
  BY <1>1, <1>2 DEF Next

\* Whichever of a submission, its duplicate and the sweep commits last, the gradebook row
\* is what the attempts reduce to, for every method of grading.
THEOREM GradebookMatchesAttemptsInvariant ==
  ASSUME OnlyClosed
  PROVE  Spec => []GradebookMatchesAttempts
<1>1. IInv /\ Rows /\ Recorded /\ [Next]_vars => Recorded'
  BY RecordedStep
<1>2. Recorded => GradebookMatchesAttempts
  BY DEF Recorded, GradebookMatchesAttempts, GradeOf, Scores
<1>3. QED
  BY <1>1, <1>2, InitIInv, IInvStep, InitRows, RowsStep, InitRecorded, PTL DEF Spec
-----------------------------------------------------------------------------
(* The rows of attempts are the ledger they promise *)

\* A flush writes a status that was loaded or a closed one.
LEMMA FlushedPhase ==
  ASSUME IInv, NEW p \in Processes, tx[p].pc \in {"closing", "recording"}
  PROVE  /\ tx[p].n \in Attempts /\ DOMAIN Flushed(p) = Attempts
         /\ \A m \in Attempts \ {tx[p].n} : Flushed(p)[m] = attempt[m]
         /\ attempt[tx[p].n].status # "absent"
         /\ Flushed(p)[tx[p].n].status \in {attempt[tx[p].n].status} \cup ClosedStatus
<1>1. /\ tx[p].n \in Used /\ tx[p].new.status \in ClosedStatus
      /\ DOMAIN attempt = Attempts /\ DOMAIN attempt[tx[p].n] = RowFields
  BY DEF IInv, Closers, AttemptShape, Used
<1>2. tx[p].n \in Attempts /\ attempt[tx[p].n].status # "absent"
  BY <1>1 DEF Used
<1>3. Flushed(p) = [attempt EXCEPT ![tx[p].n] = Updated(attempt[tx[p].n], tx[p].loaded, tx[p].new)]
  BY DEF Flushed
<1>4. Updated(attempt[tx[p].n], tx[p].loaded, tx[p].new).status
        \in {attempt[tx[p].n].status, tx[p].new.status}
  BY <1>1 DEF Updated, RowFields
<1>5. QED
  BY <1>1, <1>2, <1>3, <1>4

\* A close, and a mark of what is closed.
LEMMA FlushLedger ==
  ASSUME IInv, NEW p \in Processes, tx[p].pc \in {"closing", "recording"}, attempt' = Flushed(p)
  PROVE  [Ledger!Next]_[n \in Attempts |-> Phase(n)]
<1> DEFINE phase == [m \in Attempts |-> Phase(m)]
<1>1. PICK n \in Attempts :
        /\ attempt[n].status # "absent"
        /\ attempt'[n].status \in {attempt[n].status} \cup ClosedStatus
        /\ \A m \in Attempts \ {n} : attempt'[m] = attempt[m]
  BY FlushedPhase
<1>2. \A m \in Attempts \ {n} : Phase(m)' = Phase(m)
  BY <1>1 DEF Phase
<1>3. CASE Phase(n)' = Phase(n)
  <2>1. phase' = phase
    BY <1>2, <1>3
  <2>2. QED
    BY <2>1
<1>4. CASE Phase(n)' # Phase(n)
  <2>1. Phase(n) = "open" /\ Phase(n)' = "closed"
    BY <1>1, <1>4 DEF Phase, ClosedStatus
  <2>2. phase' = [phase EXCEPT ![n] = "closed"] /\ phase[n] = "open"
    BY <1>1, <1>2, <2>1
  <2>3. Ledger!Close(n)
    BY <2>2 DEF Ledger!Close
  <2>4. QED
    BY <1>1, <2>3 DEF Ledger!Next
<1>5. QED
  BY <1>3, <1>4

\* The next number, while the quiz row is held.
LEMMA StartLedger ==
  ASSUME IInv, NEW p \in Processes, NEW n \in Attempts, StartInsert(p, n)
  PROVE  Ledger!Next
<1> DEFINE phase == [m \in Attempts |-> Phase(m)]
<1>1. PICK k \in 0 .. AttemptLimit : k <= MaxRows /\ Used = 1 .. k
  BY DEF IInv, Numbered
<1>2. /\ tx[p].pc = "gated" /\ Active = {} /\ n = k + 1
      /\ attempt' = [attempt EXCEPT ![n] = [status |-> "in_progress", score |-> Null]]
  BY <1>1, UsedCount, ConstantsAssumption DEF StartInsert, At
<1>3. n <= AttemptLimit
  BY <1>1, <1>2, UsedCount, ConstantsAssumption DEF IInv, Gate
<1>4. attempt[n].status = "absent"
  BY <1>1, <1>2 DEF Used
<1>5. \A m \in Attempts : m < n => Phase(m) = "closed"
  <2>1. \A m \in Attempts : m < n => m \in Used /\ m \notin Active
    BY <1>1, <1>2 DEF Attempts
  <2>2. QED
    BY <2>1 DEF Phase, Used, Active
<1>6. /\ DOMAIN attempt = Attempts
      /\ attempt'[n].status = "in_progress" /\ \A m \in Attempts \ {n} : attempt'[m] = attempt[m]
  BY <1>2 DEF IInv, AttemptShape
<1>7. phase[n] = "none" /\ phase' = [phase EXCEPT ![n] = "open"]
  BY <1>4, <1>6 DEF Phase
<1>8. Ledger!Open(n)
  BY <1>3, <1>5, <1>7 DEF Ledger!Open
<1>9. QED
  BY <1>8 DEF Ledger!Next

\* Every step of the handlers is a step of the ledger or none.
LEMMA LedgerStep ==
  IInv /\ [Next]_vars => [Ledger!Next]_[n \in Attempts |-> Phase(n)]
<1> SUFFICES ASSUME IInv, [Next]_vars
             PROVE  [Ledger!Next]_[n \in Attempts |-> Phase(n)]
  OBVIOUS
<1>1. CASE attempt' = attempt
  <2>1. \A n \in Attempts : Phase(n)' = Phase(n)
    BY <1>1 DEF Phase
  <2>2. QED
    BY <2>1
<1>2. ASSUME NEW p \in Processes, CloseUngraded(p) \/ Record(p), attempt' # attempt
      PROVE  [Ledger!Next]_[n \in Attempts |-> Phase(n)]
  <2>1. tx[p].pc \in {"closing", "recording"} /\ attempt' = Flushed(p)
    BY <1>2 DEF CloseUngraded, Record, At
  <2>2. QED
    BY <2>1, FlushLedger
<1>3. ASSUME NEW p \in Processes, NEW n \in Attempts, StartInsert(p, n)
      PROVE  [Ledger!Next]_[m \in Attempts |-> Phase(m)]
  BY <1>3, StartLedger
<1>4. \/ attempt' = attempt
      \/ \E p \in Processes : CloseUngraded(p) \/ Record(p)
      \/ \E p \in Processes, n \in Attempts : StartInsert(p, n)
  BY ZenonT(30)
  DEF Next, Begin, Continue, StartGate, SubmitLoad, SweepLoad, CloseLoad, AnswerLoad, MarkLoad,
      StartRefused, AnswerRead, AnswerSave, CloseRead, CloseFlush, MarkFlush, DeadlinePasses, vars
<1>5. QED
  BY <1>1, <1>2, <1>3, <1>4

\* Attempts are opened in order, one at a time and within the limit, and what is closed
\* stays closed, whatever the transactions had loaded.
THEOREM AttemptsRefinement == Spec => AttemptsSpec
<1>1. Init => Ledger!Init
  BY DEF Init, Ledger!Init, Phase, NoAttempt
<1>2. IInv /\ [Next]_vars => [Ledger!Next]_[n \in Attempts |-> Phase(n)]
  BY LedgerStep
<1>3. QED
  BY <1>1, <1>2, InitIInv, IInvStep, PTL DEF Spec, AttemptsSpec, Ledger!Spec
=============================================================================
