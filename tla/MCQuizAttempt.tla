---------------------------- MODULE MCQuizAttempt ----------------------------
(* The instance of QuizAttempt for TLC in which nobody marks. *)
EXTENDS QuizAttempt

UnmarkedNext ==
    \/ \E p \in Sessions :
         \/ StartGate(p) \/ StartRefused(p) \/ AnswerRead(p) \/ AnswerSave(p)
         \/ \E n \in Attempts :
              \/ StartInsert(p, n) \/ SubmitLoad(p, n)
              \/ \E q \in Questions, c \in Options : AnswerLoad(p, n, q, c)
    \/ \E p \in Sweepers, n \in Attempts : SweepLoad(p, n)
    \/ \E p \in Sessions \cup Sweepers :
         CloseRead(p) \/ CloseUngraded(p) \/ CloseFlush(p) \/ Record(p)
    \/ \E n \in Attempts : DeadlinePasses(n)

Unmarked == Init /\ [][UnmarkedNext]_vars /\ Fairness
=============================================================================
