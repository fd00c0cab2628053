----------------------------- MODULE Questions -----------------------------
(***************************************************************************)
(* The questions of one quiz, changed by the staff                          *)
(* (src/app/routers/assessments_admin.py) and graded for a student          *)
(* (src/app/services/quiz_grading.py, called by submit_quiz and by          *)
(* quiz_submit of API v1).                                                  *)
(*                                                                          *)
(* Every change asks for an unpublished quiz when it begins and is written  *)
(* when it commits; nothing is locked in between.  A question has no text    *)
(* here, and an answer is right or not: only points and membership matter   *)
(* to grading.  QuizAttempts has the life of attempts; here there is one.    *)
(***************************************************************************)
EXTENDS Integers, FiniteSets, FiniteSetsExt

CONSTANTS
    Question,   \* IDs, in the order in which they are given out
    Points,     \* weights of questions
    Teacher     \* requests of the staff

\* Asserted by the modules that instantiate this one.
QuestionsAssumption ==
    /\ Question \subseteq Nat \ {0} /\ IsFiniteSet(Question)
    /\ Points \subseteq Nat \ {0} /\ 1 \in Points

VARIABLES
    on,         \* Quiz.published
    paper,      \* Question rows with the points of their QuizQuestionSetting, 0 for none
    used,       \* IDs that were given out
    attempt,    \* the student's attempt
    disturbed,  \* history: since the attempt began the quiz was off, or was changed by a
                \* request that had found it off
    edit        \* requests of the staff

vars == <<on, paper, used, attempt, disturbed, edit>>

Idle  == [pc |-> "idle"]
Edits == [pc : {"add", "weigh", "delete", "toggle"}, question : Question \cup {0}, points : Points,
          sawOn : BOOLEAN]

\* "full" and "worth" are the paper's points, and those of the right answers, at
\* the beginning; "total" and "score" are what the grading wrote.
NoAttempt == [is |-> "none", right |-> {}, full |-> 0, worth |-> 0, score |-> 0, total |-> 0]

Rows == {q \in Question : paper[q] > 0}

\* total_points, and the sums of grade_answers: an answer to a question that is
\* no longer there counts for nothing.
Sum(p, some) == MapThenSumSet(LAMBDA q : p[q], some)
TotalPoints  == Sum(paper, Rows)
Score(right) == Sum(paper, Rows \cap right)

\* create_mock_exam takes as many items of the bank as it was asked for.
MockPaper == {p \in [Question -> Points \cup {0}] :
                \E n \in Question : \A q \in Question : p[q] > 0 <=> q <= n}

\* A quiz is made off, and empty (add_quiz) or as a mock exam.
Init ==
    /\ on = FALSE
    /\ paper \in {[q \in Question |-> 0]} \cup MockPaper /\ used = Rows
    /\ attempt = NoAttempt /\ disturbed = FALSE
    /\ edit = [t \in Teacher |-> Idle]

-----------------------------------------------------------------------------
(* The staff *)

Ask(t, kind, q, points) ==
    /\ edit[t] = Idle
    /\ edit' = [edit EXCEPT ![t] = [pc |-> kind, question |-> q, points |-> points, sawOn |-> on]]
    /\ UNCHANGED <<on, paper, used, attempt, disturbed>>

\* add_question: one point
AskAdd(t) == ~on /\ Ask(t, "add", 0, 1)

\* use_bank_item: the item's points
AskUse(t, points) == ~on /\ Ask(t, "add", 0, points)

\* Mutant of AskWeigh: points may be changed while the quiz is published.
AskWeighAnytime(t, q, points) == q \in Rows /\ Ask(t, "weigh", q, points)

\* update_question_meta
AskWeigh(t, q, points) == ~on /\ q \in Rows /\ Ask(t, "weigh", q, points)

\* delete_question
AskDelete(t, q) == ~on /\ q \in Rows /\ Ask(t, "delete", q, 1)

\* toggle_quiz: a quiz without questions is not published.
AskToggle(t) == (on \/ Rows # {}) /\ Ask(t, "toggle", 0, 1)

\* The row is written, if it is still there; the flag is the negation of what
\* was read.  Points of a question that has gone make the request fail.
Commit(t) ==
    LET e == edit[t] IN
    /\ e # Idle
    /\ CASE e.pc = "add" ->
              \E q \in Question \ used :
                  /\ \A k \in Question \ used : q <= k
                  /\ paper' = [paper EXCEPT ![q] = e.points]
                  /\ used' = used \cup {q} /\ UNCHANGED on
         [] e.pc = "weigh" -> /\ e.question \in Rows
                              /\ paper' = [paper EXCEPT ![e.question] = e.points]
                              /\ UNCHANGED <<on, used>>
         [] e.pc = "delete" -> /\ paper' = [paper EXCEPT ![e.question] = 0]
                               /\ UNCHANGED <<on, used>>
         [] e.pc = "toggle" -> on' = ~e.sawOn /\ UNCHANGED <<paper, used>>
    /\ disturbed' = (\/ disturbed
                     \/ /\ attempt.is \in {"open", "grading"}
                        /\ ~on' \/ (e.pc # "toggle" /\ ~e.sawOn))
    /\ edit' = [edit EXCEPT ![t] = Idle]
    /\ UNCHANGED attempt

Abort(t) ==
    /\ edit[t] # Idle
    /\ edit' = [edit EXCEPT ![t] = Idle]
    /\ UNCHANGED <<on, paper, used, attempt, disturbed>>

-----------------------------------------------------------------------------
(* The student *)

\* quiz_page, quiz_attempt: the attempt is made with the points of the moment.
Start(right) ==
    /\ attempt.is = "none" /\ on /\ right \subseteq Rows
    /\ attempt' = [NoAttempt EXCEPT !.is = "open", !.right = right,
                                    !.full = TotalPoints, !.worth = Score(right)]
    /\ disturbed' = FALSE
    /\ UNCHANGED <<on, paper, used, edit>>

\* submit_quiz, quiz_submit: the flag, then the questions and their points
Submit ==
    /\ attempt.is = "open" /\ on
    /\ attempt' = [attempt EXCEPT !.is = "grading"]
    /\ UNCHANGED <<on, paper, used, disturbed, edit>>

GradeAnswers ==
    /\ attempt.is = "grading"
    /\ attempt' = [attempt EXCEPT !.is = "graded", !.score = Score(attempt.right),
                                  !.total = TotalPoints]
    /\ UNCHANGED <<on, paper, used, disturbed, edit>>

Next ==
    \/ \E t \in Teacher :
          \/ AskAdd(t)
          \/ \E points \in Points : AskUse(t, points) \/ \E q \in Question : AskWeigh(t, q, points)
          \/ \E q \in Question : AskDelete(t, q)
          \/ AskToggle(t) \/ Commit(t) \/ Abort(t)
    \/ \E right \in SUBSET Question : Start(right)
    \/ Submit \/ GradeAnswers

Spec == Init /\ [][Next]_vars
-----------------------------------------------------------------------------
(* Properties *)

\* Types.  No score exceeds the total it was computed with.
QuestionsTypeOK ==
    /\ on \in BOOLEAN /\ disturbed \in BOOLEAN
    /\ paper \in [Question -> Points \cup {0}] /\ Rows \subseteq used /\ used \subseteq Question
    /\ attempt \in [is : {"none", "open", "grading", "graded"}, right : SUBSET Question,
                    full : Nat, worth : Nat, score : Nat, total : Nat]
    /\ attempt.score <= attempt.total
    /\ \A t \in Teacher : edit[t] = Idle \/ edit[t] \in Edits

\* A student is graded by the paper that was handed out, question for question
\* and point for point: all six requests that change a quiz refuse a published
\* one ("stop publishing before ...", assessments_admin.py:89).  It takes a quiz
\* that is taken off during the attempt, or a change that found it off and is
\* written after it went on.
GradedAsHandedOut ==
    attempt.is = "graded" /\ ~disturbed =>
        attempt.score = attempt.worth /\ attempt.total = attempt.full
=============================================================================
