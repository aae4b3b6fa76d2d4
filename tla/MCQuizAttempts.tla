--------------------------- MODULE MCQuizAttempts ---------------------------
(* One question with one option, and three states of the quiz: ungraded with
   one attempt allowed, graded without a limit, and a draft whose question
   has no right option. *)
EXTENDS QuizAttempts, TLC

CONSTANTS q1, o1

OneQuestion == {q1}

OneOption == {o1}

Version(isOpen, max, pass, key) ==
  [open |-> isOpen, limit |-> max, threshold |-> pass,
   paper |-> [q \in OneQuestion |-> [active |-> TRUE, offered |-> OneOption, right |-> key]]]

QuizVersions ==
  {Version(TRUE, 1, None, {o1}), Version(TRUE, None, 100, {o1}), Version(FALSE, None, 100, {})}

Symmetry == Permutations(Tx) \cup Permutations(Attempts) \cup Permutations(Enrollments)

=============================================================================
