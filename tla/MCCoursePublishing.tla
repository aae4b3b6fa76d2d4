-------------------------- MODULE MCCoursePublishing --------------------------
(* Two courses that show two quizzes in opposite orders; the first one also has a video.  Any part
   of the first is published, the second as a whole (WholeB).  The
   number of granular changes in a behaviour is bounded by MaxChanges. *)
EXTENDS CoursePublishing, TLC

CONSTANTS MaxChanges, A, B, a1, b1, lessonA1, lessonA2, videoA, lessonB1, lessonB2, video

VARIABLE changes

CourseOf1 == (a1 :> A) @@ (b1 :> B)

SectionOf1 == (lessonA1 :> a1) @@ (lessonA2 :> a1) @@ (videoA :> a1) @@ (lessonB1 :> b1) @@ (lessonB2 :> b1)

ContentOf1 == (lessonA1 :> 1) @@ (lessonA2 :> 2) @@ (videoA :> video) @@ (lessonB1 :> 2) @@ (lessonB2 :> 1)

\* The quizzes have been authored, the video may still be prepared.
MCInit == Init /\ changes = 0 /\ \A q \in Quizzes : quiz[q].valid

\* The selections of the second course are whole: all its lessons and their section.
WholeB(t) ==
  pc[t] = "idle" /\ pc'[t] = "claim" /\ op'[t].course = B =>
    op'[t].sections = SectionsOf(B) /\ op'[t].lessons = LessonsOf(B)

MCNext ==
  \/ (\E t \in Tx : Serve(t) /\ WholeB(t)) /\ UNCHANGED changes
  \/ Change /\ changes < MaxChanges /\ changes' = changes + 1

MCSpec == MCInit /\ [][MCNext]_<<vars, changes>>

Symmetry == Permutations(Tx)

=============================================================================
