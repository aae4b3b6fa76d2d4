\* Two requests at a time, two courses that share two quizzes, and one
\* granular change.
CONSTANTS
  Tx = {t1, t2}
  A = A
  B = B
  a1 = a1
  b1 = b1
  lessonA1 = lessonA1
  lessonA2 = lessonA2
  videoA = videoA
  lessonB1 = lessonB1
  lessonB2 = lessonB2
  video = video
  Courses = {A, B}
  Sections = {a1, b1}
  Lessons = {lessonA1, lessonA2, videoA, lessonB1, lessonB2}
  Quizzes = {1, 2}
  Media = {video}
  NoTx = NoTx
  CourseOf <- CourseOf1
  SectionOf <- SectionOf1
  ContentOf <- ContentOf1
  MaxChanges = 1
\* The bounded changes run out.
CHECK_DEADLOCK FALSE
SPECIFICATION MCSpec
SYMMETRY Symmetry
INVARIANTS
  PublishedQuizzesAreValid
  PublishedMediaIsReady
  NoMutualWait
PROPERTIES
  SelectionIsExact
  FirstPublishOnly
