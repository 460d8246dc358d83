--------------------------------- MODULE Marks ---------------------------------
(***************************************************************************)
(* What a button with a number on it promises: a subject marks an object or *)
(* not (an account likes an article, a list holds one, an account likes a   *)
(* comment), and the number on an object is how many have marked it.        *)
(***************************************************************************)
EXTENDS Naturals, FiniteSets

CONSTANTS Subjects, Objects

VARIABLES
  marks,   \* pairs of a subject and an object
  count    \* the number kept with each object

vars == <<marks, count>>

Init ==
  /\ marks = {}
  /\ count = [o \in Objects |-> 0]

Add(s, o) ==
  /\ <<s, o>> \notin marks
  /\ marks' = marks \cup {<<s, o>>}
  /\ count' = [count EXCEPT ![o] = @ + 1]

Remove(s, o) ==
  /\ <<s, o>> \in marks
  /\ marks' = marks \ {<<s, o>>}
  /\ count' = [count EXCEPT ![o] = @ - 1]

(* A subject or an object goes, and its marks with it. *)
SubjectGoes(s) ==
  /\ marks' = marks \ ({s} \X Objects)
  /\ count' = [o \in Objects |-> IF <<s, o>> \in marks THEN count[o] - 1 ELSE count[o]]

ObjectGoes(o) ==
  /\ marks' = marks \ (Subjects \X {o})
  /\ count' = [count EXCEPT ![o] = 0]

Next ==
  \/ \E s \in Subjects, o \in Objects : Add(s, o) \/ Remove(s, o)
  \/ \E s \in Subjects : SubjectGoes(s)
  \/ \E o \in Objects : ObjectGoes(o)

Spec == Init /\ [][Next]_vars
=============================================================================
