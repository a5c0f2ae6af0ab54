------------------------------- MODULE Strict -------------------------------
(***************************************************************************)
(* A fold one step after the other.  A step is a function of the value so  *)
(* far that gives a function of the next element: TLC computes a           *)
(* function's arguments once, where it computes an operator's anew at each *)
(* use.  The steps are not nested in each other, as those of the community *)
(* modules' folds are, too deep for computations as long as the ones here. *)
(***************************************************************************)
EXTENDS Integers, Sequences

Walk(step, first, s) ==
  LET value[k \in 0..Len(s)] == IF k = 0 THEN first ELSE step[value[k - 1]][s[k]]
  IN value[Len(s)]

(* step[... step[step[first][s[1]]][s[2]] ...][s[Len(s)]], twelve at a time. *)
Piece(s, j) == SubSeq(s, 12 * j - 11, IF 12 * j < Len(s) THEN 12 * j ELSE Len(s))
Along(step, first, s) ==
  LET upTo[j \in 0..((Len(s) + 11) \div 12)] ==
        IF j = 0 THEN first
        ELSE CHOOSE y \in {Walk(step, x, piece) : x \in {upTo[j - 1]}, piece \in {Piece(s, j)}} : TRUE
  IN upTo[(Len(s) + 11) \div 12]
=============================================================================
