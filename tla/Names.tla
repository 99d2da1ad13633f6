-------------------------------- MODULE Names --------------------------------
(***************************************************************************)
(* Display names: sanitizeName of internal/domain/room.go and the          *)
(* truncation that follows it in Join and UpdateName.  A name is a         *)
(* sequence of runes; a rune stands for its class in the function's tests. *)
(***************************************************************************)
EXTENDS Integers, SequencesExt

CONSTANT MaxParticipantName   \* 30 runes in the code

maxCombiningMarks == 3

\* Letters, a combining mark, the space, a white rune that is kept (U+00A0),
\* a white one that is not (a tab), and one that is invisible (U+200B).
Marks == {"'"}
White == {" ", "nbsp", "tab"}
Removed == {"tab", "zwsp"}
Rune == {"a", "b"} \cup Marks \cup White \cup Removed

\* strings.TrimSpace.
TrimSpace(name) ==
  LET ink == {i \in DOMAIN name : name[i] \notin White}
  IN  IF ink = {} THEN <<>>
      ELSE SubSeq(name, CHOOSE i \in ink : \A j \in ink : i <= j,
                        CHOOSE i \in ink : \A j \in ink : i >= j)

\* The loop over the runes: kept so far, and marks since the last other rune,
\* a removed one included.
Kept(name) ==
  LET step(acc, rune) ==
        IF rune \in Marks
        THEN [marks |-> acc.marks + 1,
              out |-> IF acc.marks < maxCombiningMarks
                      THEN Append(acc.out, rune) ELSE acc.out]
        ELSE [marks |-> 0,
              out |-> IF rune \in Removed THEN acc.out
                      ELSE Append(acc.out, rune)]
  IN  FoldLeft(step, [marks |-> 0, out |-> <<>>], name).out

\* Mutant: what the removal of invisible runes lays bare is not trimmed.
SanitizeTrimmingOnce(name) == Kept(TrimSpace(name))

SanitizeName(name) == TrimSpace(Kept(TrimSpace(name)))

\* What Join and UpdateName make of a raw name; <<>> is refused.
DisplayName(name) ==
  LET clean == SanitizeName(name)
  IN  IF Len(clean) > MaxParticipantName
      THEN SubSeq(clean, 1, MaxParticipantName) ELSE clean

-----------------------------------------------------------------------------
\* A name fit to be shown: something visible at its front, nothing that
\* vanishes, not too long.  (At its end a truncated name may have a space.)
IsClean(name) ==
  /\ Len(name) \in 1 .. MaxParticipantName
  /\ name[1] \notin White
  /\ \A i \in DOMAIN name : name[i] \notin Removed

MarksInARow(name, n) ==
  \E i \in DOMAIN name : /\ i + n - 1 <= Len(name)
                         /\ \A j \in i .. i + n - 1 : name[j] \in Marks
=============================================================================
