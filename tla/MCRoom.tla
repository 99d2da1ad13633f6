------------------------------- MODULE MCRoom -------------------------------
(* Instances of Room for TLC, with the display names of Names and the       *)
(* statistics of Stats.                                                     *)
EXTENDS Room, Stats, Names, TLC

\* A rune that is shown is a character: a display name becomes a string.
Shown(name) ==
  FoldLeft(LAMBDA str, rune : str \o (IF rune = "nbsp" THEN "_" ELSE rune),
           "", name)

\* A blank uncovered by an invisible rune, a mark too many in a name that is
\* too long, and nothing visible at all.
MCRawName == {<<"zwsp", " ", "a">>, <<"b", "'", "'", "'", "'", "b">>,
              <<"tab", "zwsp">>}
MCDisplayName == [raw \in MCRawName |-> Shown(DisplayName(raw))]
MCName == {MCDisplayName[raw] : raw \in MCRawName} \ {""}

\* "7" is no card of the deck.
MCVoteInput == {"", "5", "8", "?", "7"}
MCRoleInput == {"", "voter", "observer", "admin"}
MCStatusInput == {"active", "away"}
MCDurationInput == 1 .. 4

Anybody == Permutations(Session)

CleanNames ==
  {Shown(name) : name \in {n \in BoundedSeq(Rune, MaxParticipantName) : IsClean(n)}}

\* All names of up to five runes come out clean or empty; without invisible
\* runes in between no fourth mark survives.
NamesComeOutClean ==
  \A raw \in BoundedSeq(Rune, 5) :
    LET name == DisplayName(raw)
    IN  /\ name = <<>> \/ IsClean(name)
        /\ (\A i \in DOMAIN raw : raw[i] \notin Removed) =>
             ~MarksInARow(name, maxCombiningMarks + 1)

\* Whatever name was typed, when joining, rejoining or later, the one in the
\* room can be shown: sanitizeName leaves nothing invisible and no blank in
\* front, and a name that comes to nothing is refused.
NamesAreClean ==
  /\ NamesComeOutClean
  /\ \A s \in Members(room) : room.participants[s].name \in CleanNames

\* All ballots of up to four voters.
BallotsComeOutRight ==
  \A n \in 0 .. 4 :
    \A ballot \in [1 .. n -> {"", "?", "0.5", "1", "2", "100"}] :
      ResultIsRight([i \in 1 .. n |-> [role |-> "voter", vote |-> ballot[i]]])

\* The statistics of every ballot the room can hold, question marks, missing
\* cards, observers and the absent among them, are what they claim to be.
StatisticsAreRight ==
  BallotsComeOutRight /\ ResultIsRight(room.participants)

\* "`[min, max]` of numeric votes, or `null` if < 2 distinct numeric votes"
\* (docs/planning/04-architecture.md): not so in the code, whose tests ask for
\* the spread of a single number and of equal ones.
ASSUME AgreementHasASpread ==
  \A n \in 1 .. 4 : \A card \in {"0.5", "1", "2", "100"} :
    CalculateResult([i \in 1 .. n |-> [role |-> "voter", vote |-> card]]).spread
      = <<Halves(card), Halves(card)>>
=============================================================================
