SPECIFICATION Spec
CONSTANTS
  Session = {s1, s2, s3}
  RawName <- MCRawName
  Name <- MCName
  displayName <- MCDisplayName
  MaxParticipantName = 4
  MaxParticipants = 2
  MinTimerDuration = 2
  MaxTimerDuration = 3
  DefaultTimerDuration = 2
  VoteInput <- MCVoteInput
  RoleInput <- MCRoleInput
  StatusInput <- MCStatusInput
  DurationInput <- MCDurationInput
  MaxTime = 3
SYMMETRY Anybody
INVARIANTS
  TypeOK ObserverHasNoVote CapacityRespected 
  RemainingAgreesWithState NamesAreClean StatisticsAreRight
PROPERTIES
  VotesFrozenInReveal CardsStay ImplementsVotingRound SeniorityStable
  ActivityIsStamped CountdownUninterrupted
