SPECIFICATION FairSpec
CONSTANTS
  NumTiers = 3
  Register <- RegisterDef
  TierOf <- TierOfDef
  GroupOf <- GroupOfDef
  Link = "link"
  BoardLocal = {"link", "exchanger"}
  Temp = {"exchanger", "room", "comfort"}
  Entity <- EntityDef
  Kind <- KindDef
  Own <- OwnDef
  Setpoint <- SetpointDef
  Followed <- FollowedDef
  Domain <- DomainDef
  Targets = {23}
  Given <- GivenDef
  Absent = Absent
  Unknown = Unknown
  Disabled = Disabled
  Unavailable = Unavailable
  NoCommand = NoCommand
  MaxEvents = 2
  MaxCommands = 1
INVARIANTS TypeOK ShownIsCurrent OutageHidden PlaceholderHidden
PROPERTIES CommandShows ShowsTheTruth
