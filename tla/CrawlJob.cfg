\* One page: its robots.txt, its redirects, its text.
SPECIFICATION Spec
CONSTANTS
  NoStatus = NoStatus
  NoBody = NoBody
  Garbled = Garbled
  OctetMax = 3
  BlockedV4 <- MCBlockedV4
  NotGlobalV4 <- MCNotGlobalV4
  NotGlobalForms <- MCNotGlobalForms
  Site <- MCSite
  Targets <- MCTargets
  Paths = {"p"}
  Documents <- MCDocuments
  Answers <- MCAnswers
  Payloads <- MCPayloads
  MaxHops = 2
  MaxChars = 3
  MaxText = 4
CHECK_DEADLOCK FALSE
INVARIANTS
  ConnectsToPermitted
  RobotsRespected
  PromptKeepsFrame
PROPERTIES
  JobEnds
