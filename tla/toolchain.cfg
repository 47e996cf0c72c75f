SPECIFICATION Spec
CONSTANTS
  Inputs <- Queries
  MaxTemps = 100
INVARIANTS
  RelationsOnOnePath
  PayloadsFit
  OutcomeAsDocumented
  EveryTriggerFed
  TriggersMaintain
  QueryAnswered
