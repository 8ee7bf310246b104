SPECIFICATION Spec
CONSTANTS
  Nobody = Nobody
  e1 = e1
  e2 = e2
  m1 = m1
  m2 = m2
  c1 = c1
  d1 = d1
  d2 = d2
  w1 = w1
  w2 = w2
  a1 = a1
  f1 = f1
  f2 = f2
  DefaultReply = DefaultReply
  Events <- TwoEvents
  Messages <- TwoMessages
  Comments <- OneComment
  Holds <- Carried
  Abusive <- Swearing
  Deliverers <- TwoDeliverers
  Workers <- TwoWorkers
  Agents <- OneAgent
  MessageWorkflows <- TwoWorkflows
  CommentWorkflows <- NoWorkflow
  Requested <- OneStatus
  Faults <- AllFaults
SYMMETRY Symmetry
INVARIANTS
  HandedOverOnce
  ProcessedIsComplete
  AnsweredOnce
  AbuseEscalates
CHECK_DEADLOCK FALSE
