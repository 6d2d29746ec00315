\* Two fair workers, two keys, two sets of options, unfair controllers.
CONSTANTS
  Targets = {t1}
  Features = {f1}
  Params = {p1, p2}
  Workers = {w1, w2}
  MalformedTargets = {}
  MaxQueue = 2
  Nil = Nil
SPECIFICATION FairSpec
INVARIANTS TypeOK InProgressIsRunners DirtyIdleIsQueuedAsAsked DirtyIsReportedInProgress
           ResultIsCurrent
PROPERTIES NeverForgotten ImplementsLedger EveryRequestIsRun
