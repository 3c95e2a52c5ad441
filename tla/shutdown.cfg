SPECIFICATION FairSpec
INVARIANT ShutdownInv
INVARIANT NoConfirmationSurvives
INVARIANT ExitIsNoFailure
PROPERTY KeepsPromise
PROPERTY ManagerReturns
PROPERTY ConfirmedExitIsSent
CHECK_DEADLOCK FALSE
