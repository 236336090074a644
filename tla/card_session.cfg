SPECIFICATION NfcSpec
CONSTANTS
    Capacity = 67
    MaxIds = 1
    Requests <- Probes
INVARIANTS ReadsOnlyArrived AnswersFit OnlyAfterSelect
PROPERTIES AuthenticatedMeansProved
