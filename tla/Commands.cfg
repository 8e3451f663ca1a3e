SPECIFICATION FairSpec
CONSTANTS
    Verbs = {"deploy", "fresh", "destroy", "destroy-skip-terraform", "destroy-skip-cleanup", "cleanup"}
    StartLive = FALSE
    AmbientAccess <- AnyAmbient
    AccessOutcomes = {TRUE, FALSE}
    MaxFaults = 1
INVARIANT TypeOK
INVARIANT SuccessMeansGone
PROPERTY IdentityPreserved
PROPERTY ApiFallback
PROPERTY DestroyConverges
