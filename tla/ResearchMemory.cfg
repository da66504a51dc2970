SPECIFICATION Spec
CONSTANTS
    Ids = {i1, i2}
    MaxRestarts = 1
INVARIANTS AcknowledgedIndexed VerifiedCutover
PROPERTIES ArtifactsLeaveKnowingly OrphansSwept
