SPECIFICATION Spec
INVARIANTS TypeOK StoppedMeansGone
PROPERTIES StopHonoured RemovalCompletes ChildEndReported
