SPECIFICATION Spec
INVARIANTS AccessorExact AcceptedIsAsked BlobsExact IdsSound RetrievalSound
CHECK_DEADLOCK FALSE
