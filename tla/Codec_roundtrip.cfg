\* Codec round trips and reference checks over bounded test cases.
CONSTANT W = 3
SPECIFICATION Spec
\* Every state is a fixed test case: no step changes it.
CHECK_DEADLOCK FALSE
INVARIANT XdrRoundTrip
INVARIANT FramingRoundTrip
INVARIANT FileIdRoundTrip
INVARIANT AuthenticateRecoversCreds
INVARIANT CredsEqualLaws
INVARIANT GetAttrReplyDescribesRequest
INVARIANT SetAttrDecodesSentAttrs
