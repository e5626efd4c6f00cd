SPECIFICATION Spec
CONSTANT Null = Null
INVARIANTS
    RequestsMeanTheSame
    BatchesFit
    FramesMeanTheSame
    CipherIsStandard
    SignaturesHaveOneEncoding
    NumbersAreExact
PROPERTY HashesAreStandard
CHECK_DEADLOCK FALSE
