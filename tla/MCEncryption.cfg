SPECIFICATION Spec
CONSTANTS
    Bytes <- ByteSet
    Width = 2
    Requested <- KeySet
    Associated <- KadSet
    EncryptModes <- EModes
    DecryptModes <- DModes
    UkadMax <- UkadLimit
    AkadMax <- AkadLimit
    MaxItems = 2
INVARIANTS WrittenAsTold ReadAsTold LabelFirst
