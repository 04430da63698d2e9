\* An error reply after relayed bytes.
CONSTANT Configs <- MCConfigs
SPECIFICATION Spec
INVARIANT NoReplyIntoRelayedStream
