-------------------------- MODULE MCReliableChannel --------------------------
EXTENDS ReliableChannel

\* The theorems of ReliableChannelProofs apply to the instances checked.
ASSUME InstanceFits == BacklogFits
=============================================================================
