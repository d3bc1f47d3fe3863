------------------------- MODULE MCVoteVerification -------------------------
EXTENDS VoteVerification

=============================================================================
