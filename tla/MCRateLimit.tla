----------------------------- MODULE MCRateLimit -----------------------------
EXTENDS RateLimit

\* One request more than the permits of an address.
MCRequests == 1..3
MCIps == {"a"}

=============================================================================
