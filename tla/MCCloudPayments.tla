--------------------------- MODULE MCCloudPayments ---------------------------
EXTENDS CloudPayments

=============================================================================
