---------------------------- MODULE MCRateLimit ----------------------------
EXTENDS RateLimit
============================================================================
