---------------------------- MODULE MCMailFetcher ----------------------------
EXTENDS MailFetcher
CONSTANTS m1, m2, m3
=============================================================================
