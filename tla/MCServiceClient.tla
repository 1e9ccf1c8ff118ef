--------------------------- MODULE MCServiceClient ---------------------------
EXTENDS ServiceClient

MCTypes == {{"event"}, {"local", "remote"}}
=============================================================================
