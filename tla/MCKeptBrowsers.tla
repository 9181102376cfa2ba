--------------------------- MODULE MCKeptBrowsers ---------------------------
\* Two threads that need the profile: a scheduled publication and a login.
EXTENDS KeptBrowsers

TwoFlows == {"publish", "login"}
=============================================================================
