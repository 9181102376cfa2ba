------------------------- MODULE MCDraftGeneration -------------------------
\* Two styles: the retry of a failed generation may ask for the other one.
EXTENDS DraftGeneration

TwoStyles == {"plain", "list"}
=============================================================================
