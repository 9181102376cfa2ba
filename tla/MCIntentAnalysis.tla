-------------------------- MODULE MCIntentAnalysis --------------------------
\* Two titles to choose between.
EXTENDS IntentAnalysis

CONSTANTS t1, t2
TwoTitles == {t1, t2}
=============================================================================
