---------------------------- MODULE MCLogPoller -----------------------------
\* The instance of LogPoller for TLC.
EXTENDS LogPoller

\* A client begins without a header, with the first ID, or with a number below it;
\* v1 begins at 0 with a header that is no number.
MCFirstIDs == {-1, 1}
=============================================================================
