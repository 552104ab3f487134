------------------------ MODULE MCScreenshotDrafts ------------------------
EXTENDS ScreenshotDrafts, TLC

\* Ids and file names in the order they are given out.
MCRows  == 1 .. 2
MCFiles == 1 .. 2

\* All payments of one amount at one moment.
MCOneMoment == {0}

Tabs == Permutations(Clients)
=============================================================================
