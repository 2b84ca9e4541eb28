---------------------------- MODULE MCPlaybackRun ----------------------------
EXTENDS PlaybackRun

CONSTANTS d1, d2, b1, b2

MCQueues == {<<d1, d2>>, <<b1, d1>>, <<d1>>}
MCBooks == {b1, b2}
=============================================================================
