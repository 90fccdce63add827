-------------------------------- MODULE MCVad --------------------------------
EXTENDS Vad

\* Whole windows, and one sample more or less; no limit, and a limit.
MCNSamples == {47, 48}
MCMaxDurations == {0, 24}
=============================================================================
