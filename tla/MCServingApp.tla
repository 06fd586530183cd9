---------------------------- MODULE MCServingApp ----------------------------
\* ServingApp on a small instance: the boot, the reloader and the workers over
\* a bucket that starts with any contents and is rewritten a few times.
EXTENDS ServingApp, TLC

CONSTANTS v1, v2, b1, b2, main, reloader, w1, own, secret, wrong, accented

MCThreads == {main, reloader} \cup Workers

\* Versions are only compared for equality, and so are contents.
MCSymmetry == Permutations(Versions) \cup Permutations(Blobs)
=============================================================================
