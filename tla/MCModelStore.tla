---------------------------- MODULE MCModelStore ----------------------------
\* ModelStore on a small instance: two threads reload while the training side
\* rewrites the bucket, which starts with any contents.
EXTENDS ModelStore, TLC

CONSTANTS v1, v2, b1, b2, t1, t2, own, other

MCVersions == {v1, v2}
MCBlobs == {b1, b2}
MCThreads == {t1, t2}
MCNames == {own, other}

\* Versions are only compared for equality; so are contents and threads.
MCSymmetry ==
    Permutations(MCVersions) \cup Permutations(MCBlobs) \cup Permutations(MCThreads)
=============================================================================
