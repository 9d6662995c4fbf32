----------------------------- MODULE MCLongPoll -----------------------------
(* Small instances of LongPoll for TLC.                                    *)
EXTENDS LongPoll, TLC

CONSTANTS a, b, u1, w1, w2

OneChannel == {a}
TwoChannels == {a, b}
OneUrl == {u1}
OneWriter == {w1}
TwoWriters == {w1, w2}
WriterSymmetry == Permutations(Writers)
=============================================================================
