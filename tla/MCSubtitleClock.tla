--------------------------- MODULE MCSubtitleClock ---------------------------
EXTENDS SubtitleClock

MCSeeks  == {-1, 1}
MCDelays == {-1, 0, 1}
MCThetas == {-3, 1}

=============================================================================
