---------------------------- MODULE MCHeaderSync ----------------------------
EXTENDS HeaderSync
CONSTANTS bx, by, none
TwoBranches == {bx, by}
Weights == [b \in {bx, by} |-> IF b = bx THEN 3 ELSE 2]
\* branch bx at 5 has more work than by at 6, and less than by at 7.
ServedTips == {Hdr(bx, 5), Hdr(by, 6), Hdr(by, 7)}
AtFirst == Hdr(bx, 5)
Snapshots == {none, Hdr(bx, 4)}
OffByOne == {0, 1}
=============================================================================
