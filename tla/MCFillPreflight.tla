---------------------------- MODULE MCFillPreflight ----------------------------
EXTENDS FillPreflight
AllMarkets == Markets
Reach == {1, 2}
=============================================================================
