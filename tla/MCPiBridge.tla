------------------------------ MODULE MCPiBridge ------------------------------
\* PiBridge with the widget's attempt w1, a job's j1, and two Pis.
EXTENDS PiBridge
CONSTANTS w1, j1, p1, p2, k1, k2
OneJob == {j1}
WidgetAndJob == {w1, j1}
TwoPis == {p1, p2}
TwoKeys == {k1, k2}
===============================================================================
