----------------------------- MODULE MCAnchorizer ------------------------------
\* The headings of the run of Anchorizer: "a", "a-1", "a-2", "a-1-1", "" and "-1"
EXTENDS Anchorizer

Collisions == {<<1>>, <<1, 1>>, <<1, 2>>, <<1, 1, 1>>, <<0>>, <<0, 1>>}
================================================================================
