----------------------------- MODULE MCBandwidth -----------------------------
EXTENDS Bandwidth

\* Guests 3 and 30: qemu-3 begins qemu-30 as well.
NestedIds == {<<3, 3>>, <<3, 30>>, <<30, 30>>}
=============================================================================
