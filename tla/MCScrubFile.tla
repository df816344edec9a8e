---------------------------- MODULE MCScrubFile ----------------------------
(* Instances of ScrubFile for TLC.                                          *)
EXTENDS ScrubFile

Setup(scope, background, cycles) == [scope |-> scope, background |-> background, cycles |-> cycles]

\* Two background scrubs of different devices of one file system.
Single == [p1 |-> {1}, p2 |-> {2}]
\* Two scrubs of the same device.
Same == [p1 |-> {1}, p2 |-> {1}]
\* Two scrubs of one device, a third of another.
Mixed == [p1 |-> {1}, p2 |-> {1}, p3 |-> {2}]

MCSetups == {Setup(Single, {"p1", "p2"}, 2), Setup(Mixed, {}, 0)}
TwoDevices == {Setup(Single, {"p1", "p2"}, 0)}
TwoStarts == {Setup(Same, {"p1", "p2"}, 0)}
=============================================================================
