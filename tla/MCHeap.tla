------------------------------- MODULE MCHeap -------------------------------
(* PluginHeap on buffers of a few cells: a header takes two, alignment is   *)
(* two, and unsigned int wraps at 32.                                       *)
EXTENDS PluginHeap

LayoutSizes == {1, 4, 7, 31}
TwoIds      == {0, 3}
TaggedSizes == {1, 5}
=============================================================================
