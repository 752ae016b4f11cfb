---------------------------- MODULE MCFrameLoop ----------------------------
EXTENDS FrameLoop
CONSTANTS v1, v2
MCViews == <<v1, v2>>
MCOneView == <<v1>>
=============================================================================
