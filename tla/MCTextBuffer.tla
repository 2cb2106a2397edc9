---------------------------- MODULE MCTextBuffer ----------------------------
(***************************************************************************)
(* Instances of TextBuffer for TLC: the host (replica 0) and guests, whose *)
(* ids start at FIRST_COLLAB_ID.                                           *)
(***************************************************************************)
EXTENDS TextBuffer

OneGuest == {LOCAL_REPLICA, 8}

TwoGuests == {LOCAL_REPLICA, 8, 9}

NoRequests == {}

Renames == {"rename"}

AllRequests == {"rename", "onTypeFormatting"}

Formatting == {"onTypeFormatting"}
=============================================================================
