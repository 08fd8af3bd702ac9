---------------------------- MODULE MCChannelInbox ----------------------------
(* ChannelInbox for TLC: two processes and two messages, so that a poll of    *)
(* the old holder of the lease is still open when the new one stores its own. *)
EXTENDS ChannelInbox
================================================================================
