------------------------------ MODULE MCChatRoom ------------------------------
(* One peer, whose three packets the page hears in any order and any number of times. *)
EXTENDS ChatRoom

MCSigned == [p |-> <<"AboutMe", "Leave", "Chat">>]
=============================================================================
