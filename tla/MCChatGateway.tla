------------------------------ MODULE MCChatGateway ------------------------------
(* Two requests that overlap, with a prompt that passes and one that does not. *)
EXTENDS ChatGateway
===============================================================================
