--------------------------- MODULE MCConversation ---------------------------
(* Conversation on a small instance.                                        *)
EXTENDS Conversation

=============================================================================
