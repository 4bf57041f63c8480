----------------------------- MODULE MCChatPanel ----------------------------
EXTENDS ChatPanel
=============================================================================
