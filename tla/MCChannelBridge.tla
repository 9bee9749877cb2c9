-------------------------- MODULE MCChannelBridge --------------------------
EXTENDS ChannelBridge
=============================================================================
