---------------------------- MODULE MC_LLMHandler ----------------------------
EXTENDS LLMHandler
=============================================================================
