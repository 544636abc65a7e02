---------------------------- MODULE MCStreaming ----------------------------
(* An instance of Streaming for TLC: how many frames a stream may have.     *)
EXTENDS Streaming

\* Enough for two tools, one of them with a chunk, and a proper end.
FramesOf == [p \in Providers |-> CASE p = "anthropic" -> 8 [] p = "openai" -> 6 [] p = "gemini" -> 5]
=============================================================================
