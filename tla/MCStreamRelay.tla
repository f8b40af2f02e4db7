--------------------------- MODULE MCStreamRelay ---------------------------
(* Finite instances of StreamRelay for TLC. *)
EXTENDS StreamRelay

\* The code's 32 and 64, scaled down so that the answer does not fit in them.
MCCap == [parsed |-> 1, adapted |-> 1, tracked |-> 1, wire |-> 1]

\* Each provider and each kind of writer, the warden on for two of them.
MCStreams == {<<"openai", "openai", TRUE>>, <<"gemini", "anthropic", FALSE>>,
              <<"gemini", "responses", FALSE>>, <<"anthropic", "anthropic", TRUE>>}
=============================================================================
