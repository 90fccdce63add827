---------------------------- MODULE MCWhisperFull ----------------------------
EXTENDS WhisperFull

\* As the JNI wrapper calls it: greedy, several decoders above temperature 0.
App == [strategy |-> "greedy", best_of |-> 2, beam_size |-> 1,
        temperature |-> 0, temperature_inc |-> 6,
        n_max_text_ctx |-> 100, initial_prompt |-> 0, carry_initial_prompt |-> FALSE,
        no_context |-> TRUE, no_timestamps |-> FALSE, single_segment |-> FALSE,
        max_tokens |-> 0, offset |-> 0, duration |-> 0, multilingual |-> FALSE,
        abort_callback |-> FALSE]

\* Beam search with the default best_of.
Beam == [App EXCEPT !.strategy = "beam", !.beam_size = 2, !.best_of = -1, !.duration = 6]

\* The longest prompt there can be, for one decoder and for two.
Prompted == [App EXCEPT !.no_timestamps = TRUE, !.multilingual = TRUE, !.initial_prompt = 9,
                        !.no_context = FALSE, !.duration = 6]
PromptedTwice == [Prompted EXCEPT !.initial_prompt = 12, !.temperature = 4, !.temperature_inc = 0]

Carried == [App EXCEPT !.carry_initial_prompt = TRUE, !.initial_prompt = 3, !.best_of = 1,
                       !.n_max_text_ctx = 5, !.no_context = FALSE, !.abort_callback = TRUE]

\* The tokens to repeat are more than the prompt's budget.
Streamed == [App EXCEPT !.single_segment = TRUE, !.max_tokens = 1, !.offset = 1, !.best_of = 1,
                        !.carry_initial_prompt = TRUE, !.initial_prompt = 2,
                        !.n_max_text_ctx = 1, !.no_context = FALSE]

MCSettings == {App, Beam, Prompted, PromptedTwice, Carried, Streamed}
MCAudioLens == {0, 11}
MCTextTokens == {-1}
=============================================================================
