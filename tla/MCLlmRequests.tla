----------------------------- MODULE MCLlmRequests -----------------------------
\* The instances for TLC. Sizes are in units of 125 tokens: a window of 8000 tokens
\* and one of 200000, a short question and one of 6000 tokens, results of tools
\* that fit, that fill a window together, and that are too long.
EXTENDS LlmRequests

Mix(config, report, choice, question, agent) ==
  [config |-> config, report |-> report, choice |-> choice, question |-> question, agent |-> agent]
MCMixes == {Mix(3, 0, 0, 0, 0), Mix(1, 2, 0, 0, 0), Mix(0, 3, 0, 0, 0), Mix(0, 0, 3, 0, 0), Mix(1, 0, 0, 1, 0), Mix(0, 0, 0, 0, 1)}
MCConfigs == {1, 2}
\* None, one of either window, and two active ones, which simultaneous activations leave.
MCFirstConfigs == {<<"none", "none">>, <<"on", "none">>, <<"off", "on">>, <<"on", "on">>}
MCWindowOf == <<64, 1600>>
MCQuestionSizes == {1, 48}
MCHistories == {<<>>, <<Message("user", 30, 0), Message("assistant", 4, 1)>>}
MCToolResults == {<<2>>, <<20, 20>>, <<900>>}

Text(id, owner, size, far, words) == [id |-> id, owner |-> owner, size |-> size, far |-> far, words |-> words]
MCCorpora == {{}, {Text(1, "chat", 40, <<20, 60>>, <<2, 0>>), Text(2, "tool", 70, <<50, 10>>, <<0, 1>>)}}

\* Three texts, near and far, with the query's words and without.
SearchMixes == {Mix(0, 0, 0, 1, 0)}
SearchCorpora ==
  {{Text(1, "chat", 1, <<f1, f1>>, <<w1, w1>>), Text(2, "tool", 1, <<f2, f2>>, <<w2, w2>>), Text(3, "timeline", 1, <<f3, f3>>, <<w3, w3>>)} :
     f1 \in {10, 50}, f2 \in {30, 50}, f3 \in {10, 90}, w1 \in {0, 1}, w2 \in {0, 2}, w3 \in {0, 1}}
SearchHistories == {<<>>}
SearchSizes == {1}
SearchResults == {<<1>>}
=============================================================================
