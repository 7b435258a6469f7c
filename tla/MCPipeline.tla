----------------------------- MODULE MCPipeline -----------------------------
EXTENDS Pipeline

\* Requests that are well-formed, empty, malformed or refused, and arguments that look
\* like protocol.
MCRequest ==
  { <<"*", "1", "\r", "\n", "$", "1", "\r", "\n", "x", "\r", "\n">>,
    <<"*", "2", "\r", "\n", "$", "0", "\r", "\n", "\r", "\n", "$", "2", "\r", "\n", "\r", "\n", "\r", "\n">>,
    <<"*", "3", "\r", "\n", "$", "1", "\r", "\n", "*", "\r", "\n",
      "$", "2", "\r", "\n", "\n", "$", "\r", "\n", "$", "1", "\r", "\n", "y", "\r", "\n">>,
    <<"*", "0", "\r", "\n">>,
    <<"*", "8", "\r", "\n">>,
    <<"*", "0", "1", "\r", "\n">>,
    <<"*", "-", "1", "\r", "\n">>,
    <<"x", " ", "y", "\r", "\n">>,
    <<"P", " ", "x", "\n">>,
    <<"\r", "\n">>,
    <<"\"", "x", "\n">>,
    <<"'", "x", " ", "y", "'", "\r", "\n">>,
    <<"*", "x", "\r", "\n">>,
    <<"*", "1", "\r", "\n", "x", "\r", "\n">>,
    <<"*", "1", "\r", "\n", "$", "-", "1", "\r", "\n">>,
    <<"*", "1", "\r", "\n", "$", "9", "\r", "\n">> }

MCUnit == [s \in {<<"k">>, <<"k", "b">>, <<"m">>, <<"m", "b">>, <<"g">>, <<"g", "b">>} |-> 1]
MCStream == {a \o b : a \in MCRequest, b \in MCRequest}

\* "post" and "host:", here the one character "P".
MCAborting == { <<"P">> }
=============================================================================
