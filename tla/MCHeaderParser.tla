---------------------------- MODULE MCHeaderParser ----------------------------
EXTENDS HeaderParser

\* Every short text, and blocks of several lines with continuations, empty
\* values, both line ends, a tab where it is white space and where it is refused,
\* and a body behind them.
ShortTexts == UNION {[1 .. n -> {"a", ":", SP, "TAB", "CR", "LF", "CTL"}] : n \in 0 .. 4}

LongTexts ==
    { <<"a", ":", SP, "b", "CR", "LF", "b", ":", "CR", "LF", "CR", "LF", "=", "a">>,
      <<"a", "b", ":", "b", "LF", "TAB", "=", "LF", "b", ":", "TAB", "LF", "LF", "a">>,
      <<"a", ":", "LF", SP, "TAB", "CR", "LF", SP, "b", "LF", "CR", "LF">>,
      <<"a", ":", "=", ":", "CR", "a", "LF", "LF">>,
      <<"a", ":", "b", "LF", "=", ":">>,
      <<"a", ":", "b", "LF", "CR", "b">>,
      <<"a", ":", "b", "CR", "LF", ":", "b">>,
      <<"a", ":", "CR", SP, "LF", "b">>,
      <<"a", ":", "b", "LF", SP, "CTL">>,
      <<"a", ":", "b", SP, "b", "LF", "b", ":", "b", "TAB", "LF">>,
      <<"a", ":", "b", "LF", "TAB", "=", "TAB", "b">> }

SomeTexts == ShortTexts \cup LongTexts
==============================================================================
