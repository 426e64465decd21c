----------------------------- MODULE MCEncodings -----------------------------
\* Instances of Encodings for TLC.
EXTENDS Encodings

\* A letter, two digits that are hexadecimal, every byte the formats give a
\* meaning to, a new line and a byte beyond ASCII.
MCByte == {122, 50, 53, 10, 233, space, quote, percent, ampersand, plus, dot, slash,
           semicolon, equals, question, backslash}

\* s://[:]:80 and h/a
MCRoot ==
  {[scheme |-> <<115>>, host |-> <<91, 58, 93>>, port |-> 80, path |-> <<>>, query |-> <<>>],
   [scheme |-> <<>>, host |-> <<104>>, port |-> 0, path |-> <<47, 97>>, query |-> <<>>]}
=============================================================================
