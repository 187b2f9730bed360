------------------------------ MODULE MCUpdate ------------------------------
\* Instances of Update for TLC.
EXTENDS Update

\* "0.0.1", and the digits of CA_VERSION as the server sends them.
MCCaVersion == <<<<0>>, <<0>>, <<1>>>>

\* Bodies without digits, with too many components, components above 255, that
\* wrap (WordSize is 2^12) or are not hexadecimal, and versions around ours.
Digits == {<<>>, <<0>>, <<1>>, <<1, 0, 0>>, <<1, 0, 0, 1>>, <<8, 0, 0>>,
           <<NotHex>>}
MCResponses == {<<a, b, c>> : a \in {<<0>>, <<2>>}, b \in Digits, c \in {<<1>>, <<2>>}}
               \cup {<<a>> : a \in Digits} \cup {<<a, <<1>>>> : a \in Digits}
               \cup {<<a, a, a, a>> : a \in {<<1>>}}
=============================================================================
