------------------------------ MODULE MCCodec ------------------------------
EXTENDS Probe, TLC

\* An Exit has no field, a code, a signal or both, a ServerVersion is ours or
\* another; the other JSON messages are one well-formed text.
MCTexts ==
  [t \in JsonTags |->
     IF t = ExitTag THEN {<<1>>, <<2>>, <<3>>}
     ELSE IF t = VersionTag THEN {<<1>>, <<2>>} ELSE {<<1>>}]

MCOurs == {<<1>>}

MCOverfull == {<<3>>}

F(t, p) == [tag |-> t, payload |-> p]

\* Payloads below, at and above the cap of two bytes; bytes that could be tags.
MCMessages ==
  {F(2, <<>>), F(3, <<2, 5>>), F(2, <<2, 2, 2>>),
   F(5, <<1>>), F(5, <<3>>), F(7, <<>>), F(1, <<1>>),
   F(11, <<1>>), F(11, <<2>>)}

\* Unknown tags, lengths above the cap in each byte, payloads that do not parse.
MCNoise ==
  {<<0, 0, 0, 0, 0>>, <<12, 0, 0, 0, 0>>, <<2, 0, 0, 0, 3>>, <<2, 0, 0, 1, 0>>,
   <<2, 0, 1, 0, 0>>, <<2, 1, 0, 0, 0>>, <<7, 0, 0, 0, 1, 9>>,
   <<5, 0, 0, 0, 1, 3>>, <<1, 0, 0, 0, 1, 9>>, <<11, 0, 0, 0, 1, 9>>, <<2, 0, 0, 0, 2>>}
=============================================================================
