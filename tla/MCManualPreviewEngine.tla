-------------------------- MODULE MCManualPreviewEngine --------------------------
EXTENDS ManualPreviewEngine, TLC

\* An ordinary character, one that is dropped, and one that NFKC expands.
plain == Atom("char", "", 1)
dropped == Atom("char", "", 2)
expanding == Atom("char", "", 3)
zero == Atom("digit", "", 0)
one == Atom("digit", "", 1)
person == Word("PERSON")

MCWidth == (plain :> 1) @@ (dropped :> 0) @@ (expanding :> 2) @@ (zero :> 1) @@ (one :> 1) @@ (person :> 1)
MCContents ==
    {<<plain, plain, plain>>, <<plain, dropped, plain>>, <<dropped, expanding>>,
     <<expanding, plain>>, <<plain, zero, plain>>, <<plain, person, one>>,
     <<person, plain, person>>}
MCRewriteContents == {<<plain, plain, plain>>, <<plain, person, one>>}

\* A titled name, a labelled account number, a bare name and a bare number.
MCPatterns == 1..4
MCCore == {1}
MCTypeOf == <<"PERSON", "ACCOUNT_NUMBER", "PERSON", "ACCOUNT_NUMBER">>

MCOutputs == {<<>>, <<person, Atom("digit", "", 1), Atom("digit", "", 0)>>, <<one>>}
MCSensitive == {<<one>>}
==================================================================================
