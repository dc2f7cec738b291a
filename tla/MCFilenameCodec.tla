--------------------------- MODULE MCFilenameCodec ---------------------------
(* 8-bit integers, so that a three-digit token overflows; timestamps at  *)
(* the least and greatest integer, negative ones included; two operating *)
(* systems; device ids with letters, a hyphen or only a digit; listed     *)
(* names built from field tokens that are valid, empty, negative, too     *)
(* large or a non-ASCII digit, with one to six fields, and with a wrong    *)
(* prefix or without the suffix.                                            *)
EXTENDS FilenameCodec

MCOsTokens == {<<"i", "o", "s">>, <<"a", "n", "d", "r", "o", "i", "d">>}

MCMetaDomain ==
    [backup_scheme: {V1},
     backup_version: {0, 10, MaxInt},
     timestamp: {MinInt, -1, 0, 9, MaxInt},
     device_id: {<<"d", "e", "v">>, <<"7">>, <<"a", "-", "1">>},
     operating_system: MCOsTokens]

Tokens == {<<"i", "o", "s">>, <<"7">>, <<"2", "0", "0">>, <<NdDigit>>,
           <<>>, <<"-", "1">>}

JoinFields(f) ==
    FoldLeft(LAMBDA acc, x : acc \o <<"_">> \o x, f[1], Tail(f))

Named(f) == <<Prefix>> \o JoinFields(f) \o <<Suffix>>

MCListedNames ==
    {Named(f) : f \in [1..5 -> Tokens]}
    \cup {Named(f) : f \in [1..4 -> {<<"7">>}] \cup [1..6 -> {<<"7">>}]}
    \cup {<<Prefix>> \o JoinFields([i \in 1..5 |-> <<"7">>]),
          <<"sealvault_bakup_">> \o JoinFields([i \in 1..5 |-> <<"7">>])
                                  \o <<Suffix>>}
=============================================================================
