----------------------------- MODULE MCBilling ------------------------------
(***************************************************************************)
(* TLC instance of Billing.  The echoed string holds every character the   *)
(* automaton must not react to inside a string, alone, escaped and at the  *)
(* end, and the billed key, alone and as the escaped text of a whole pair; *)
(* the long ones push the pair behind the middle of the record, which      *)
(* selects the suffix window, and one lets it start at a closing quote.    *)
(***************************************************************************)
EXTENDS Billing

MCEcho == {<<>>, <<"open">>, <<"close", "x">>, <<"B", "Q", "open">>, <<"B", "B">>,
           <<"t">>, <<"B", "Q", "t", "B", "Q", "colon", "1">>,
           <<"x", "x", "x", "x", "x", "x", "x", "x", "x", "x">>,
           <<"x", "x", "x", "x", "x", "x", "x", "x", "x", "B", "B", "x">>,
           <<"x", "x", "close", "x", "x", "x", "x", "x", "x", "x", "B", "Q", "open">>}
MCId == {<<"x">>, <<"open", "B", "Q">>}
MCCount == {<<"1">>, <<"1", "0">>, <<"2", "0">>}
MCTagByte == {"x", "Q", "open", "B"}

=============================================================================
