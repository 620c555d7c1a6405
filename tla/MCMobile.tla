----------------------------- MODULE MCMobile ------------------------------
(***************************************************************************)
(* Instances of Mobile for TLC.                                            *)
(***************************************************************************)
EXTENDS Mobile, TLC

\* Two corridors.  For the one amount of the instance either corridor asks for
\* nothing under one setting; the first one's daily limit is too low under the
\* other, and the second one asks for a verification, or is switched off.
List == <<"PH", "MX">>
Band(active, tier1, daily) ==
    [active |-> active, tier1Max |-> tier1, tier2Max |-> 2, dailyLimit |-> daily]
Settings ==
    {[PH |-> Band(TRUE, 2, 2), MX |-> Band(TRUE, 1, 2)],
     [PH |-> Band(TRUE, 2, 1), MX |-> Band(FALSE, 2, 2)]}

\* The transfers of two customers, and what is keyed in for them.
Ledger == <<<<"A", "0">>, <<"1", "1">>>>
Codes == {<<"A", "0">>, <<"0", "1">>}
Keyed == {<<"a", "-", "o">>, <<"1">>}
=============================================================================
