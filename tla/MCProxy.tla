------------------------------ MODULE MCProxy ------------------------------
(***************************************************************************)
(* Proxy with a channel of one message, a client that does not read and    *)
(* lines of which one has two wallets and is too long for the buffer.      *)
(***************************************************************************)
EXTENDS Proxy

CONSTANTS word, wallet

Lines == {<<word>>, <<wallet, wallet>>}
LongLines == {<<wallet, wallet>>}
Wallets == {wallet, Bogus}
=============================================================================
