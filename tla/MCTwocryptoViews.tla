--------------------------- MODULE MCTwocryptoViews ---------------------------
(***************************************************************************)
(* The pools of MCTwocrypto, asked for quotes and prices at every state.   *)
(***************************************************************************)
EXTENDS MCTwocrypto, TwocryptoViews
=============================================================================
