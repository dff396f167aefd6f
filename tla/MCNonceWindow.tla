---------------------------- MODULE MCNonceWindow ----------------------------
(* NonceWindow with a mask of WBits bits and nonces up to MaxNonce, so that *)
(* jumps shorter than, equal to and longer than the mask all happen.        *)
EXTENDS NonceWindow

CONSTANTS MaxNonce     \* bound: the highest nonce a request carries

MCNonces == 0 .. MaxNonce
==============================================================================
